------------------------- MODULE ControlPlane_proofs -------------------------
(***************************************************************************)
(* What one row of the log does to the control plane's state, and what it  *)
(* leaves alone: the effect of every operation, the state invariants it    *)
(* keeps, and the answers that stay true.                                  *)
(***************************************************************************)
EXTENDS ControlLogInv, SequenceTheorems, FiniteSetTheorems, TLAPS

(* A log is replayed by a fold of its rows. *)
Replaying(p, r, row) == ApplyNext(r, row)
INSTANCE Folds_proofs WITH op <- Replaying

-----------------------------------------------------------------------------
(* Sequences of no particular type *)

LEMMA SequenceOf ==
    ASSUME NEW n \in Nat, NEW s, s = [i \in 1..n |-> s[i]]
    PROVE  IsSequence(s) /\ Len(s) = n /\ DOMAIN s = 1..n
<1>1. s \in [1..n -> Range(s)]
    BY DEF Range
<1>2. s \in Seq(Range(s)) /\ Len(s) = n
    BY <1>1
<1> QED
    BY <1>2 DEF IsSequence

LEMMA SequenceIs ==
    ASSUME NEW s, IsSequence(s)
    PROVE  Len(s) \in Nat /\ DOMAIN s = 1..Len(s) /\ s = [i \in 1..Len(s) |-> s[i]]
BY DEF IsSequence

LEMMA SequenceAny ==
    ASSUME NEW S, NEW s, s \in Seq(S)
    PROVE  IsSequence(s)
<1>1. Len(s) \in Nat /\ DOMAIN s = 1..Len(s)
    BY LenProperties
<1>2. s \in Seq(Range(s))
    BY <1>1 DEF Range
<1> QED
    BY <1>2 DEF IsSequence

LEMMA EmptySequence == IsSequence(<<>>) /\ Len(<<>>) = 0 /\ DOMAIN <<>> = 1..0
<1>1. <<>> = [i \in 1..0 |-> <<>>[i]] /\ 0 \in Nat
    OBVIOUS
<1> QED
    BY <1>1, SequenceOf

Longer(s, e, t) ==
    /\ IsSequence(t) /\ Len(s) \in Nat /\ Len(t) = Len(s) + 1
    /\ \A i \in 1..Len(s) : t[i] = s[i]
    /\ t[Len(s) + 1] = e
    /\ DOMAIN t = 1..(Len(s) + 1)

LEMMA AppendAny ==
    ASSUME NEW s, IsSequence(s), NEW e, NEW t, t = Append(s, e)
    PROVE  Longer(s, e, t)
<1> DEFINE S == Range(s) \cup {e}
<1>1. s \in Seq(S) /\ e \in S
  <2>1. s \in Seq(Range(s)) /\ Range(s) \subseteq S
      BY DEF IsSequence
  <2> HIDE DEF S
  <2>2. s \in Seq(S)
      BY <2>1
  <2> QED BY <2>2 DEF S
<1> HIDE DEF S
<1>2. /\ t \in Seq(S) /\ Len(s) \in Nat /\ Len(t) = Len(s) + 1
      /\ \A i \in 1..Len(s) : t[i] = s[i]
      /\ t[Len(s) + 1] = e
    BY <1>1, AppendProperties, LenProperties
<1>3. DOMAIN t = 1..Len(t)
    BY <1>2, LenProperties
<1>4. t \in Seq(Range(t))
    BY <1>2, <1>3 DEF Range
<1> QED
    BY <1>2, <1>3, <1>4 DEF IsSequence, Longer

Replaced(s, i, e, t) ==
    /\ IsSequence(t) /\ Len(t) = Len(s) /\ Len(s) \in Nat
    /\ t[i] = e /\ \A j \in 1..Len(s) : j # i => t[j] = s[j]

LEMMA ExceptAny ==
    ASSUME NEW s, IsSequence(s), NEW i \in 1..Len(s), NEW e, NEW t, t = [s EXCEPT ![i] = e]
    PROVE  Replaced(s, i, e, t)
<1>1. Len(s) \in Nat /\ DOMAIN s = 1..Len(s)
    BY SequenceIs
<1>2. t = [j \in 1..Len(s) |-> t[j]]
    BY <1>1
<1>3. IsSequence(t) /\ Len(t) = Len(s)
    BY <1>1, <1>2, SequenceOf
<1> QED
    BY <1>1, <1>3 DEF Replaced

-----------------------------------------------------------------------------
(* What applying a row does, one lemma for each kind of command *)

AppliesAs(st, row, c) ==
    /\ c.op = "create_market" =>
         Apply(st, row) = IF ExistingMarket(st, c) # {} THEN st ELSE CreateMarket(st, c)
    /\ c.op = "create_group" =>
         Apply(st, row) = IF ExistingGroup(st, c) # {} THEN st ELSE CreateGroup(st, c)
    /\ c.op = "extend_group" => Apply(st, row) = ExtendGroup(st, c)
    /\ c.op \in {"resolve", "attest"} => Apply(st, row) = Settled(st, c.market, c.payout)
    /\ c.op = "register_feed" => Apply(st, row) = RegisterFeed(st, c)
    /\ c.op = "install_template" => Apply(st, row) = InstallTemplate(st, c)
    /\ c.op = "provision" =>
         Apply(st, row) =
           [NewAccount(st, NoKey) EXCEPT !.receipts =
              @ \cup {[key |-> c.key, request |-> c.request, account |-> row.account]}]
    /\ c.op = "public_account" =>
         Apply(st, row) = [NewAccount(st, c.pubkey) EXCEPT !.public = @ + 1]
    /\ c.op = "create_account" => Apply(st, row) = NewAccount(st, c.pubkey)
    /\ c.op = "fund" => Apply(st, row) = Fund(st, c)
    /\ c.op = "nonce" => Apply(st, row) = Advance(st, c)
    /\ c.op = "profile" => Apply(st, row) = SetProfile(st, c)
    /\ c.op = "api_create" => Apply(st, row) = CreateApiKey(st, c)
    /\ c.op = "api_revoke" => Apply(st, row) = RevokeApiKey(st, c)
    /\ c.op = "first_key" => Apply(st, row) = AddKey(st, c)
    /\ c.op = "register_key" => Apply(st, row) = RegisterKey(st, c)
    /\ c.op = "revoke_key" => Apply(st, row) = RevokeKey(st, c)
    /\ c.op = "mm_submit" =>
         Apply(st, row) = MmApplied(st, row, {Quote(c, 0, row.order_id)}, row.order_id)
    /\ c.op = "mm_replace" =>
         Apply(st, row) = MmApplied(st, row, {Quote(c, c.expected + 1, row.order_id)}, row.order_id)
    /\ c.op = "mm_cancel" => Apply(st, row) = MmApplied(st, row, {}, 0)

LEMMA Applies ==
    ASSUME NEW st, NEW row, NEW c, c = row.command
    PROVE  AppliesAs(st, row, c)
<1>1. ASSUME c.op = "resolve" \/ c.op = "attest" PROVE Apply(st, row) = Settled(st, c.market, c.payout)
    BY <1>1, Zenon DEF Apply
<1> QED
    BY <1>1, Zenon DEF Apply, AppliesAs

ChecksAs(st, row, c) ==
    /\ c.op = "create_market" =>
         (Applicable(st, row) <=> SameKey(st.markets, c) = {} \/ ExistingMarket(st, c) # {})
    /\ c.op = "create_group" =>
         (Applicable(st, row) <=> CanCreateGroup(st, c) \/ ExistingGroup(st, c) # {})
    /\ c.op = "extend_group" => (Applicable(st, row) <=> CanExtend(st, c))
    /\ c.op = "resolve" => (Applicable(st, row) <=> Tradeable(st, c.market))
    /\ c.op = "attest" => (Applicable(st, row) <=> AttestationAccepted(st, c))
    /\ c.op = "register_feed" => (Applicable(st, row) <=> TRUE)
    /\ c.op = "install_template" => (Applicable(st, row) <=> TRUE)
    /\ c.op = "provision" =>
         (Applicable(st, row) <=> ReceiptFor(st, c) = {} /\ row.account = Len(st.accounts) + 1)
    /\ c.op = "public_account" =>
         (Applicable(st, row) <=> row.index = st.public /\ ~Registered(st, c.pubkey))
    /\ c.op = "create_account" =>
         (Applicable(st, row) <=> c.pubkey = NoKey \/ ~Registered(st, c.pubkey))
    /\ c.op = "fund" => (Applicable(st, row) <=> c.account \in Accounts(st))
    /\ c.op = "profile" => (Applicable(st, row) <=> c.account \in Accounts(st))
    /\ c.op = "nonce" => (Applicable(st, row) <=> FreshNonce(st, c))
    /\ c.op = "api_create" => (Applicable(st, row) <=> CanCreateApiKey(st, c))
    /\ c.op = "api_revoke" => (Applicable(st, row) <=> CanRevokeApiKey(st, c))
    /\ c.op = "first_key" =>
         (Applicable(st, row) <=> CanRegisterFirst(st, c) /\ CreatedThisBlock(st, c.account))
    /\ c.op = "register_key" => (Applicable(st, row) <=> CanRegisterAuthorized(st, c))
    /\ c.op = "revoke_key" => (Applicable(st, row) <=> CanRevoke(st, c))
    /\ c.op = "mm_submit" =>
         (Applicable(st, row) <=> Active(st, c.account) = {} /\ FreshNonce(st, c))
    /\ c.op = "mm_replace" =>
         (Applicable(st, row) <=> Targets(st, c, c.expected) /\ FreshNonce(st, c))
    /\ c.op = "mm_cancel" =>
         (Applicable(st, row) <=> Targets(st, c, c.expected) /\ FreshNonce(st, c))

LEMMA Checks ==
    ASSUME NEW st, NEW row, NEW c, c = row.command
    PROVE  ChecksAs(st, row, c)
BY Zenon DEF Applicable, ChecksAs

(* t differs from s in the fields F at most. *)
Keeps(s, t, F) == DOMAIN t = Fields /\ \A f \in Fields \ F : t[f] = s[f]

LEMMA FieldsOf == ASSUME NEW st, Shape(st) PROVE DOMAIN st = Fields
BY DEF Shape, EmptyState, Fields

MarketsAfter(st, c) ==
    /\ Keeps(st, CreateMarket(st, c), {"markets"})
    /\ CreateMarket(st, c).markets
         = Append(st.markets, [name |-> c.name, key |-> c.key, template |-> c.template])
    /\ Keeps(st, CreateGroup(st, c), {"groups"})
    /\ CreateGroup(st, c).groups
         = Append(st.groups, [name |-> c.name, key |-> c.key, markets |-> c.markets])
    /\ Keeps(st, RegisterFeed(st, c), {"feeds"})
    /\ RegisterFeed(st, c).feeds
         = IF FeedOf(st, c.pubkey) # {} THEN st.feeds ELSE Append(st.feeds, c.pubkey)
    /\ Keeps(st, InstallTemplate(st, c), {"templates"})
    /\ InstallTemplate(st, c).templates
         = {t \in st.templates : t.name # c.name} \cup {[name |-> c.name, feed |-> c.feed]}

LEMMA MarketEffects ==
    ASSUME NEW st, Shape(st), NEW c
    PROVE  MarketsAfter(st, c)
<1>1. DOMAIN st = Fields
    BY FieldsOf
<1>2. /\ Keeps(st, CreateMarket(st, c), {"markets"})
      /\ CreateMarket(st, c).markets
           = Append(st.markets, [name |-> c.name, key |-> c.key, template |-> c.template])
    BY <1>1 DEF Keeps, CreateMarket, Fields
<1>3. /\ Keeps(st, CreateGroup(st, c), {"groups"})
      /\ CreateGroup(st, c).groups
           = Append(st.groups, [name |-> c.name, key |-> c.key, markets |-> c.markets])
    BY <1>1 DEF Keeps, CreateGroup, Fields
<1>4. /\ Keeps(st, RegisterFeed(st, c), {"feeds"})
      /\ RegisterFeed(st, c).feeds
           = IF FeedOf(st, c.pubkey) # {} THEN st.feeds ELSE Append(st.feeds, c.pubkey)
    BY <1>1 DEF Keeps, RegisterFeed, Fields
<1>5. /\ Keeps(st, InstallTemplate(st, c), {"templates"})
      /\ InstallTemplate(st, c).templates
           = {t \in st.templates : t.name # c.name} \cup {[name |-> c.name, feed |-> c.feed]}
    BY <1>1 DEF Keeps, InstallTemplate, Fields
<1> QED
    BY <1>2, <1>3, <1>4, <1>5 DEF MarketsAfter

GroupsAfter(st, c) ==
    /\ Keeps(st, ExtendGroup(st, c), {"groups", "events"})
    /\ c.market \in st.groups[c.group].markets => ExtendGroup(st, c) = st
    /\ c.market \notin st.groups[c.group].markets =>
         /\ ExtendGroup(st, c).groups
              = [st.groups EXCEPT ![c.group].markets = @ \cup {c.market}]
         /\ ExtendGroup(st, c).events
              = st.events \cup {Event("extended", c.group, c.market)}
    /\ Keeps(st, Settled(st, c.market, c.payout), {"groups", "events", "payouts"})
    /\ Settled(st, c.market, c.payout).payouts
         = st.payouts \cup {[market |-> c.market, payout |-> c.payout]}
    /\ Settled(st, c.market, c.payout).events
         = st.events \cup {Event("resolved", c.market, c.payout)}
    /\ Settled(st, c.market, c.payout).groups = Shrink(st.groups, c.market)

LEMMA GroupEffects ==
    ASSUME NEW st, Shape(st), NEW c
    PROVE  GroupsAfter(st, c)
<1>1. DOMAIN st = Fields
    BY FieldsOf
<1>2. /\ Keeps(st, ExtendGroup(st, c), {"groups", "events"})
      /\ c.market \in st.groups[c.group].markets => ExtendGroup(st, c) = st
    BY <1>1 DEF Keeps, ExtendGroup, Fields
<1>3. ASSUME c.market \notin st.groups[c.group].markets
      PROVE  /\ ExtendGroup(st, c).groups = [st.groups EXCEPT ![c.group].markets = @ \cup {c.market}]
             /\ ExtendGroup(st, c).events = st.events \cup {Event("extended", c.group, c.market)}
    BY <1>1, <1>3 DEF ExtendGroup, Fields
<1>4. /\ Keeps(st, Settled(st, c.market, c.payout), {"groups", "events", "payouts"})
      /\ Settled(st, c.market, c.payout).payouts
           = st.payouts \cup {[market |-> c.market, payout |-> c.payout]}
      /\ Settled(st, c.market, c.payout).events
           = st.events \cup {Event("resolved", c.market, c.payout)}
      /\ Settled(st, c.market, c.payout).groups = Shrink(st.groups, c.market)
    BY <1>1 DEF Keeps, Settled, Fields
<1> QED
    BY <1>2, <1>3, <1>4 DEF GroupsAfter

Fresh == [last_nonce |-> 0, chain |-> 0, balance |-> 0, profile |-> "", api_keys |-> <<>>]

LEMMA AccountEffects ==
    ASSUME NEW st, Shape(st), NEW key, NEW t, t = NewAccount(st, key)
    PROVE  /\ Keeps(st, t, {"accounts", "keys", "events"})
           /\ t.accounts = Append(st.accounts, Fresh)
           /\ t.keys = IF key = NoKey THEN st.keys
                       ELSE st.keys \cup {[key |-> key, account |-> Len(st.accounts) + 1]}
           /\ t.events = st.events \cup {Event("created", Len(st.accounts) + 1, key)}
<1>1. DOMAIN st = Fields
    BY FieldsOf
<1> QED
    BY <1>1 DEF Keeps, NewAccount, Fields, Fresh

AccountFields == {"last_nonce", "chain", "balance", "profile", "api_keys"}

(* The accounts of t are those of s but for the fields F of account a. *)
Changes(s, t, a, F) ==
    /\ t.accounts = [s.accounts EXCEPT ![a] = t.accounts[a]]
    /\ DOMAIN t.accounts[a] = AccountFields
    /\ \A f \in AccountFields \ F : t.accounts[a][f] = s.accounts[a][f]

LEMMA AccountShape ==
    ASSUME NEW st, Shape(st), NEW a \in Accounts(st)
    PROVE  /\ DOMAIN st = Fields /\ st.accounts \in Seq(Range(st.accounts))
           /\ Len(st.accounts) \in Nat /\ DOMAIN st.accounts = 1..Len(st.accounts)
           /\ a \in DOMAIN st.accounts
           /\ DOMAIN st.accounts[a] = AccountFields
           /\ IsSequence(st.accounts[a].api_keys)
           /\ Len(st.accounts[a].api_keys) \in Nat
           /\ DOMAIN st.accounts[a].api_keys = 1..Len(st.accounts[a].api_keys)
<1>1. st.accounts \in Seq(Range(st.accounts)) /\ IsSequence(st.accounts[a].api_keys)
    BY DEF Shape, AccountOK, IsSequence
<1>2. Len(st.accounts) \in Nat /\ DOMAIN st.accounts = 1..Len(st.accounts)
    BY <1>1
<1>3. /\ Len(st.accounts[a].api_keys) \in Nat
      /\ DOMAIN st.accounts[a].api_keys = 1..Len(st.accounts[a].api_keys)
    BY <1>1 DEF IsSequence
<1> QED
    BY <1>1, <1>2, <1>3, FieldsOf DEF Shape, AccountOK, Accounts, AccountFields

NoncesAfter(st, c) ==
    /\ Keeps(st, Advance(st, c), {"accounts"})
    /\ Changes(st, Advance(st, c), c.account, {"last_nonce"})
    /\ Advance(st, c).accounts[c.account].last_nonce = c.nonce
    /\ Keeps(st, SetProfile(st, c), {"accounts"})
    /\ Changes(st, SetProfile(st, c), c.account, {"profile"})
    /\ SetProfile(st, c).accounts[c.account].profile = c.profile
    /\ Keeps(st, Fund(st, c), {"accounts", "events"})
    /\ Changes(st, Fund(st, c), c.account, {"balance"})
    /\ Fund(st, c).accounts[c.account].balance = st.accounts[c.account].balance + c.amount
    /\ Fund(st, c).events = st.events \cup {Event("deposit", c.account, c.amount)}

LEMMA NonceEffects ==
    ASSUME NEW st, Shape(st), NEW c, c.account \in Accounts(st)
    PROVE  NoncesAfter(st, c)
<1>1. /\ DOMAIN st = Fields /\ c.account \in DOMAIN st.accounts
      /\ DOMAIN st.accounts[c.account] = AccountFields
    BY AccountShape
<1>2. /\ Keeps(st, Advance(st, c), {"accounts"})
      /\ Changes(st, Advance(st, c), c.account, {"last_nonce"})
      /\ Advance(st, c).accounts[c.account].last_nonce = c.nonce
    BY <1>1 DEF Keeps, Changes, Advance, Fields, AccountFields
<1>3. /\ Keeps(st, SetProfile(st, c), {"accounts"})
      /\ Changes(st, SetProfile(st, c), c.account, {"profile"})
      /\ SetProfile(st, c).accounts[c.account].profile = c.profile
    BY <1>1 DEF Keeps, Changes, SetProfile, Fields, AccountFields
<1>4. /\ Keeps(st, Fund(st, c), {"accounts", "events"})
      /\ Changes(st, Fund(st, c), c.account, {"balance"})
      /\ Fund(st, c).accounts[c.account].balance = st.accounts[c.account].balance + c.amount
      /\ Fund(st, c).events = st.events \cup {Event("deposit", c.account, c.amount)}
    BY <1>1 DEF Keeps, Changes, Fund, Fields, AccountFields
<1> QED
    BY <1>2, <1>3, <1>4 DEF NoncesAfter

ApiKeysAfter(st, c) ==
    /\ Keeps(st, CreateApiKey(st, c), {"accounts", "index"})
    /\ Changes(st, CreateApiKey(st, c), c.account, {"api_keys"})
    /\ CreateApiKey(st, c).accounts[c.account].api_keys
         = Append(st.accounts[c.account].api_keys, [hash |-> c.hash, active |-> TRUE])
    /\ CreateApiKey(st, c).index
         = st.index \cup {[hash |-> c.hash, account |-> c.account]}
    /\ Keeps(st, RevokeApiKey(st, c), {"accounts", "index"})
    /\ Changes(st, RevokeApiKey(st, c), c.account, {"api_keys"})
    /\ RevokeApiKey(st, c).accounts[c.account].api_keys
         = [st.accounts[c.account].api_keys EXCEPT ![c.id].active = FALSE]
    /\ RevokeApiKey(st, c).index
         = {k \in st.index : k.hash # st.accounts[c.account].api_keys[c.id].hash}

LEMMA ApiKeyEffects ==
    ASSUME NEW st, Shape(st), NEW c, c.account \in Accounts(st)
    PROVE  ApiKeysAfter(st, c)
<1>1. /\ DOMAIN st = Fields /\ c.account \in DOMAIN st.accounts
      /\ DOMAIN st.accounts[c.account] = AccountFields
    BY AccountShape
<1>2. /\ Keeps(st, CreateApiKey(st, c), {"accounts", "index"})
      /\ Changes(st, CreateApiKey(st, c), c.account, {"api_keys"})
      /\ CreateApiKey(st, c).accounts[c.account].api_keys
           = Append(st.accounts[c.account].api_keys, [hash |-> c.hash, active |-> TRUE])
      /\ CreateApiKey(st, c).index = st.index \cup {[hash |-> c.hash, account |-> c.account]}
    BY <1>1 DEF Keeps, Changes, CreateApiKey, Fields, AccountFields
<1>3. /\ Keeps(st, RevokeApiKey(st, c), {"accounts", "index"})
      /\ Changes(st, RevokeApiKey(st, c), c.account, {"api_keys"})
      /\ RevokeApiKey(st, c).accounts[c.account].api_keys
           = [st.accounts[c.account].api_keys EXCEPT ![c.id].active = FALSE]
      /\ RevokeApiKey(st, c).index
           = {k \in st.index : k.hash # st.accounts[c.account].api_keys[c.id].hash}
    BY <1>1 DEF Keeps, Changes, RevokeApiKey, Fields, AccountFields
<1> QED
    BY <1>2, <1>3 DEF ApiKeysAfter

KeysAfter(st, c) ==
    /\ Keeps(st, AddKey(st, c), {"keys"})
    /\ AddKey(st, c).keys = st.keys \cup {[key |-> c.pubkey, account |-> c.account]}
    /\ Keeps(st, RegisterKey(st, c), {"accounts", "keys", "key_ops"})
    /\ Changes(st, RegisterKey(st, c), c.account, {"chain"})
    /\ RegisterKey(st, c).accounts[c.account].chain = st.accounts[c.account].chain + 1
    /\ RegisterKey(st, c).keys = st.keys \cup {[key |-> c.pubkey, account |-> c.account]}
    /\ RegisterKey(st, c).key_ops = st.key_ops + 1
    /\ Keeps(st, RevokeKey(st, c), {"accounts", "keys", "key_ops"})
    /\ Changes(st, RevokeKey(st, c), c.account, {"chain"})
    /\ RevokeKey(st, c).accounts[c.account].chain = st.accounts[c.account].chain + 1
    /\ RevokeKey(st, c).keys = st.keys \ {[key |-> c.pubkey, account |-> c.account]}
    /\ RevokeKey(st, c).key_ops = st.key_ops + 1

LEMMA KeyEffects ==
    ASSUME NEW st, Shape(st), NEW c, c.account \in Accounts(st)
    PROVE  KeysAfter(st, c)
<1>1. /\ DOMAIN st = Fields /\ c.account \in DOMAIN st.accounts
      /\ DOMAIN st.accounts[c.account] = AccountFields
    BY AccountShape
<1>2. /\ Keeps(st, AddKey(st, c), {"keys"})
      /\ AddKey(st, c).keys = st.keys \cup {[key |-> c.pubkey, account |-> c.account]}
    BY <1>1 DEF Keeps, AddKey, Fields
<1>3. ASSUME NEW s, Keeps(st, s, {"keys"}), NEW t, t = ChainKeyOp(s, c.account)
      PROVE  /\ Keeps(st, t, {"accounts", "keys", "key_ops"})
             /\ Changes(st, t, c.account, {"chain"})
             /\ t.accounts[c.account].chain = st.accounts[c.account].chain + 1
             /\ t.keys = s.keys /\ t.key_ops = st.key_ops + 1
    BY <1>1, <1>3 DEF Keeps, Changes, ChainKeyOp, Fields, AccountFields
<1>4. /\ Keeps(st, RegisterKey(st, c), {"accounts", "keys", "key_ops"})
      /\ Changes(st, RegisterKey(st, c), c.account, {"chain"})
      /\ RegisterKey(st, c).accounts[c.account].chain = st.accounts[c.account].chain + 1
      /\ RegisterKey(st, c).keys = st.keys \cup {[key |-> c.pubkey, account |-> c.account]}
      /\ RegisterKey(st, c).key_ops = st.key_ops + 1
    BY <1>2, <1>3 DEF RegisterKey
<1>5. /\ Keeps(st, RevokeKey(st, c), {"accounts", "keys", "key_ops"})
      /\ Changes(st, RevokeKey(st, c), c.account, {"chain"})
      /\ RevokeKey(st, c).accounts[c.account].chain = st.accounts[c.account].chain + 1
      /\ RevokeKey(st, c).keys = st.keys \ {[key |-> c.pubkey, account |-> c.account]}
      /\ RevokeKey(st, c).key_ops = st.key_ops + 1
  <2> DEFINE s == [st EXCEPT !.keys = @ \ {[key |-> c.pubkey, account |-> c.account]}]
  <2>1. Keeps(st, s, {"keys"}) /\ s.keys = st.keys \ {[key |-> c.pubkey, account |-> c.account]}
      BY <1>1 DEF Keeps, Fields
  <2>2. RevokeKey(st, c) = ChainKeyOp(s, c.account)
      BY DEF RevokeKey
  <2> HIDE DEF s
  <2> QED BY <1>3, <2>1, <2>2
<1> QED
    BY <1>2, <1>4, <1>5 DEF KeysAfter

LEMMA MmEffects ==
    ASSUME NEW st, Shape(st), NEW row, NEW a, a = row.command.account, a \in Accounts(st),
           NEW quotes, NEW reply, NEW t, t = MmApplied(st, row, quotes, reply)
    PROVE  /\ Keeps(st, t, {"accounts", "bundles", "next_order_id", "mm_receipts"})
           /\ Changes(st, t, a, {"last_nonce"})
           /\ t.accounts[a].last_nonce = row.command.nonce
           /\ t.bundles = (st.bundles \ Active(st, a)) \cup quotes
           /\ t.next_order_id = IF quotes = {} THEN st.next_order_id ELSE row.order_id + 1
           /\ t.mm_receipts = (st.mm_receipts \ MmReceipt(st, a)) \cup
                {[account |-> a, nonce |-> row.command.nonce, command |-> row.command,
                  reply |-> reply]}
<1>1. /\ DOMAIN st = Fields /\ a \in DOMAIN st.accounts
      /\ DOMAIN st.accounts[a] = AccountFields
    BY AccountShape
<1> QED
    BY <1>1 DEF Keeps, Changes, MmApplied, Fields, AccountFields

-----------------------------------------------------------------------------
(* The same, by what changed: everything an applicable row may do *)

MakesMarket(s, c, t) ==
    /\ c.op = "create_market" /\ SameKey(s.markets, c) = {}
    /\ Keeps(s, t, {"markets"})
    /\ t.markets = Append(s.markets, [name |-> c.name, key |-> c.key, template |-> c.template])

MakesGroup(s, c, t) ==
    /\ c.op = "create_group" /\ CanCreateGroup(s, c)
    /\ Keeps(s, t, {"groups"})
    /\ t.groups = Append(s.groups, [name |-> c.name, key |-> c.key, markets |-> c.markets])

Extends(s, c, t) ==
    /\ c.op = "extend_group" /\ CanExtend(s, c)
    /\ c.market \notin s.groups[c.group].markets
    /\ Keeps(s, t, {"groups", "events"})
    /\ t.groups = [s.groups EXCEPT ![c.group].markets = @ \cup {c.market}]
    /\ t.events = s.events \cup {Event("extended", c.group, c.market)}

Settles(s, c, t) ==
    /\ c.op \in {"resolve", "attest"} /\ Tradeable(s, c.market)
    /\ Keeps(s, t, {"groups", "events", "payouts"})
    /\ t.payouts = s.payouts \cup {[market |-> c.market, payout |-> c.payout]}
    /\ t.events = s.events \cup {Event("resolved", c.market, c.payout)}
    /\ t.groups = Shrink(s.groups, c.market)

AddsFeed(s, c, t) ==
    /\ c.op = "register_feed" /\ FeedOf(s, c.pubkey) = {}
    /\ Keeps(s, t, {"feeds"})
    /\ t.feeds = Append(s.feeds, c.pubkey)

Installs(s, c, t) ==
    /\ c.op = "install_template"
    /\ Keeps(s, t, {"templates"})
    /\ t.templates = {x \in s.templates : x.name # c.name} \cup {[name |-> c.name, feed |-> c.feed]}

(* The key that an account is created with. *)
FirstKey(c) == IF c.op = "provision" THEN NoKey ELSE c.pubkey

Opens(s, row, t) ==
    /\ row.command.op \in {"provision", "public_account", "create_account"}
    /\ Keeps(s, t, {"accounts", "keys", "events", "receipts", "public"})
    /\ t.accounts = Append(s.accounts, Fresh)
    /\ t.keys = IF FirstKey(row.command) = NoKey THEN s.keys
                ELSE s.keys \cup {[key |-> FirstKey(row.command), account |-> Len(s.accounts) + 1]}
    /\ t.events = s.events \cup {Event("created", Len(s.accounts) + 1, FirstKey(row.command))}
    /\ IF row.command.op = "provision"
         THEN /\ ReceiptFor(s, row.command) = {} /\ row.account = Len(s.accounts) + 1
              /\ t.receipts = s.receipts \cup {[key |-> row.command.key,
                                                request |-> row.command.request,
                                                account |-> row.account]}
         ELSE t.receipts = s.receipts
    /\ t.public = IF row.command.op = "public_account" THEN s.public + 1 ELSE s.public

Advances(s, c, t) ==
    /\ c.op = "nonce" /\ FreshNonce(s, c)
    /\ Keeps(s, t, {"accounts"}) /\ Changes(s, t, c.account, {"last_nonce"})
    /\ t.accounts[c.account].last_nonce = c.nonce

Renames(s, c, t) ==
    /\ c.op = "profile" /\ c.account \in Accounts(s)
    /\ Keeps(s, t, {"accounts"}) /\ Changes(s, t, c.account, {"profile"})
    /\ t.accounts[c.account].profile = c.profile

Funds(s, c, t) ==
    /\ c.op = "fund" /\ c.account \in Accounts(s)
    /\ Keeps(s, t, {"accounts", "events"}) /\ Changes(s, t, c.account, {"balance"})
    /\ t.accounts[c.account].balance = s.accounts[c.account].balance + c.amount
    /\ t.events = s.events \cup {Event("deposit", c.account, c.amount)}

MakesApiKey(s, c, t) ==
    /\ c.op = "api_create" /\ CanCreateApiKey(s, c)
    /\ Keeps(s, t, {"accounts", "index"}) /\ Changes(s, t, c.account, {"api_keys"})
    /\ t.accounts[c.account].api_keys
         = Append(s.accounts[c.account].api_keys, [hash |-> c.hash, active |-> TRUE])
    /\ t.index = s.index \cup {[hash |-> c.hash, account |-> c.account]}

RevokesApiKey(s, c, t) ==
    /\ c.op = "api_revoke" /\ CanRevokeApiKey(s, c)
    /\ Keeps(s, t, {"accounts", "index"}) /\ Changes(s, t, c.account, {"api_keys"})
    /\ t.accounts[c.account].api_keys
         = [s.accounts[c.account].api_keys EXCEPT ![c.id].active = FALSE]
    /\ t.index = {k \in s.index : k.hash # s.accounts[c.account].api_keys[c.id].hash}

AddsFirstKey(s, c, t) ==
    /\ c.op = "first_key" /\ CanRegisterFirst(s, c)
    /\ Keeps(s, t, {"keys"})
    /\ t.keys = s.keys \cup {[key |-> c.pubkey, account |-> c.account]}

OperatesKey(s, c, t) ==
    /\ c.op \in {"register_key", "revoke_key"} /\ c.account \in Accounts(s)
    /\ Keeps(s, t, {"accounts", "keys", "key_ops"}) /\ Changes(s, t, c.account, {"chain"})
    /\ t.accounts[c.account].chain = s.accounts[c.account].chain + 1
    /\ t.keys = IF c.op = "register_key"
                  THEN s.keys \cup {[key |-> c.pubkey, account |-> c.account]}
                  ELSE s.keys \ {[key |-> c.pubkey, account |-> c.account]}
    /\ t.key_ops = s.key_ops + 1

NewQuotes(row) ==
    IF row.command.op = "mm_cancel" THEN {}
    ELSE {Quote(row.command, IF row.command.op = "mm_submit" THEN 0 ELSE row.command.expected + 1,
                row.order_id)}

Quotes(s, row, t) ==
    /\ row.command.op \in {"mm_submit", "mm_replace", "mm_cancel"} /\ FreshNonce(s, row.command)
    /\ Keeps(s, t, {"accounts", "bundles", "next_order_id", "mm_receipts"})
    /\ Changes(s, t, row.command.account, {"last_nonce"})
    /\ t.accounts[row.command.account].last_nonce = row.command.nonce
    /\ t.bundles = (s.bundles \ Active(s, row.command.account)) \cup NewQuotes(row)
    /\ t.next_order_id = IF row.command.op = "mm_cancel" THEN s.next_order_id ELSE row.order_id + 1
    /\ t.mm_receipts = (s.mm_receipts \ MmReceipt(s, row.command.account)) \cup
         {[account |-> row.command.account, nonce |-> row.command.nonce, command |-> row.command,
           reply |-> IF row.command.op = "mm_cancel" THEN 0 ELSE row.order_id]}

(* The rows that may change nothing: what they create is there. *)
Idle(s, c) ==
    \/ c.op = "create_market" /\ ExistingMarket(s, c) # {}
    \/ c.op = "create_group" /\ ExistingGroup(s, c) # {}
    \/ c.op = "extend_group"
    \/ c.op = "register_feed" /\ FeedOf(s, c.pubkey) # {}

Effect(s, row, t) ==
    \/ t = s /\ Idle(s, row.command)
    \/ MakesMarket(s, row.command, t) \/ MakesGroup(s, row.command, t)
    \/ Extends(s, row.command, t) \/ Settles(s, row.command, t)
    \/ AddsFeed(s, row.command, t) \/ Installs(s, row.command, t)
    \/ Opens(s, row, t)
    \/ Advances(s, row.command, t) \/ Renames(s, row.command, t) \/ Funds(s, row.command, t)
    \/ MakesApiKey(s, row.command, t) \/ RevokesApiKey(s, row.command, t)
    \/ AddsFirstKey(s, row.command, t) \/ OperatesKey(s, row.command, t)
    \/ Quotes(s, row, t)

LEMMA EffectOf ==
    ASSUME NEW s, Shape(s), NEW row, row.command.op \in Ops \cup {"nonce"},
           Applicable(s, row), NEW t, t = Apply(s, row)
    PROVE  Effect(s, row, t)
<1> DEFINE c == row.command
<1>0. c = row.command
    OBVIOUS
<1> HIDE DEF c
<1>a. AppliesAs(s, row, c)
    BY <1>0, Applies
<1>b. ChecksAs(s, row, c)
    BY <1>0, Checks
<1>m. MarketsAfter(s, c)
    BY MarketEffects
<1>g. GroupsAfter(s, c)
    BY GroupEffects
<1>1. CASE c.op = "create_market"
  <2>1. SameKey(s.markets, c) = {} \/ ExistingMarket(s, c) # {}
      BY <1>0, <1>1, <1>b DEF ChecksAs
  <2>2. t = IF ExistingMarket(s, c) # {} THEN s ELSE CreateMarket(s, c)
      BY <1>0, <1>1, <1>a DEF AppliesAs
  <2>3. (t = s /\ Idle(s, c)) \/ MakesMarket(s, c, t)
      BY <1>1, <2>1, <2>2, <1>m DEF MakesMarket, MarketsAfter, Idle
  <2> QED BY <1>0, <2>3 DEF Effect
<1>2. CASE c.op = "create_group"
  <2>1. CanCreateGroup(s, c) \/ ExistingGroup(s, c) # {}
      BY <1>0, <1>2, <1>b DEF ChecksAs
  <2>2. t = IF ExistingGroup(s, c) # {} THEN s ELSE CreateGroup(s, c)
      BY <1>0, <1>2, <1>a DEF AppliesAs
  <2>3. (t = s /\ Idle(s, c)) \/ MakesGroup(s, c, t)
      BY <1>2, <2>1, <2>2, <1>m DEF MakesGroup, MarketsAfter, Idle
  <2> QED BY <1>0, <2>3 DEF Effect
<1>3. CASE c.op = "extend_group"
  <2>1. CanExtend(s, c) /\ t = ExtendGroup(s, c)
      BY <1>0, <1>3, <1>b, <1>a DEF AppliesAs, ChecksAs
  <2>2. (t = s /\ Idle(s, c)) \/ Extends(s, c, t)
      BY <1>3, <2>1, <1>g DEF Extends, GroupsAfter, Idle
  <2> QED BY <1>0, <2>2 DEF Effect
<1>4. CASE c.op = "resolve" \/ c.op = "attest"
  <2>1. Tradeable(s, c.market)
    <3>1. CASE c.op = "resolve"
        BY <1>0, <3>1, <1>b DEF ChecksAs
    <3>2. CASE c.op = "attest"
        BY <1>0, <3>2, <1>b DEF AttestationAccepted, ChecksAs
    <3> QED BY <1>4, <3>1, <3>2
  <2>2. t = Settled(s, c.market, c.payout)
      BY <1>0, <1>4, <1>a DEF AppliesAs
  <2>3. Settles(s, c, t)
      BY <1>4, <2>1, <2>2, <1>g DEF Settles, GroupsAfter
  <2> QED BY <1>0, <2>3 DEF Effect
<1>5. CASE c.op = "register_feed"
  <2>1. t = RegisterFeed(s, c)
      BY <1>0, <1>5, <1>a DEF AppliesAs
  <2>2. FeedOf(s, c.pubkey) # {} => t = s /\ Idle(s, c)
      BY <1>5, <2>1 DEF RegisterFeed, Idle
  <2>3. FeedOf(s, c.pubkey) = {} => AddsFeed(s, c, t)
      BY <1>5, <2>1, <1>m DEF AddsFeed, MarketsAfter
  <2> QED BY <1>0, <2>2, <2>3 DEF Effect
<1>6. CASE c.op = "install_template"
  <2>1. t = InstallTemplate(s, c)
      BY <1>0, <1>6, <1>a DEF AppliesAs
  <2>2. Installs(s, c, t)
      BY <1>6, <2>1, <1>m DEF Installs, MarketsAfter
  <2> QED BY <1>0, <2>2 DEF Effect
<1>7. CASE c.op \in {"provision", "public_account", "create_account"}
  <2>1. PICK u : u = NewAccount(s, FirstKey(c))
      OBVIOUS
  <2>2. /\ Keeps(s, u, {"accounts", "keys", "events"})
        /\ u.accounts = Append(s.accounts, Fresh)
        /\ u.keys = IF FirstKey(c) = NoKey THEN s.keys
                    ELSE s.keys \cup {[key |-> FirstKey(c), account |-> Len(s.accounts) + 1]}
        /\ u.events = s.events \cup {Event("created", Len(s.accounts) + 1, FirstKey(c))}
      BY <2>1, AccountEffects
  <2>3. CASE c.op = "provision"
    <3>1. ReceiptFor(s, c) = {} /\ row.account = Len(s.accounts) + 1
        BY <1>0, <2>3, <1>b DEF ChecksAs
    <3>2. FirstKey(c) = NoKey
        BY <2>3 DEF FirstKey
    <3>3. t = [u EXCEPT !.receipts = @ \cup {[key |-> c.key, request |-> c.request,
                                              account |-> row.account]}]
        BY <1>0, <2>1, <2>3, <3>2, <1>a DEF AppliesAs
    <3>4. /\ DOMAIN t = Fields /\ t.receipts = u.receipts \cup {[key |-> c.key,
                    request |-> c.request, account |-> row.account]}
          /\ \A f \in Fields \ {"receipts"} : t[f] = u[f]
        BY <2>2, <3>3 DEF Keeps, Fields
    <3>5. Opens(s, row, t)
        BY <1>0, <2>2, <2>3, <3>1, <3>4 DEF Opens, Keeps, Fields
    <3> QED BY <3>5 DEF Effect
  <2>4. CASE c.op = "public_account"
    <3>2. FirstKey(c) = c.pubkey
        BY <2>4 DEF FirstKey
    <3>3. t = [u EXCEPT !.public = @ + 1]
        BY <1>0, <2>1, <2>4, <3>2, <1>a DEF AppliesAs
    <3>4. /\ DOMAIN t = Fields /\ t.public = u.public + 1
          /\ \A f \in Fields \ {"public"} : t[f] = u[f]
        BY <2>2, <3>3 DEF Keeps, Fields
    <3>5. Opens(s, row, t)
        BY <1>0, <2>2, <2>4, <3>4 DEF Opens, Keeps, Fields
    <3> QED BY <3>5 DEF Effect
  <2>5. CASE c.op = "create_account"
    <3>1. t = u
        BY <1>0, <2>1, <2>5, <1>a DEF FirstKey, AppliesAs
    <3>2. Opens(s, row, t)
        BY <1>0, <2>2, <2>5, <3>1 DEF Opens, Keeps, Fields
    <3> QED BY <3>2 DEF Effect
  <2> QED BY <1>7, <2>3, <2>4, <2>5
<1>8. CASE c.op = "nonce"
  <2>1. FreshNonce(s, c) /\ t = Advance(s, c)
      BY <1>0, <1>8, <1>b, <1>a DEF AppliesAs, ChecksAs
  <2>2. Advances(s, c, t)
      BY <1>8, <2>1, NonceEffects DEF Advances, FreshNonce, NoncesAfter
  <2> QED BY <1>0, <2>2 DEF Effect
<1>9. CASE c.op = "profile"
  <2>1. c.account \in Accounts(s) /\ t = SetProfile(s, c)
      BY <1>0, <1>9, <1>b, <1>a DEF AppliesAs, ChecksAs
  <2>2. Renames(s, c, t)
      BY <1>9, <2>1, NonceEffects DEF Renames, NoncesAfter
  <2> QED BY <1>0, <2>2 DEF Effect
<1>10. CASE c.op = "fund"
  <2>1. c.account \in Accounts(s) /\ t = Fund(s, c)
      BY <1>0, <1>10, <1>b, <1>a DEF AppliesAs, ChecksAs
  <2>2. Funds(s, c, t)
      BY <1>10, <2>1, NonceEffects DEF Funds, NoncesAfter
  <2> QED BY <1>0, <2>2 DEF Effect
<1>11. CASE c.op = "api_create"
  <2>1. CanCreateApiKey(s, c) /\ t = CreateApiKey(s, c)
      BY <1>0, <1>11, <1>b, <1>a DEF AppliesAs, ChecksAs
  <2>2. c.account \in Accounts(s)
      BY <2>1 DEF CanCreateApiKey
  <2>4. ApiKeysAfter(s, c)
      BY <2>2, ApiKeyEffects
  <2>3. MakesApiKey(s, c, t)
      BY <1>11, <2>1, <2>4 DEF MakesApiKey, ApiKeysAfter
  <2> QED BY <1>0, <2>3 DEF Effect
<1>12. CASE c.op = "api_revoke"
  <2>1. CanRevokeApiKey(s, c) /\ t = RevokeApiKey(s, c)
      BY <1>0, <1>12, <1>b, <1>a DEF AppliesAs, ChecksAs
  <2>2. c.account \in Accounts(s)
      BY <2>1 DEF CanRevokeApiKey
  <2>4. ApiKeysAfter(s, c)
      BY <2>2, ApiKeyEffects
  <2>3. RevokesApiKey(s, c, t)
      BY <1>12, <2>1, <2>4 DEF RevokesApiKey, ApiKeysAfter
  <2> QED BY <1>0, <2>3 DEF Effect
<1>13. CASE c.op = "first_key"
  <2>1. CanRegisterFirst(s, c) /\ t = AddKey(s, c)
      BY <1>0, <1>13, <1>b, <1>a DEF AppliesAs, ChecksAs
  <2>2. AddsFirstKey(s, c, t)
      BY <1>13, <2>1, KeyEffects DEF AddsFirstKey, CanRegisterFirst, CanRegister, KeysAfter
  <2> QED BY <1>0, <2>2 DEF Effect
<1>14. CASE c.op = "register_key"
  <2>1. CanRegisterAuthorized(s, c) /\ t = RegisterKey(s, c)
      BY <1>0, <1>14, <1>b, <1>a DEF AppliesAs, ChecksAs
  <2>2. OperatesKey(s, c, t)
      BY <1>14, <2>1, KeyEffects DEF OperatesKey, CanRegisterAuthorized, CanRegister, KeysAfter
  <2> QED BY <1>0, <2>2 DEF Effect
<1>15. CASE c.op = "revoke_key"
  <2>1. CanRevoke(s, c) /\ t = RevokeKey(s, c)
      BY <1>0, <1>15, <1>b, <1>a DEF AppliesAs, ChecksAs
  <2>2. c.account \in Accounts(s)
    <3>1. [key |-> c.pubkey, account |-> c.account] \in s.keys
        BY <2>1 DEF CanRevoke
    <3> QED BY <3>1 DEF Shape
  <2>3. OperatesKey(s, c, t)
      BY <1>15, <2>1, <2>2, KeyEffects DEF OperatesKey, KeysAfter
  <2> QED BY <1>0, <2>3 DEF Effect
<1>16. CASE c.op \in {"mm_submit", "mm_replace", "mm_cancel"}
  <2>1. FreshNonce(s, c)
      BY <1>0, <1>16, <1>b DEF ChecksAs
  <2>2. t = MmApplied(s, row, NewQuotes(row),
                      IF c.op = "mm_cancel" THEN 0 ELSE row.order_id)
    <3>1. CASE c.op = "mm_submit"
      <4>1. NewQuotes(row) = {Quote(c, 0, row.order_id)}
          BY <1>0, <3>1 DEF NewQuotes
      <4> QED BY <1>0, <3>1, <4>1, <1>a DEF AppliesAs
    <3>2. CASE c.op = "mm_replace"
      <4>1. NewQuotes(row) = {Quote(c, c.expected + 1, row.order_id)}
          BY <1>0, <3>2 DEF NewQuotes
      <4> QED BY <1>0, <3>2, <4>1, <1>a DEF AppliesAs
    <3>3. CASE c.op = "mm_cancel"
      <4>1. NewQuotes(row) = {}
          BY <1>0, <3>3 DEF NewQuotes
      <4> QED BY <1>0, <3>3, <4>1, <1>a DEF AppliesAs
    <3> QED BY <1>16, <3>1, <3>2, <3>3
  <2>3. NewQuotes(row) = {} <=> c.op = "mm_cancel"
      BY <1>0 DEF NewQuotes
  <2>4. Quotes(s, row, t)
      BY <1>0, <1>16, <2>1, <2>2, <2>3, MmEffects DEF Quotes, FreshNonce
  <2> QED BY <2>4 DEF Effect
<1> QED
    BY <1>0, <1>1, <1>2, <1>3, <1>4, <1>5, <1>6, <1>7, <1>8, <1>9, <1>10, <1>11, <1>12, <1>13,
       <1>14, <1>15, <1>16 DEF Ops

-----------------------------------------------------------------------------
(* The folds *)

Keeping(m, kept, g) == KeepGroup(kept, g, m)
Groups == INSTANCE Folds_proofs WITH op <- Keeping

Seeding(p, st, name) == SeedMarket(st, name)
Seeded == INSTANCE Folds_proofs WITH op <- Seeding

Beginning(p, st, c) == GenesisNext(st, c)
Begun == INSTANCE Folds_proofs WITH op <- Beginning

(* The group dissolves when market m leaves it. *)
Drops(g, m) == m \in g.markets /\ Cardinality(g.markets \ {m}) < 2

(* kept are groups among the first k, in order, without market m; those that do
   not dissolve are all there, and before the first that does under their
   number. *)
KeptBy(f, groups, m, k, kept) ==
    /\ f \in [1..Len(kept) -> 1..k]
    /\ \A i, j \in 1..Len(kept) : i < j => f[i] < f[j]
    /\ \A i \in 1..Len(kept) : kept[i] = [groups[f[i]] EXCEPT !.markets = @ \ {m}]
    /\ \A i \in 1..Len(kept) : i <= f[i]
    /\ \A j \in 1..k : ~Drops(groups[j], m) => \E i \in 1..Len(kept) : f[i] = j
    /\ \A j \in 1..k : (\A h \in 1..j : ~Drops(groups[h], m)) => j \in 1..Len(kept) /\ f[j] = j
Kept(groups, m, k, kept) == IsSequence(kept) /\ \E f : KeptBy(f, groups, m, k, kept)

LEMMA KeptNext ==
    ASSUME NEW groups, NEW m, NEW k \in Nat, k # 0, NEW kept, Kept(groups, m, k - 1, kept)
    PROVE  Kept(groups, m, k, KeepGroup(kept, groups[k], m))
<1> DEFINE last == [groups[k] EXCEPT !.markets = @ \ {m}]
<1>0. PICK f : KeptBy(f, groups, m, k - 1, kept)
    BY DEF Kept
<1>1. /\ f \in [1..Len(kept) -> 1..(k - 1)]
      /\ \A i, j \in 1..Len(kept) : i < j => f[i] < f[j]
      /\ \A i \in 1..Len(kept) : kept[i] = [groups[f[i]] EXCEPT !.markets = @ \ {m}]
      /\ \A i \in 1..Len(kept) : i <= f[i]
      /\ \A j \in 1..(k - 1) : ~Drops(groups[j], m) => \E i \in 1..Len(kept) : f[i] = j
      /\ \A j \in 1..(k - 1) : (\A h \in 1..j : ~Drops(groups[h], m))
                                 => j \in 1..Len(kept) /\ f[j] = j
    BY <1>0 DEF KeptBy
<1>2. IsSequence(kept) /\ Len(kept) \in Nat
    BY SequenceIs DEF Kept
<1>k. \A j \in 1..k : j \in 1..(k - 1) \/ j = k
    OBVIOUS
<1>3. CASE Drops(groups[k], m)
  <2>1. f \in [1..Len(kept) -> 1..k]
    <3>1. \A i \in 1..Len(kept) : f[i] \in 1..k
        BY <1>1
    <3> QED BY <1>1, <3>1
  <2>2. \A j \in 1..k : ~Drops(groups[j], m) => \E i \in 1..Len(kept) : f[i] = j
      BY <1>1, <1>3, <1>k
  <2>3. \A j \in 1..k : (\A h \in 1..j : ~Drops(groups[h], m)) => j \in 1..Len(kept) /\ f[j] = j
    <3> SUFFICES ASSUME NEW j \in 1..k, \A h \in 1..j : ~Drops(groups[h], m)
                 PROVE  j \in 1..Len(kept) /\ f[j] = j
        OBVIOUS
    <3>1. j \in 1..j
        OBVIOUS
    <3>2. j \in 1..(k - 1)
        BY <1>3, <1>k, <3>1
    <3> QED BY <1>1, <3>2
  <2>4. KeptBy(f, groups, m, k, kept)
      BY <1>1, <2>1, <2>2, <2>3 DEF KeptBy
  <2>5. KeepGroup(kept, groups[k], m) = kept
      BY <1>3 DEF KeepGroup, Drops
  <2> QED BY <1>2, <2>4, <2>5 DEF Kept
<1>4. CASE ~Drops(groups[k], m)
  <2>0. KeepGroup(kept, groups[k], m) = Append(kept, last)
      BY <1>4 DEF KeepGroup, Drops
  <2> HIDE DEF last
  <2> DEFINE n == Len(kept)
             g == [i \in 1..(n + 1) |-> IF i <= n THEN f[i] ELSE k]
  <2>1. PICK t : t = Append(kept, last)
      OBVIOUS
  <2>a. Longer(kept, last, t)
      BY <1>2, <2>1, AppendAny, Zenon
  <2>2. /\ IsSequence(t) /\ n \in Nat /\ Len(t) = n + 1
        /\ \A i \in 1..n : t[i] = kept[i]
        /\ t[n + 1] = last
      BY <2>a DEF Longer
  <2> HIDE DEF n
  <2>3. f \in [1..n -> 1..(k - 1)]
      BY <1>1 DEF n
  <2>4. g \in [1..(n + 1) -> 1..k]
    <3> SUFFICES ASSUME NEW i \in 1..(n + 1) PROVE (IF i <= n THEN f[i] ELSE k) \in 1..k
        OBVIOUS
    <3>1. CASE i <= n
        BY <2>2, <2>3, <3>1
    <3>2. CASE ~(i <= n)
        BY <3>2
    <3> QED BY <3>1, <3>2
  <2>5. ASSUME NEW i \in 1..(n + 1), NEW j \in 1..(n + 1), i < j PROVE g[i] < g[j]
    <3>1. i \in 1..n /\ f[i] \in 1..(k - 1) /\ g[i] = f[i]
        BY <2>2, <2>3, <2>5
    <3>2. CASE j <= n
      <4>1. j \in 1..n /\ g[j] = f[j]
          BY <3>2
      <4>2. f[i] < f[j]
          BY <1>1, <2>5, <3>1, <4>1 DEF n
      <4> QED BY <3>1, <4>1, <4>2
    <3>3. CASE ~(j <= n)
        BY <3>1, <3>3
    <3> QED BY <3>2, <3>3
  <2>6. ASSUME NEW i \in 1..(n + 1)
        PROVE  t[i] = [groups[g[i]] EXCEPT !.markets = @ \ {m}]
    <3>1. CASE i <= n
      <4>1. i \in 1..n /\ g[i] = f[i]
          BY <2>2, <3>1
      <4> QED BY <1>1, <2>2, <4>1 DEF n
    <3>2. CASE ~(i <= n)
      <4>1. i = n + 1 /\ g[i] = k
          BY <2>2, <3>2
      <4> QED BY <2>2, <4>1 DEF last
    <3> QED BY <3>1, <3>2
  <2>7. n <= k - 1
    <3>1. CASE n = 0
        BY <3>1
    <3>2. CASE n # 0
      <4>1. n \in 1..n
          BY <2>2, <3>2
      <4>2. n <= f[n] /\ f[n] \in 1..(k - 1)
          BY <1>1, <2>3, <4>1 DEF n
      <4> QED BY <2>2, <4>2
    <3> QED BY <3>1, <3>2
  <2>8. ASSUME NEW i \in 1..(n + 1) PROVE i <= g[i]
    <3>1. CASE i <= n
      <4>1. i \in 1..n /\ g[i] = f[i]
          BY <2>2, <3>1
      <4> QED BY <1>1, <4>1 DEF n
    <3>2. CASE ~(i <= n)
      <4>1. i = n + 1 /\ g[i] = k
          BY <2>2, <3>2
      <4> QED BY <2>2, <2>7, <4>1
    <3> QED BY <3>1, <3>2
  <2>9. ASSUME NEW j \in 1..k, ~Drops(groups[j], m) PROVE \E i \in 1..(n + 1) : g[i] = j
    <3>1. CASE j = k
      <4>1. n + 1 \in 1..(n + 1) /\ g[n + 1] = k
          BY <2>2
      <4> QED BY <3>1, <4>1
    <3>2. CASE j \in 1..(k - 1)
      <4>1. PICK i \in 1..n : f[i] = j
          BY <1>1, <2>9, <3>2 DEF n
      <4>2. i \in 1..(n + 1) /\ g[i] = f[i]
          BY <2>2
      <4> QED BY <4>1, <4>2
    <3> QED BY <1>k, <3>1, <3>2
  <2>10. ASSUME NEW j \in 1..k, \A h \in 1..j : ~Drops(groups[h], m)
         PROVE  j \in 1..(n + 1) /\ g[j] = j
    <3>1. CASE j \in 1..(k - 1)
      <4>1. j \in 1..n /\ f[j] = j
          BY <1>1, <2>10, <3>1 DEF n
      <4> QED BY <2>2, <4>1
    <3>2. CASE j = k
      <4>1. CASE k = 1
        <5>1. n = 0
            BY <2>2, <2>7, <4>1
        <5> QED BY <3>2, <4>1, <5>1
      <4>2. CASE k # 1
        <5>1. k - 1 \in 1..(k - 1) /\ \A h \in 1..(k - 1) : h \in 1..j
            BY <3>2, <4>2
        <5>2. k - 1 \in 1..n
            BY <1>1, <2>10, <5>1 DEF n
        <5>3. n = k - 1
            BY <2>2, <2>7, <5>2
        <5> QED BY <3>2, <5>3
      <4> QED BY <4>1, <4>2
    <3> QED BY <1>k, <3>1, <3>2
  <2> HIDE DEF g
  <2>11. KeptBy(g, groups, m, k, t)
      BY <2>2, <2>4, <2>5, <2>6, <2>8, <2>9, <2>10 DEF KeptBy
  <2> QED BY <2>0, <2>1, <2>2, <2>11 DEF Kept
<1> QED
    BY <1>3, <1>4

LEMMA Shrunk ==
    ASSUME NEW groups, IsSequence(groups), NEW m
    PROVE  Kept(groups, m, Len(groups), Shrink(groups, m))
<1> DEFINE n == Len(groups)
<1>1. Shrink(groups, m) = Groups!Folded(m, <<>>, groups)
    BY DEF Shrink, FoldLeft, MapThenFoldSet, Groups!Folded, Groups!Iter, Groups!IsIter,
           Groups!Greatest, Max, Keeping
<1>2. n \in Nat /\ DOMAIN groups = 1..n
    BY SequenceIs
<1> HIDE DEF n
<1>3. PICK tr : Groups!Trace(tr, m, <<>>, groups, n)
    BY <1>2, Groups!FoldedTrace
<1>4. /\ tr[0] = <<>> /\ Shrink(groups, m) = tr[n]
      /\ \A k \in 1..n : tr[k] = KeepGroup(tr[k - 1], groups[k], m)
    BY <1>1, <1>3 DEF Groups!Trace, Keeping
<1> DEFINE good == {k \in 0..n : Kept(groups, m, k, tr[k])}
<1>5. 0 \in good
  <2>1. IsSequence(<<>>) /\ Len(<<>>) = 0
      BY EmptySequence
  <2>2. [i \in 1..0 |-> 0] \in [1..0 -> 1..0] /\ 1..0 = {}
      OBVIOUS
  <2>3. KeptBy([i \in 1..0 |-> 0], groups, m, 0, <<>>)
      BY <2>1, <2>2 DEF KeptBy
  <2> QED BY <1>2, <1>4, <2>1, <2>3 DEF Kept
<1>6. ASSUME NEW k \in 1..n, k - 1 \in good PROVE k \in good
  <2>1. k \in Nat /\ k # 0 /\ Kept(groups, m, k - 1, tr[k - 1])
      BY <1>6
  <2>2. Kept(groups, m, k, tr[k])
      BY <1>4, <2>1, KeptNext
  <2> QED BY <2>2
<1> HIDE DEF good
<1>7. n \in good
    BY <1>2, <1>5, <1>6, CountUp
<1> QED
    BY <1>4, <1>7 DEF good, n

-----------------------------------------------------------------------------
(* Well-formed states stay well-formed *)

LEMMA AccountsKept ==
    ASSUME NEW s, Shape(s), NEW t, NEW a \in Accounts(s), NEW F, Changes(s, t, a, F)
    PROVE  /\ IsSequence(t.accounts) /\ Len(t.accounts) = Len(s.accounts)
           /\ Accounts(t) = Accounts(s)
           /\ \A b \in Accounts(s) : b # a => t.accounts[b] = s.accounts[b]
<1>1. IsSequence(s.accounts) /\ a \in 1..Len(s.accounts)
    BY DEF Shape, Accounts
<1>2. /\ IsSequence(t.accounts) /\ Len(t.accounts) = Len(s.accounts)
      /\ \A j \in 1..Len(s.accounts) : j # a => t.accounts[j] = s.accounts[j]
  <2>1. t.accounts = [s.accounts EXCEPT ![a] = t.accounts[a]]
      BY DEF Changes
  <2>2. Replaced(s.accounts, a, t.accounts[a], t.accounts)
      BY <1>1, <2>1, ExceptAny
  <2> QED BY <2>2 DEF Replaced
<1> QED
    BY <1>2 DEF Accounts

(* A change to one account that leaves its API keys alone. *)
LEMMA AccountChanged ==
    ASSUME NEW s, Shape(s), NEW t, NEW a \in Accounts(s), NEW F, Changes(s, t, a, F),
           t.accounts[a].chain \in Nat, t.accounts[a].last_nonce \in Nat,
           t.accounts[a].api_keys = s.accounts[a].api_keys
    PROVE  \A b \in Accounts(s) : AccountOK(t.accounts[b])
<1>1. AccountOK(s.accounts[a]) /\ \A b \in Accounts(s) : AccountOK(s.accounts[b])
    BY DEF Shape
<1>2. AccountOK(t.accounts[a])
    BY <1>1 DEF AccountOK, Changes, AccountFields
<1> QED
    BY <1>1, <1>2, AccountsKept

LEMMA ShapeKept ==
    ASSUME NEW s, Shape(s), NEW row, RowOK(row), NEW t, Effect(s, row, t)
    PROVE  Shape(t)
<1> DEFINE c == row.command
<1> HIDE DEF c
<1>0. /\ DOMAIN EmptyState = Fields
      /\ IsSequence(s.markets) /\ IsSequence(s.groups) /\ IsSequence(s.feeds)
      /\ IsSequence(s.accounts)
      /\ \A g \in 1..Len(s.groups) : GroupOK(s.groups[g])
      /\ \A a \in Accounts(s) : AccountOK(s.accounts[a])
      /\ \A k \in s.keys : k.account \in Accounts(s)
    BY DEF Shape, EmptyState, Fields, GroupIds
<1>1. CASE MakesMarket(s, c, t)
  <2>1. PICK e : t.markets = Append(s.markets, e)
      BY <1>1 DEF MakesMarket
  <2>3. Longer(s.markets, e, t.markets)
      BY <1>0, <2>1, AppendAny
  <2>2. IsSequence(t.markets)
      BY <2>3 DEF Longer
  <2> QED BY <1>0, <1>1, <2>2 DEF MakesMarket, Shape, Keeps, Fields, GroupIds, Accounts
<1>2. CASE MakesGroup(s, c, t)
  <2>1. PICK e : e = [name |-> c.name, key |-> c.key, markets |-> c.markets]
      OBVIOUS
  <2>2. Longer(s.groups, e, t.groups)
    <3>1. t.groups = Append(s.groups, e)
        BY <1>2, <2>1 DEF MakesGroup
    <3> QED BY <1>0, <3>1, AppendAny
  <2>5. GroupOK(e)
    <3>1. c \in Commands /\ c.op = "create_group"
        BY <1>2 DEF MakesGroup, RowOK, c
    <3>2. IsFiniteSet(c.markets)
        BY <3>1, MenusAssumption
    <3> QED BY <2>1, <3>2 DEF GroupOK
  <2>3. \A g \in 1..Len(t.groups) : GroupOK(t.groups[g])
    <3> TAKE g \in 1..Len(t.groups)
    <3>1. g \in 1..Len(s.groups) \/ g = Len(s.groups) + 1
        BY <2>2 DEF Longer
    <3>2. CASE g \in 1..Len(s.groups)
        BY <1>0, <2>2, <3>2 DEF Longer
    <3>3. CASE g = Len(s.groups) + 1
        BY <2>2, <2>5, <3>3 DEF Longer
    <3> QED BY <3>1, <3>2, <3>3
  <2>4. IsSequence(t.groups)
      BY <2>2 DEF Longer
  <2> QED BY <1>0, <1>2, <2>3, <2>4 DEF MakesGroup, Shape, Keeps, Fields, GroupIds, Accounts
<1>3. CASE Extends(s, c, t)
  <2>1. PICK e : e = [s.groups[c.group] EXCEPT !.markets = @ \cup {c.market}]
      OBVIOUS
  <2>2. c.group \in 1..Len(s.groups)
      BY <1>3 DEF Extends, CanExtend, GroupIds
  <2>3. t.groups = [s.groups EXCEPT ![c.group] = e]
      BY <1>3, <2>1 DEF Extends
  <2>4. /\ IsSequence(t.groups) /\ Len(t.groups) = Len(s.groups)
        /\ t.groups[c.group] = e
        /\ \A j \in 1..Len(s.groups) : j # c.group => t.groups[j] = s.groups[j]
    <3>1. Replaced(s.groups, c.group, e, t.groups)
        BY <1>0, <2>2, <2>3, ExceptAny
    <3> QED BY <3>1 DEF Replaced
  <2>5. GroupOK(e)
    <3>1. GroupOK(s.groups[c.group])
        BY <1>0, <2>2
    <3>2. DOMAIN e = {"name", "key", "markets"} /\ e.markets = s.groups[c.group].markets \cup {c.market}
        BY <2>1, <3>1 DEF GroupOK
    <3>3. IsFiniteSet(s.groups[c.group].markets \cup {c.market})
        BY <3>1, FS_AddElement DEF GroupOK
    <3> QED BY <3>2, <3>3 DEF GroupOK
  <2>6. \A g \in 1..Len(t.groups) : GroupOK(t.groups[g])
      BY <1>0, <2>4, <2>5
  <2> QED BY <1>0, <1>3, <2>4, <2>6 DEF Extends, Shape, Keeps, Fields, GroupIds, Accounts
<1>4. CASE Settles(s, c, t)
  <2>1. Kept(s.groups, c.market, Len(s.groups), t.groups)
      BY <1>0, <1>4, Shrunk DEF Settles
  <2>2. PICK f : KeptBy(f, s.groups, c.market, Len(s.groups), t.groups)
      BY <2>1 DEF Kept
  <2>3. ASSUME NEW g \in 1..Len(t.groups)
        PROVE  GroupOK(t.groups[g])
    <3>1. f[g] \in 1..Len(s.groups) /\ t.groups[g] = [s.groups[f[g]] EXCEPT !.markets = @ \ {c.market}]
        BY <2>2 DEF KeptBy
    <3>2. GroupOK(s.groups[f[g]])
        BY <1>0, <3>1
    <3>3. /\ DOMAIN t.groups[g] = {"name", "key", "markets"}
          /\ t.groups[g].markets = s.groups[f[g]].markets \ {c.market}
        BY <3>1, <3>2 DEF GroupOK
    <3>4. IsFiniteSet(s.groups[f[g]].markets \ {c.market})
        BY <3>2, FS_Subset DEF GroupOK
    <3> QED BY <3>3, <3>4 DEF GroupOK
  <2>4. IsSequence(t.groups)
      BY <2>1 DEF Kept
  <2> QED BY <1>0, <1>4, <2>3, <2>4 DEF Settles, Shape, Keeps, Fields, GroupIds, Accounts
<1>5. CASE AddsFeed(s, c, t)
  <2>2. Longer(s.feeds, c.pubkey, t.feeds)
      BY <1>0, <1>5, AppendAny DEF AddsFeed
  <2>1. IsSequence(t.feeds)
      BY <2>2 DEF Longer
  <2> QED BY <1>0, <1>5, <2>1 DEF AddsFeed, Shape, Keeps, Fields, GroupIds, Accounts
<1>6. CASE Installs(s, c, t)
    BY <1>0, <1>6 DEF Installs, Shape, Keeps, Fields, GroupIds, Accounts
<1>7. CASE Opens(s, row, t)
  <2>1. Longer(s.accounts, Fresh, t.accounts)
      BY <1>0, <1>7, AppendAny DEF Opens
  <2>2. AccountOK(Fresh)
    <3>1. IsSequence(<<>>) /\ Len(<<>>) = 0 /\ 1..0 = {}
        BY EmptySequence
    <3> QED BY <3>1 DEF AccountOK, Fresh
  <2>3. \A a \in Accounts(t) : a \in Accounts(s) \/ a = Len(s.accounts) + 1
      BY <2>1 DEF Longer, Accounts
  <2>4. \A a \in Accounts(t) : AccountOK(t.accounts[a])
    <3> TAKE a \in Accounts(t)
    <3>1. CASE a \in Accounts(s)
        BY <1>0, <2>1, <3>1 DEF Longer, Accounts
    <3>2. CASE a = Len(s.accounts) + 1
        BY <2>1, <2>2, <3>2 DEF Longer
    <3> QED BY <2>3, <3>1, <3>2
  <2>5. Accounts(s) \subseteq Accounts(t) /\ Len(s.accounts) + 1 \in Accounts(t)
      BY <2>1 DEF Longer, Accounts
  <2>6. \A k \in t.keys : k.account \in Accounts(t)
    <3> TAKE k \in t.keys
    <3>1. k \in s.keys \/ k = [key |-> FirstKey(c), account |-> Len(s.accounts) + 1]
        BY <1>7 DEF Opens, c
    <3> QED BY <1>0, <2>5, <3>1
  <2>7. IsSequence(t.accounts)
      BY <2>1 DEF Longer
  <2> QED BY <1>0, <1>7, <2>4, <2>6, <2>7 DEF Opens, Shape, Keeps, Fields, GroupIds
<1>8. ASSUME NEW a \in Accounts(s), NEW F, F \subseteq {"last_nonce", "balance", "profile"},
             Changes(s, t, a, F), Keeps(s, t, {"accounts", "events", "bundles", "next_order_id",
                                              "mm_receipts"}),
             t.accounts[a].last_nonce \in Nat
      PROVE  Shape(t)
  <2>1. t.accounts[a].chain = s.accounts[a].chain /\ t.accounts[a].api_keys = s.accounts[a].api_keys
      BY <1>8 DEF Changes, AccountFields
  <2>2. t.accounts[a].chain \in Nat
      BY <1>0, <2>1 DEF AccountOK
  <2>3. \A b \in Accounts(s) : AccountOK(t.accounts[b])
      BY <1>8, <2>1, <2>2, AccountChanged
  <2>4. IsSequence(t.accounts) /\ Accounts(t) = Accounts(s)
      BY <1>8, AccountsKept
  <2> QED BY <1>0, <1>8, <2>3, <2>4 DEF Shape, Keeps, Fields, GroupIds
<1>9. CASE Advances(s, c, t)
  <2>1. c.account \in Accounts(s)
      BY <1>9 DEF Advances, FreshNonce
  <2>2. Keeps(s, t, {"accounts", "events", "bundles", "next_order_id", "mm_receipts"})
      BY <1>9 DEF Advances, Keeps
  <2>3. Changes(s, t, c.account, {"last_nonce"})
      BY <1>9 DEF Advances
  <2>4. t.accounts[c.account].last_nonce \in Nat
      BY <1>9 DEF Advances, RowOK, NonceOps, c
  <2> QED BY <1>8, <2>1, <2>2, <2>3, <2>4
<1>10. CASE Renames(s, c, t)
  <2>1. c.account \in Accounts(s)
      BY <1>10 DEF Renames
  <2>2. Keeps(s, t, {"accounts", "events", "bundles", "next_order_id", "mm_receipts"})
      BY <1>10 DEF Renames, Keeps
  <2>3. Changes(s, t, c.account, {"profile"})
      BY <1>10 DEF Renames
  <2>4. t.accounts[c.account].last_nonce \in Nat
    <3>1. s.accounts[c.account].last_nonce \in Nat
        BY <1>0, <2>1 DEF AccountOK
    <3> QED BY <2>3, <3>1 DEF Changes, AccountFields
  <2> QED BY <1>8, <2>1, <2>2, <2>3, <2>4
<1>11. CASE Funds(s, c, t)
  <2>1. c.account \in Accounts(s)
      BY <1>11 DEF Funds
  <2>2. Keeps(s, t, {"accounts", "events", "bundles", "next_order_id", "mm_receipts"})
      BY <1>11 DEF Funds, Keeps
  <2>3. Changes(s, t, c.account, {"balance"})
      BY <1>11 DEF Funds
  <2>4. t.accounts[c.account].last_nonce \in Nat
    <3>1. s.accounts[c.account].last_nonce \in Nat
        BY <1>0, <2>1 DEF AccountOK
    <3> QED BY <2>3, <3>1 DEF Changes, AccountFields
  <2> QED BY <1>8, <2>1, <2>2, <2>3, <2>4
<1>12. CASE Quotes(s, row, t)
  <2>1. c.account \in Accounts(s)
      BY <1>12 DEF Quotes, FreshNonce, c
  <2>2. Keeps(s, t, {"accounts", "events", "bundles", "next_order_id", "mm_receipts"})
      BY <1>12 DEF Quotes, Keeps
  <2>3. Changes(s, t, c.account, {"last_nonce"})
      BY <1>12 DEF Quotes, c
  <2>4. t.accounts[c.account].last_nonce \in Nat
      BY <1>12 DEF Quotes, RowOK, NonceOps, c
  <2> QED BY <1>8, <2>1, <2>2, <2>3, <2>4
<1>13. ASSUME NEW a \in Accounts(s), Changes(s, t, a, {"api_keys"}),
              Keeps(s, t, {"accounts", "index"}),
              IsSequence(t.accounts[a].api_keys),
              \A i \in 1..Len(t.accounts[a].api_keys) :
                 DOMAIN t.accounts[a].api_keys[i] = {"hash", "active"}
       PROVE  Shape(t)
  <2>1. AccountOK(t.accounts[a])
      BY <1>0, <1>13 DEF AccountOK, Changes, AccountFields
  <2>2. /\ IsSequence(t.accounts) /\ Accounts(t) = Accounts(s)
        /\ \A b \in Accounts(s) : b # a => t.accounts[b] = s.accounts[b]
      BY <1>13, AccountsKept
  <2>3. \A b \in Accounts(s) : AccountOK(t.accounts[b])
      BY <1>0, <2>1, <2>2
  <2> QED BY <1>0, <1>13, <2>2, <2>3 DEF Shape, Keeps, Fields, GroupIds
<1>14. CASE MakesApiKey(s, c, t)
  <2>1. c.account \in Accounts(s)
      BY <1>14 DEF MakesApiKey, CanCreateApiKey
  <2>2. PICK e : e = [hash |-> c.hash, active |-> TRUE]
      OBVIOUS
  <2>3. PICK old : old = s.accounts[c.account].api_keys
      OBVIOUS
  <2>4. PICK new : new = t.accounts[c.account].api_keys
      OBVIOUS
  <2>5. IsSequence(old) /\ \A i \in 1..Len(old) : DOMAIN old[i] = {"hash", "active"}
      BY <1>0, <2>1, <2>3 DEF AccountOK
  <2>6. new = Append(old, e)
      BY <1>14, <2>2, <2>3, <2>4 DEF MakesApiKey
  <2>7. Longer(old, e, new)
      BY <2>5, <2>6, AppendAny
  <2>8. \A i \in 1..Len(new) : DOMAIN new[i] = {"hash", "active"}
    <3> TAKE i \in 1..Len(new)
    <3>1. i \in 1..Len(old) \/ i = Len(old) + 1
        BY <2>7 DEF Longer
    <3>2. CASE i \in 1..Len(old)
        BY <2>5, <2>7, <3>2 DEF Longer
    <3>3. CASE i = Len(old) + 1
        BY <2>2, <2>7, <3>3 DEF Longer
    <3> QED BY <3>1, <3>2, <3>3
  <2>9. IsSequence(new)
      BY <2>7 DEF Longer
  <2>10. Changes(s, t, c.account, {"api_keys"}) /\ Keeps(s, t, {"accounts", "index"})
      BY <1>14 DEF MakesApiKey
  <2> QED BY <1>13, <2>1, <2>4, <2>8, <2>9, <2>10
<1>15. CASE RevokesApiKey(s, c, t)
  <2>1. c.account \in Accounts(s) /\ c.id \in DOMAIN s.accounts[c.account].api_keys
      BY <1>15 DEF RevokesApiKey, CanRevokeApiKey
  <2>2. PICK old : old = s.accounts[c.account].api_keys
      OBVIOUS
  <2>3. PICK new : new = t.accounts[c.account].api_keys
      OBVIOUS
  <2>4. PICK e : e = [old[c.id] EXCEPT !.active = FALSE]
      OBVIOUS
  <2>5. IsSequence(old) /\ \A i \in 1..Len(old) : DOMAIN old[i] = {"hash", "active"}
      BY <1>0, <2>1, <2>2 DEF AccountOK
  <2>6. c.id \in 1..Len(old)
      BY <2>1, <2>2, <2>5, SequenceIs
  <2>7. new = [old EXCEPT ![c.id] = e]
      BY <1>15, <2>2, <2>3, <2>4 DEF RevokesApiKey
  <2>8. /\ IsSequence(new) /\ Len(new) = Len(old)
        /\ new[c.id] = e /\ \A j \in 1..Len(old) : j # c.id => new[j] = old[j]
    <3>1. Replaced(old, c.id, e, new)
        BY <2>5, <2>6, <2>7, ExceptAny
    <3> QED BY <3>1 DEF Replaced
  <2>9. DOMAIN e = {"hash", "active"}
      BY <2>4, <2>5, <2>6
  <2>10. \A i \in 1..Len(new) : DOMAIN new[i] = {"hash", "active"}
      BY <2>5, <2>8, <2>9
  <2>11. Changes(s, t, c.account, {"api_keys"}) /\ Keeps(s, t, {"accounts", "index"})
      BY <1>15 DEF RevokesApiKey
  <2> QED BY <1>13, <2>1, <2>3, <2>8, <2>10, <2>11
<1>16. CASE AddsFirstKey(s, c, t)
  <2>1. c.account \in Accounts(s)
      BY <1>16 DEF AddsFirstKey, CanRegisterFirst, CanRegister
  <2>2. \A k \in t.keys : k.account \in Accounts(s)
      BY <1>0, <1>16, <2>1 DEF AddsFirstKey
  <2> QED BY <1>0, <1>16, <2>2 DEF AddsFirstKey, Shape, Keeps, Fields, GroupIds, Accounts
<1>17. CASE OperatesKey(s, c, t)
  <2>1. c.account \in Accounts(s) /\ Changes(s, t, c.account, {"chain"})
      BY <1>17 DEF OperatesKey
  <2>2. /\ t.accounts[c.account].api_keys = s.accounts[c.account].api_keys
        /\ t.accounts[c.account].chain \in Nat /\ t.accounts[c.account].last_nonce \in Nat
    <3>1. s.accounts[c.account].chain \in Nat /\ s.accounts[c.account].last_nonce \in Nat
        BY <1>0, <2>1 DEF AccountOK
    <3>2. t.accounts[c.account].chain = s.accounts[c.account].chain + 1
        BY <1>17 DEF OperatesKey
    <3>3. /\ t.accounts[c.account].api_keys = s.accounts[c.account].api_keys
          /\ t.accounts[c.account].last_nonce = s.accounts[c.account].last_nonce
        BY <2>1 DEF Changes, AccountFields
    <3> QED BY <3>1, <3>2, <3>3
  <2>3. \A b \in Accounts(s) : AccountOK(t.accounts[b])
      BY <2>1, <2>2, AccountChanged
  <2>4. IsSequence(t.accounts) /\ Accounts(t) = Accounts(s)
      BY <2>1, AccountsKept
  <2>5. \A k \in t.keys : k.account \in Accounts(s)
      BY <1>0, <1>17, <2>1 DEF OperatesKey
  <2> QED BY <1>0, <1>17, <2>3, <2>4, <2>5 DEF OperatesKey, Shape, Keeps, Fields, GroupIds
<1> QED
    BY <1>1, <1>2, <1>3, <1>4, <1>5, <1>6, <1>7, <1>9, <1>10, <1>11, <1>12, <1>14, <1>15,
       <1>16, <1>17 DEF Effect, c

-----------------------------------------------------------------------------
(* Groups *)

LEMMA GroupsKept ==
    ASSUME NEW s, Shape(s), GroupsOK(s), NEW row, NEW t, Effect(s, row, t)
    PROVE  GroupsOK(t)
<1> DEFINE c == row.command
<1> HIDE DEF c
<1>0. /\ IsSequence(s.groups)
      /\ \A g \in 1..Len(s.groups) : DOMAIN s.groups[g] = {"name", "key", "markets"}
      /\ \A g \in 1..Len(s.groups) : \A m \in s.groups[g].markets : m \notin Resolved(s)
      /\ \A g, h \in 1..Len(s.groups) : \A m \in s.groups[g].markets :
            m \in s.groups[h].markets => g = h
    BY DEF Shape, GroupOK, GroupsOK, GroupIds
<1>g. ASSUME \A g \in 1..Len(t.groups) : \A m \in t.groups[g].markets : m \notin Resolved(t),
             \A g, h \in 1..Len(t.groups) : \A m \in t.groups[g].markets :
                m \in t.groups[h].markets => g = h
      PROVE  GroupsOK(t)
    BY <1>g DEF GroupsOK, GroupIds
<1>1. CASE t.groups = s.groups /\ t.payouts = s.payouts
  <2>1. Resolved(t) = Resolved(s)
      BY <1>1 DEF Resolved
  <2> QED BY <1>0, <1>1, <1>g, <2>1
<1>2. CASE MakesGroup(s, c, t)
  <2>1. PICK e : e = [name |-> c.name, key |-> c.key, markets |-> c.markets]
      OBVIOUS
  <2>2. Longer(s.groups, e, t.groups)
    <3>1. t.groups = Append(s.groups, e)
        BY <1>2, <2>1 DEF MakesGroup
    <3> QED BY <1>0, <3>1, AppendAny
  <2>3. Resolved(t) = Resolved(s)
      BY <1>2 DEF MakesGroup, Keeps, Fields, Resolved
  <2>4. \A m \in c.markets : m \notin Resolved(s) /\ \A g \in 1..Len(s.groups) : m \notin s.groups[g].markets
      BY <1>2 DEF MakesGroup, CanCreateGroup, Tradeable, GroupsWith, GroupIds
  <2>5. \A g \in 1..Len(t.groups) : \/ g \in 1..Len(s.groups) /\ t.groups[g] = s.groups[g]
                                    \/ g = Len(s.groups) + 1 /\ t.groups[g].markets = c.markets
      BY <2>1, <2>2 DEF Longer
  <2>6. \A g \in 1..Len(t.groups) : \A m \in t.groups[g].markets : m \notin Resolved(t)
      BY <1>0, <2>3, <2>4, <2>5
  <2>7. ASSUME NEW g \in 1..Len(t.groups), NEW h \in 1..Len(t.groups),
               NEW m \in t.groups[g].markets, m \in t.groups[h].markets
        PROVE  g = h
    <3>1. CASE g \in 1..Len(s.groups) /\ t.groups[g] = s.groups[g]
        BY <1>0, <2>4, <2>5, <2>7, <3>1
    <3>2. CASE g = Len(s.groups) + 1 /\ t.groups[g].markets = c.markets
        BY <2>4, <2>5, <2>7, <3>2
    <3> QED BY <2>5, <3>1, <3>2
  <2> QED BY <1>g, <2>6, <2>7
<1>3. CASE Extends(s, c, t)
  <2>1. PICK e : e = [s.groups[c.group] EXCEPT !.markets = @ \cup {c.market}]
      OBVIOUS
  <2>2. /\ c.group \in 1..Len(s.groups) /\ c.market \notin Resolved(s)
        /\ \A g \in 1..Len(s.groups) : c.market \in s.groups[g].markets => g = c.group
      BY <1>3 DEF Extends, CanExtend, Tradeable, GroupsWith, GroupIds
  <2>3. t.groups = [s.groups EXCEPT ![c.group] = e]
      BY <1>3, <2>1 DEF Extends
  <2>4. Replaced(s.groups, c.group, e, t.groups)
      BY <1>0, <2>2, <2>3, ExceptAny
  <2>5. e.markets = s.groups[c.group].markets \cup {c.market}
      BY <1>0, <2>1, <2>2
  <2>6. Resolved(t) = Resolved(s)
      BY <1>3 DEF Extends, Keeps, Fields, Resolved
  <2>7. \A g \in 1..Len(t.groups) : /\ g \in 1..Len(s.groups)
                                    /\ \A m \in t.groups[g].markets :
                                          \/ m \in s.groups[g].markets
                                          \/ m = c.market /\ g = c.group
      BY <2>4, <2>5 DEF Replaced
  <2>8. \A g \in 1..Len(t.groups) : \A m \in t.groups[g].markets : m \notin Resolved(t)
      BY <1>0, <2>2, <2>6, <2>7
  <2>9. ASSUME NEW g \in 1..Len(t.groups), NEW h \in 1..Len(t.groups),
               NEW m \in t.groups[g].markets, m \in t.groups[h].markets
        PROVE  g = h
      BY <1>0, <2>2, <2>7, <2>9
  <2> QED BY <1>g, <2>8, <2>9
<1>4. CASE Settles(s, c, t)
  <2>1. Kept(s.groups, c.market, Len(s.groups), t.groups)
      BY <1>0, <1>4, Shrunk DEF Settles
  <2>2. PICK f : KeptBy(f, s.groups, c.market, Len(s.groups), t.groups)
      BY <2>1 DEF Kept
  <2>3. ASSUME NEW g \in 1..Len(t.groups)
        PROVE  /\ f[g] \in 1..Len(s.groups)
               /\ t.groups[g].markets = s.groups[f[g]].markets \ {c.market}
    <3>1. f[g] \in 1..Len(s.groups) /\ t.groups[g] = [s.groups[f[g]] EXCEPT !.markets = @ \ {c.market}]
        BY <2>2 DEF KeptBy
    <3> QED BY <1>0, <3>1
  <2>4. ASSUME NEW g \in 1..Len(t.groups), NEW h \in 1..Len(t.groups), f[g] = f[h] PROVE g = h
    <3>1. ~(g < h) /\ ~(h < g)
      <4>1. \A i, j \in 1..Len(t.groups) : i < j => f[i] < f[j]
          BY <2>2 DEF KeptBy
      <4>2. f[g] \in 1..Len(s.groups) /\ f[h] \in 1..Len(s.groups)
          BY <2>3
      <4> QED BY <2>4, <4>1, <4>2
    <3> QED BY <3>1
  <2>5. \A m \in Resolved(t) : m \in Resolved(s) \/ m = c.market
      BY <1>4 DEF Settles, Resolved
  <2>6. \A g \in 1..Len(t.groups) : \A m \in t.groups[g].markets : m \notin Resolved(t)
      BY <1>0, <2>3, <2>5
  <2>7. ASSUME NEW g \in 1..Len(t.groups), NEW h \in 1..Len(t.groups),
               NEW m \in t.groups[g].markets, m \in t.groups[h].markets
        PROVE  g = h
    <3>1. f[g] = f[h]
        BY <1>0, <2>3, <2>7
    <3> QED BY <2>4, <3>1
  <2> QED BY <1>g, <2>6, <2>7
<1>5. CASE ~(MakesGroup(s, c, t) \/ Extends(s, c, t) \/ Settles(s, c, t))
  <2>1. t.groups = s.groups /\ t.payouts = s.payouts
      BY <1>5 DEF Effect, MakesMarket, AddsFeed, Installs, Opens, Advances, Renames, Funds,
             MakesApiKey, RevokesApiKey, AddsFirstKey, OperatesKey, Quotes, Keeps, Fields, c
  <2> QED BY <1>1, <2>1
<1> QED
    BY <1>2, <1>3, <1>4, <1>5

(* Seed markets and sealing change neither groups nor payouts. *)
LEMMA GroupsSame ==
    ASSUME NEW s, GroupsOK(s), NEW t, t.groups = s.groups, t.payouts = s.payouts
    PROVE  GroupsOK(t)
BY DEF GroupsOK, GroupIds, Resolved

-----------------------------------------------------------------------------
(* API keys *)

(* An account has the API keys in s and in t. *)
SameApiKeys(s, t, a) == t.accounts[a].api_keys = s.accounts[a].api_keys

(* What a row does to API keys: nothing, a new account without keys, a new
   key, or the end of one. *)
KeysUntouched(s, t) ==
    /\ Accounts(t) = Accounts(s) /\ t.index = s.index
    /\ \A a \in Accounts(s) : SameApiKeys(s, t, a)

AccountJoins(s, t) ==
    /\ Len(s.accounts) \in Nat /\ Len(t.accounts) = Len(s.accounts) + 1 /\ t.index = s.index
    /\ t.accounts[Len(s.accounts) + 1].api_keys = <<>>
    /\ \A a \in Accounts(s) : SameApiKeys(s, t, a)

KeyJoins(s, c, t) ==
    /\ CanCreateApiKey(s, c) /\ Accounts(t) = Accounts(s)
    /\ \A a \in Accounts(s) : a # c.account => SameApiKeys(s, t, a)
    /\ Longer(s.accounts[c.account].api_keys, [hash |-> c.hash, active |-> TRUE],
              t.accounts[c.account].api_keys)
    /\ t.index = s.index \cup {[hash |-> c.hash, account |-> c.account]}

KeyEnds(s, c, t) ==
    /\ c.account \in Accounts(s) /\ c.id \in 1..Len(s.accounts[c.account].api_keys)
    /\ Accounts(t) = Accounts(s)
    /\ \A a \in Accounts(s) : a # c.account => SameApiKeys(s, t, a)
    /\ Replaced(s.accounts[c.account].api_keys, c.id,
                [hash |-> s.accounts[c.account].api_keys[c.id].hash, active |-> FALSE],
                t.accounts[c.account].api_keys)
    /\ t.index = {k \in s.index : k.hash # s.accounts[c.account].api_keys[c.id].hash}

LEMMA ApiKeysStep ==
    ASSUME NEW s, Shape(s), NEW row, NEW t, Effect(s, row, t)
    PROVE  \/ KeysUntouched(s, t) \/ AccountJoins(s, t)
           \/ row.command.op = "api_create" /\ KeyJoins(s, row.command, t)
           \/ row.command.op = "api_revoke" /\ KeyEnds(s, row.command, t)
<1> DEFINE c == row.command
<1> HIDE DEF c
<1>0. IsSequence(s.accounts) /\ \A a \in Accounts(s) : AccountOK(s.accounts[a])
    BY DEF Shape
<1>1. CASE Opens(s, row, t)
  <2>1. Longer(s.accounts, Fresh, t.accounts)
      BY <1>0, <1>1, AppendAny DEF Opens
  <2>2. t.index = s.index
      BY <1>1 DEF Opens, Keeps, Fields
  <2>3. Fresh.api_keys = <<>>
      BY DEF Fresh
  <2>4. AccountJoins(s, t)
      BY <2>1, <2>2, <2>3 DEF AccountJoins, Longer, Accounts, SameApiKeys
  <2> QED BY <2>4
<1>2. CASE MakesApiKey(s, c, t)
  <2>1. c.account \in Accounts(s) /\ CanCreateApiKey(s, c)
      BY <1>2 DEF MakesApiKey, CanCreateApiKey
  <2>2. Changes(s, t, c.account, {"api_keys"})
      BY <1>2 DEF MakesApiKey
  <2>3. Accounts(t) = Accounts(s) /\ \A b \in Accounts(s) : b # c.account => SameApiKeys(s, t, b)
      BY <2>1, <2>2, AccountsKept DEF SameApiKeys
  <2>4. PICK e : e = [hash |-> c.hash, active |-> TRUE]
      OBVIOUS
  <2>5. /\ t.accounts[c.account].api_keys = Append(s.accounts[c.account].api_keys, e)
        /\ t.index = s.index \cup {[hash |-> c.hash, account |-> c.account]}
      BY <1>2, <2>4 DEF MakesApiKey
  <2>6. IsSequence(s.accounts[c.account].api_keys)
      BY <1>0, <2>1 DEF AccountOK
  <2>7. Longer(s.accounts[c.account].api_keys, e, t.accounts[c.account].api_keys)
      BY <2>5, <2>6, AppendAny
  <2>8. KeyJoins(s, c, t)
      BY <2>1, <2>3, <2>4, <2>5, <2>7 DEF KeyJoins
  <2> QED BY <1>2, <2>8 DEF MakesApiKey, c
<1>3. CASE RevokesApiKey(s, c, t)
  <2>1. c.account \in Accounts(s) /\ c.id \in DOMAIN s.accounts[c.account].api_keys
      BY <1>3 DEF RevokesApiKey, CanRevokeApiKey
  <2>2. PICK old : old = s.accounts[c.account].api_keys
      OBVIOUS
  <2>3. IsSequence(old) /\ c.id \in 1..Len(old) /\ DOMAIN old[c.id] = {"hash", "active"}
      BY <1>0, <2>1, <2>2, SequenceIs DEF AccountOK
  <2>4. Changes(s, t, c.account, {"api_keys"})
      BY <1>3 DEF RevokesApiKey
  <2>5. Accounts(t) = Accounts(s) /\ \A b \in Accounts(s) : b # c.account => SameApiKeys(s, t, b)
      BY <2>1, <2>4, AccountsKept DEF SameApiKeys
  <2>6. PICK e : e = [hash |-> old[c.id].hash, active |-> FALSE]
      OBVIOUS
  <2>7. e = [old[c.id] EXCEPT !.active = FALSE]
    <3>1. PICK x : x = [old[c.id] EXCEPT !.active = FALSE]
        OBVIOUS
    <3>2. /\ x = [f \in {"hash", "active"} |-> x[f]]
          /\ x["hash"] = old[c.id].hash /\ x["active"] = FALSE
        BY <2>3, <3>1
    <3>3. e = [f \in {"hash", "active"} |-> x[f]]
        BY <2>6, <3>2
    <3> QED BY <3>1, <3>2, <3>3
  <2>8. /\ t.accounts[c.account].api_keys = [old EXCEPT ![c.id] = e]
        /\ t.index = {k \in s.index : k.hash # old[c.id].hash}
      BY <1>3, <2>2, <2>7 DEF RevokesApiKey
  <2>9. Replaced(old, c.id, e, t.accounts[c.account].api_keys)
      BY <2>3, <2>8, ExceptAny
  <2>10. KeyEnds(s, c, t)
      BY <2>1, <2>2, <2>3, <2>5, <2>6, <2>8, <2>9 DEF KeyEnds
  <2> QED BY <1>3, <2>10 DEF RevokesApiKey, c
<1>4. ASSUME NEW a \in Accounts(s), NEW F, "api_keys" \notin F, Changes(s, t, a, F),
             t.index = s.index
      PROVE  KeysUntouched(s, t)
  <2>1. SameApiKeys(s, t, a)
      BY <1>4 DEF Changes, AccountFields, SameApiKeys
  <2>2. Accounts(t) = Accounts(s) /\ \A b \in Accounts(s) : b # a => SameApiKeys(s, t, b)
      BY <1>4, AccountsKept DEF SameApiKeys
  <2> QED BY <1>4, <2>1, <2>2 DEF KeysUntouched
<1>5. CASE Advances(s, c, t)
  <2>1. c.account \in Accounts(s) /\ Changes(s, t, c.account, {"last_nonce"}) /\ t.index = s.index
      BY <1>5 DEF Advances, FreshNonce, Keeps, Fields
  <2> QED BY <1>4, <2>1
<1>6. CASE Renames(s, c, t)
  <2>1. c.account \in Accounts(s) /\ Changes(s, t, c.account, {"profile"}) /\ t.index = s.index
      BY <1>6 DEF Renames, Keeps, Fields
  <2> QED BY <1>4, <2>1
<1>7. CASE Funds(s, c, t)
  <2>1. c.account \in Accounts(s) /\ Changes(s, t, c.account, {"balance"}) /\ t.index = s.index
      BY <1>7 DEF Funds, Keeps, Fields
  <2> QED BY <1>4, <2>1
<1>8. CASE OperatesKey(s, c, t)
  <2>1. c.account \in Accounts(s) /\ Changes(s, t, c.account, {"chain"}) /\ t.index = s.index
      BY <1>8 DEF OperatesKey, Keeps, Fields
  <2> QED BY <1>4, <2>1
<1>9. CASE Quotes(s, row, t)
  <2>1. /\ c.account \in Accounts(s) /\ Changes(s, t, c.account, {"last_nonce"})
        /\ t.index = s.index
      BY <1>9 DEF Quotes, FreshNonce, Keeps, Fields, c
  <2> QED BY <1>4, <2>1
<1>10. CASE t.accounts = s.accounts /\ t.index = s.index
    BY <1>10 DEF KeysUntouched, Accounts, SameApiKeys
<1>11. CASE \/ t = s \/ MakesMarket(s, c, t) \/ MakesGroup(s, c, t) \/ Extends(s, c, t)
            \/ Settles(s, c, t) \/ AddsFeed(s, c, t) \/ Installs(s, c, t) \/ AddsFirstKey(s, c, t)
  <2>1. t.accounts = s.accounts /\ t.index = s.index
      BY <1>11 DEF MakesMarket, MakesGroup, Extends, Settles, AddsFeed, Installs, AddsFirstKey,
             Keeps, Fields
  <2> QED BY <1>10, <2>1
<1> QED
    BY <1>1, <1>2, <1>3, <1>5, <1>6, <1>7, <1>8, <1>9, <1>11 DEF Effect, c

LEMMA ActiveIs ==
    ASSUME NEW st, Shape(st), NEW k
    PROVE  k \in ActiveApiKeys(st) <=>
             \E a \in Accounts(st) : \E i \in 1..Len(st.accounts[a].api_keys) :
                /\ st.accounts[a].api_keys[i].active
                /\ k = [hash |-> st.accounts[a].api_keys[i].hash, account |-> a]
<1>1. \A a \in Accounts(st) : DOMAIN st.accounts[a].api_keys = 1..Len(st.accounts[a].api_keys)
    BY AccountShape
<1> QED
    BY <1>1 DEF ActiveApiKeys

(* The hash of a new key is new. *)
LEMMA HashIsNew ==
    ASSUME NEW s, Shape(s), HashesOwned(s), NEW c \in Commands, c.op = "api_create",
           CanCreateApiKey(s, c), NEW a \in Accounts(s), NEW i \in 1..Len(s.accounts[a].api_keys)
    PROVE  s.accounts[a].api_keys[i].hash # c.hash
<1>1. SUFFICES ASSUME s.accounts[a].api_keys[i].hash = c.hash PROVE FALSE
    OBVIOUS
<1>2. c.account = a
    BY <1>1 DEF HashesOwned
<1>3. i \in DOMAIN s.accounts[a].api_keys
    BY AccountShape
<1> QED
    BY <1>1, <1>2, <1>3 DEF CanCreateApiKey

LEMMA HashesKept ==
    ASSUME NEW s, Shape(s), HashesOwned(s), NEW row, RowOK(row), NEW t, Effect(s, row, t)
    PROVE  HashesOwned(t)
<1> DEFINE c == row.command
           HS(a, i) == s.accounts[a].api_keys[i].hash
           HT(a, i) == t.accounts[a].api_keys[i].hash
           NS(a) == 1..Len(s.accounts[a].api_keys)
           NT(a) == 1..Len(t.accounts[a].api_keys)
<1>0. \A a \in Accounts(s) : \A i \in NS(a) :
        /\ \A d \in Commands : d.op = "api_create" /\ d.hash = HS(a, i) => d.account = a
        /\ \A b \in Accounts(s) : \A j \in NS(b) : HS(b, j) = HS(a, i) => a = b /\ i = j
    BY DEF HashesOwned
<1>g. ASSUME \A a \in Accounts(t) : \A i \in NT(a) :
               /\ \A d \in Commands : d.op = "api_create" /\ d.hash = HT(a, i) => d.account = a
               /\ \A b \in Accounts(t) : \A j \in NT(b) : HT(b, j) = HT(a, i) => a = b /\ i = j
      PROVE  HashesOwned(t)
    BY <1>g DEF HashesOwned
(* Every key of t but a new one is a key of s. *)
<1>1. CASE \A a \in Accounts(t) : \A i \in NT(a) :
              a \in Accounts(s) /\ i \in NS(a) /\ HT(a, i) = HS(a, i)
  <2> HIDE DEF HS, HT, NS, NT
  <2> QED BY <1>0, <1>1, <1>g
<1>2. CASE KeysUntouched(s, t)
    BY <1>1, <1>2 DEF KeysUntouched, SameApiKeys
<1>3. CASE AccountJoins(s, t)
  <2>1. \A a \in Accounts(t) : a \in Accounts(s) \/ a = Len(s.accounts) + 1
      BY <1>3 DEF AccountJoins, Accounts
  <2>2. Len(<<>>) = 0 /\ 1..0 = {}
      OBVIOUS
  <2>3. \A a \in Accounts(t) : \A i \in NT(a) : a \in Accounts(s)
      BY <1>3, <2>1, <2>2 DEF AccountJoins
  <2> QED BY <1>1, <1>3, <2>3 DEF AccountJoins, SameApiKeys
<1>4. CASE c.op = "api_create" /\ KeyJoins(s, c, t)
  <2>1. c \in Commands
      BY <1>4 DEF RowOK
  <2>2. c.account \in Accounts(s) /\ CanCreateApiKey(s, c)
      BY <1>4 DEF KeyJoins, CanCreateApiKey
  <2>3. PICK n : n = Len(s.accounts[c.account].api_keys) + 1
      OBVIOUS
  <2>4. \A a \in Accounts(t) : \A i \in NT(a) :
           \/ a \in Accounts(s) /\ i \in NS(a) /\ HT(a, i) = HS(a, i)
           \/ a = c.account /\ i = n /\ HT(a, i) = c.hash
    <3> TAKE a \in Accounts(t)
    <3> TAKE i \in NT(a)
    <3>1. CASE a # c.account
        BY <1>4, <3>1 DEF KeyJoins, SameApiKeys
    <3>2. CASE a = c.account
      <4>1. PICK old, new, e : /\ old = s.accounts[a].api_keys /\ new = t.accounts[a].api_keys
                               /\ e = [hash |-> c.hash, active |-> TRUE]
          OBVIOUS
      <4>2. Longer(old, e, new)
          BY <1>4, <3>2, <4>1 DEF KeyJoins
      <4>3. i \in 1..Len(new) /\ n = Len(old) + 1
          BY <2>3, <3>2, <4>1
      <4>4. i \in 1..Len(old) \/ i = n
          BY <4>2, <4>3 DEF Longer
      <4>5. CASE i \in 1..Len(old)
          BY <2>2, <3>2, <4>1, <4>2, <4>5 DEF Longer
      <4>6. CASE i = n
        <5>1. new[i] = e
            BY <4>2, <4>3, <4>6 DEF Longer
        <5> QED BY <3>2, <4>1, <4>6, <5>1
      <4> QED BY <4>4, <4>5, <4>6
    <3> QED BY <3>1, <3>2
  <2>5. \A a \in Accounts(s) : \A i \in NS(a) : HS(a, i) # c.hash
      BY <2>1, <2>2, <1>4, HashIsNew
  <2>6. \A d \in Commands : d.op = "api_create" /\ d.hash = c.hash => d.account = c.account
      BY <1>4, <2>1, MenusAssumption
  <2> HIDE DEF HS, HT, NS, NT, c
  <2> QED BY <1>0, <1>g, <2>4, <2>5, <2>6
<1>5. CASE c.op = "api_revoke" /\ KeyEnds(s, c, t)
  <2>1. \A a \in Accounts(t) : \A i \in NT(a) :
           a \in Accounts(s) /\ i \in NS(a) /\ HT(a, i) = HS(a, i)
    <3> TAKE a \in Accounts(t)
    <3> TAKE i \in NT(a)
    <3>1. CASE a # c.account
        BY <1>5, <3>1 DEF KeyEnds, SameApiKeys
    <3>2. CASE a = c.account
      <4>1. PICK old, new, e : /\ old = s.accounts[a].api_keys /\ new = t.accounts[a].api_keys
                               /\ e = [hash |-> old[c.id].hash, active |-> FALSE]
          OBVIOUS
      <4>2. Replaced(old, c.id, e, new) /\ a \in Accounts(s) /\ i \in 1..Len(new)
          BY <1>5, <3>2, <4>1 DEF KeyEnds
      <4>a. i \in 1..Len(old) /\ (i = c.id => new[i] = e) /\ (i # c.id => new[i] = old[i])
          BY <4>2 DEF Replaced
      <4>3. CASE i = c.id
        <5>1. new[i].hash = old[i].hash
            BY <4>1, <4>a, <4>3
        <5> QED BY <4>1, <4>2, <4>a, <5>1
      <4>4. CASE i # c.id
          BY <4>1, <4>2, <4>a, <4>4
      <4> QED BY <4>3, <4>4
    <3> QED BY <3>1, <3>2
  <2> QED BY <1>1, <2>1
<1> QED
    BY <1>2, <1>3, <1>4, <1>5, ApiKeysStep

(* A hash of the account tree tells its account and its id. *)
LEMMA HashOwner ==
    ASSUME NEW s, HashesOwned(s),
           NEW a \in Accounts(s), NEW i \in 1..Len(s.accounts[a].api_keys),
           NEW b \in Accounts(s), NEW j \in 1..Len(s.accounts[b].api_keys),
           s.accounts[b].api_keys[j].hash = s.accounts[a].api_keys[i].hash
    PROVE  a = b /\ i = j
BY DEF HashesOwned

LEMMA IndexKept ==
    ASSUME NEW s, Shape(s), HashesOwned(s), IndexOK(s), NEW row, RowOK(row),
           NEW t, Shape(t), Effect(s, row, t)
    PROVE  IndexOK(t)
<1> DEFINE c == row.command
           NS(a) == 1..Len(s.accounts[a].api_keys)
           NT(a) == 1..Len(t.accounts[a].api_keys)
           S(a, i, k) == /\ s.accounts[a].api_keys[i].active
                         /\ k = [hash |-> s.accounts[a].api_keys[i].hash, account |-> a]
           T(a, i, k) == /\ t.accounts[a].api_keys[i].active
                         /\ k = [hash |-> t.accounts[a].api_keys[i].hash, account |-> a]
<1>0. \A k : k \in s.index <=> \E a \in Accounts(s) : \E i \in NS(a) : S(a, i, k)
    BY ActiveIs DEF IndexOK
<1>g. ASSUME \A k : k \in t.index <=> \E a \in Accounts(t) : \E i \in NT(a) : T(a, i, k)
      PROVE  IndexOK(t)
  <2>1. \A k : k \in ActiveApiKeys(t) <=> \E a \in Accounts(t) : \E i \in NT(a) : T(a, i, k)
      BY ActiveIs
  <2>2. \A k : k \in t.index <=> k \in ActiveApiKeys(t)
      BY <1>g, <2>1, Zenon
  <2> QED BY <2>2 DEF IndexOK
<1>1. CASE KeysUntouched(s, t)
  <2>1. \A k : \A a \in Accounts(s) : NT(a) = NS(a) /\ \A i \in NS(a) : S(a, i, k) <=> T(a, i, k)
      BY <1>1 DEF KeysUntouched, SameApiKeys
  <2>2. Accounts(t) = Accounts(s) /\ t.index = s.index
      BY <1>1 DEF KeysUntouched
  <2> HIDE DEF NS, NT, S, T
  <2>3. \A k : k \in t.index <=> \E a \in Accounts(t) : \E i \in NT(a) : T(a, i, k)
      BY <1>0, <2>1, <2>2
  <2> QED BY <1>g, <2>3
<1>2. CASE AccountJoins(s, t)
  <2>0. PICK n : n = Len(s.accounts) + 1
      OBVIOUS
  <2>1. \A k : \A a \in Accounts(s) : NT(a) = NS(a) /\ \A i \in NS(a) : S(a, i, k) <=> T(a, i, k)
      BY <1>2 DEF AccountJoins, SameApiKeys
  <2>2. Accounts(t) = Accounts(s) \cup {n} /\ t.index = s.index
      BY <1>2, <2>0 DEF AccountJoins, Accounts
  <2>3. NT(n) = {}
    <3>1. Len(<<>>) = 0 /\ 1..0 = {}
        OBVIOUS
    <3> QED BY <1>2, <2>0, <3>1 DEF AccountJoins
  <2> HIDE DEF NS, NT, S, T
  <2>4. \A k : k \in t.index <=> \E a \in Accounts(t) : \E i \in NT(a) : T(a, i, k)
      BY <1>0, <2>1, <2>2, <2>3
  <2> QED BY <1>g, <2>4
<1>3. CASE c.op = "api_create" /\ KeyJoins(s, c, t)
  <2>1. PICK old, new, e, n : /\ old = s.accounts[c.account].api_keys
                              /\ new = t.accounts[c.account].api_keys
                              /\ e = [hash |-> c.hash, active |-> TRUE]
                              /\ n = Len(old) + 1
      OBVIOUS
  <2>2. /\ c.account \in Accounts(s) /\ Accounts(t) = Accounts(s) /\ Longer(old, e, new)
        /\ t.index = s.index \cup {[hash |-> c.hash, account |-> c.account]}
      BY <1>3, <2>1 DEF KeyJoins, CanCreateApiKey
  <2>3. /\ 1..Len(new) = 1..Len(old) \cup {n} /\ new[n] = e
        /\ \A i \in 1..Len(old) : new[i] = old[i]
    <3>1. /\ Len(old) \in Nat /\ Len(new) = Len(old) + 1 /\ new[Len(old) + 1] = e
          /\ \A i \in 1..Len(old) : new[i] = old[i]
        BY <2>2 DEF Longer
    <3>2. n = Len(old) + 1
        BY <2>1
    <3>3. 1..Len(new) = 1..Len(old) \cup {n}
        BY <3>1, <3>2
    <3> QED BY <3>1, <3>2, <3>3
  <2>4. \A k : \A a \in Accounts(s) \ {c.account} :
           NT(a) = NS(a) /\ \A i \in NS(a) : S(a, i, k) <=> T(a, i, k)
      BY <1>3 DEF KeyJoins, SameApiKeys
  <2>5. /\ NT(c.account) = NS(c.account) \cup {n}
        /\ \A k : \A i \in NS(c.account) : S(c.account, i, k) <=> T(c.account, i, k)
      BY <2>1, <2>3
  <2>6. \A k : T(c.account, n, k) <=> k = [hash |-> c.hash, account |-> c.account]
    <3>1. e.active = TRUE /\ e.hash = c.hash
        BY <2>1
    <3>2. t.accounts[c.account].api_keys[n] = e
        BY <2>1, <2>3
    <3> QED BY <3>1, <3>2
  <2> HIDE DEF NS, NT, S, T
  <2>7. \A k : k \in t.index <=> \E a \in Accounts(t) : \E i \in NT(a) : T(a, i, k)
    <3> TAKE k
    <3>1. ASSUME k \in t.index PROVE \E a \in Accounts(t) : \E i \in NT(a) : T(a, i, k)
      <4>1. CASE k \in s.index
        <5>1. PICK a \in Accounts(s) : \E i \in NS(a) : S(a, i, k)
            BY <1>0, <4>1
        <5>2. PICK i \in NS(a) : S(a, i, k)
            BY <5>1
        <5>3. i \in NT(a) /\ T(a, i, k)
            BY <2>4, <2>5, <5>2
        <5> QED BY <2>2, <5>3
      <4>2. CASE k = [hash |-> c.hash, account |-> c.account]
          BY <2>2, <2>5, <2>6, <4>2
      <4> QED BY <2>2, <3>1, <4>1, <4>2
    <3>2. ASSUME NEW a \in Accounts(t), NEW i \in NT(a), T(a, i, k) PROVE k \in t.index
      <4>1. CASE a = c.account /\ i = n
          BY <2>2, <2>6, <3>2, <4>1
      <4>2. CASE ~(a = c.account /\ i = n)
        <5>1. a \in Accounts(s) /\ i \in NS(a) /\ S(a, i, k)
            BY <2>2, <2>4, <2>5, <3>2, <4>2
        <5>2. k \in s.index
            BY <1>0, <5>1
        <5> QED BY <2>2, <5>2
      <4> QED BY <4>1, <4>2
    <3> QED BY <3>1, <3>2
  <2> QED BY <1>g, <2>7
<1>4. CASE c.op = "api_revoke" /\ KeyEnds(s, c, t)
  <2>1. PICK old, new, e : /\ old = s.accounts[c.account].api_keys
                           /\ new = t.accounts[c.account].api_keys
                           /\ e = [hash |-> old[c.id].hash, active |-> FALSE]
      OBVIOUS
  <2>2. /\ c.account \in Accounts(s) /\ Accounts(t) = Accounts(s) /\ Replaced(old, c.id, e, new)
        /\ c.id \in NS(c.account)
        /\ t.index = {k \in s.index : k.hash # old[c.id].hash}
      BY <1>4, <2>1 DEF KeyEnds
  <2>3. /\ Len(new) = Len(old) /\ new[c.id] = e
        /\ \A i \in 1..Len(old) : i # c.id => new[i] = old[i]
      BY <2>2 DEF Replaced
  <2>4. \A k : \A a \in Accounts(s) \ {c.account} :
           NT(a) = NS(a) /\ \A i \in NS(a) : S(a, i, k) <=> T(a, i, k)
      BY <1>4 DEF KeyEnds, SameApiKeys
  <2>5. /\ NT(c.account) = NS(c.account)
        /\ \A k : \A i \in NS(c.account) : i # c.id => (S(c.account, i, k) <=> T(c.account, i, k))
      BY <2>1, <2>3
  <2>6. \A k : ~T(c.account, c.id, k)
      BY <2>1, <2>3
  <2>7. \A k : \A a \in Accounts(s) : \A i \in NS(a) :
           S(a, i, k) => (k.hash = old[c.id].hash <=> a = c.account /\ i = c.id)
    <3> TAKE k
    <3> TAKE a \in Accounts(s)
    <3> TAKE i \in NS(a)
    <3> HAVE S(a, i, k)
    <3>1. k.hash = s.accounts[a].api_keys[i].hash
        OBVIOUS
    <3>2. s.accounts[a].api_keys[i].hash = s.accounts[c.account].api_keys[c.id].hash
            => c.account = a /\ c.id = i
      <4>1. PICK d, n : d = c.account /\ n = c.id
          OBVIOUS
      <4>2. d \in Accounts(s) /\ n \in 1..Len(s.accounts[d].api_keys)
          BY <2>2, <4>1
      <4>3. i \in 1..Len(s.accounts[a].api_keys)
          OBVIOUS
      <4> HIDE DEF c, NS, NT, S, T
      <4>4. s.accounts[a].api_keys[i].hash = s.accounts[d].api_keys[n].hash => d = a /\ n = i
          BY <4>2, <4>3, HashOwner
      <4> QED BY <4>1, <4>4
    <3> QED BY <2>1, <3>1, <3>2
  <2> HIDE DEF NS, NT, S, T
  <2>8. \A k : k \in t.index <=> \E a \in Accounts(t) : \E i \in NT(a) : T(a, i, k)
    <3> TAKE k
    <3>1. ASSUME k \in t.index PROVE \E a \in Accounts(t) : \E i \in NT(a) : T(a, i, k)
      <4>0. k \in s.index /\ k.hash # old[c.id].hash
          BY <2>2, <3>1
      <4>1. PICK a \in Accounts(s) : \E i \in NS(a) : S(a, i, k)
          BY <1>0, <4>0
      <4>2. PICK i \in NS(a) : S(a, i, k)
          BY <4>1
      <4>3. ~(a = c.account /\ i = c.id)
          BY <2>7, <4>0, <4>2
      <4>4. i \in NT(a) /\ T(a, i, k)
          BY <2>4, <2>5, <4>2, <4>3
      <4> QED BY <2>2, <4>4
    <3>2. ASSUME NEW a \in Accounts(t), NEW i \in NT(a), T(a, i, k) PROVE k \in t.index
      <4>1. ~(a = c.account /\ i = c.id)
          BY <2>6, <3>2
      <4>2. a \in Accounts(s) /\ i \in NS(a) /\ S(a, i, k)
          BY <2>2, <2>4, <2>5, <3>2, <4>1
      <4>3. k \in s.index /\ k.hash # old[c.id].hash
          BY <1>0, <2>7, <4>1, <4>2
      <4> QED BY <2>2, <4>3
    <3> QED BY <3>1, <3>2
  <2> QED BY <1>g, <2>8
<1> QED
    BY <1>1, <1>2, <1>3, <1>4, ApiKeysStep

-----------------------------------------------------------------------------
(* States that differ in the index of API keys at most *)

LEMMA AgreeFields ==
    ASSUME NEW s, NEW t, Agree(s, t)
    PROVE  /\ s.height = t.height /\ s.markets = t.markets /\ s.payouts = t.payouts
           /\ s.groups = t.groups /\ s.feeds = t.feeds /\ s.templates = t.templates
           /\ s.accounts = t.accounts /\ s.keys = t.keys /\ s.receipts = t.receipts
           /\ s.public = t.public /\ s.bundles = t.bundles /\ s.mm_receipts = t.mm_receipts
           /\ s.next_order_id = t.next_order_id /\ s.events = t.events /\ s.key_ops = t.key_ops
BY DEF Agree, Fields

SameAnswers(s, t, c) ==
    /\ ExistingMarket(s, c) = ExistingMarket(t, c)
    /\ ExistingGroup(s, c) = ExistingGroup(t, c)
    /\ Tradeable(s, c.market) <=> Tradeable(t, c.market)
    /\ CanCreateGroup(s, c) <=> CanCreateGroup(t, c)
    /\ CanExtend(s, c) <=> CanExtend(t, c)
    /\ AttestationAccepted(s, c) <=> AttestationAccepted(t, c)
    /\ ReceiptFor(s, c) = ReceiptFor(t, c)
    /\ Registered(s, c.pubkey) <=> Registered(t, c.pubkey)
    /\ Accounts(s) = Accounts(t)
    /\ FreshNonce(s, c) <=> FreshNonce(t, c)
    /\ CanCreateApiKey(s, c) <=> CanCreateApiKey(t, c)
    /\ CanRevokeApiKey(s, c) <=> CanRevokeApiKey(t, c)
    /\ CanRegisterFirst(s, c) <=> CanRegisterFirst(t, c)
    /\ CreatedThisBlock(s, c.account) <=> CreatedThisBlock(t, c.account)
    /\ CanRegisterAuthorized(s, c) <=> CanRegisterAuthorized(t, c)
    /\ CanRevoke(s, c) <=> CanRevoke(t, c)
    /\ Active(s, c.account) = Active(t, c.account)
    /\ MmReceipt(s, c.account) = MmReceipt(t, c.account)
    /\ Targets(s, c, c.expected) <=> Targets(t, c, c.expected)
    /\ FeedOf(s, c.pubkey) = FeedOf(t, c.pubkey)

LEMMA AgreeChecks ==
    ASSUME NEW s, NEW t, Agree(s, t), NEW c
    PROVE  SameAnswers(s, t, c)
<1>1. /\ s.height = t.height /\ s.markets = t.markets /\ s.payouts = t.payouts
      /\ s.groups = t.groups /\ s.feeds = t.feeds /\ s.templates = t.templates
      /\ s.accounts = t.accounts /\ s.keys = t.keys /\ s.receipts = t.receipts
      /\ s.bundles = t.bundles /\ s.mm_receipts = t.mm_receipts
      /\ s.events = t.events /\ s.key_ops = t.key_ops
    BY AgreeFields
<1>2. \A m : Tradeable(s, m) <=> Tradeable(t, m)
    BY <1>1 DEF Tradeable, Resolved
<1>3. \A m : GroupsWith(s, m) = GroupsWith(t, m)
    BY <1>1 DEF GroupsWith, GroupIds
<1>4. /\ ExistingMarket(s, c) = ExistingMarket(t, c)
      /\ ExistingGroup(s, c) = ExistingGroup(t, c)
      /\ CanCreateGroup(s, c) <=> CanCreateGroup(t, c)
      /\ CanExtend(s, c) <=> CanExtend(t, c)
    BY <1>1, <1>2, <1>3 DEF ExistingMarket, ExistingGroup, CanCreateGroup, CanExtend, GroupIds
<1>5. AttestationAccepted(s, c) <=> AttestationAccepted(t, c)
    BY <1>1, <1>2 DEF AttestationAccepted
<1>6. /\ ReceiptFor(s, c) = ReceiptFor(t, c)
      /\ \A k : Registered(s, k) <=> Registered(t, k)
      /\ Accounts(s) = Accounts(t)
      /\ FreshNonce(s, c) <=> FreshNonce(t, c)
      /\ CreatedThisBlock(s, c.account) <=> CreatedThisBlock(t, c.account)
    BY <1>1 DEF ReceiptFor, Registered, Accounts, FreshNonce, CreatedThisBlock
<1>7. /\ CanCreateApiKey(s, c) <=> CanCreateApiKey(t, c)
      /\ CanRevokeApiKey(s, c) <=> CanRevokeApiKey(t, c)
    BY <1>1, <1>6 DEF CanCreateApiKey, CanRevokeApiKey
<1>8. \A a : KeysOf(s, a) = KeysOf(t, a)
    BY <1>1 DEF KeysOf
<1>9. /\ CanRegisterFirst(s, c) <=> CanRegisterFirst(t, c)
      /\ CanRegisterAuthorized(s, c) <=> CanRegisterAuthorized(t, c)
      /\ CanRevoke(s, c) <=> CanRevoke(t, c)
    BY <1>1, <1>6, <1>8 DEF CanRegisterFirst, CanRegister, CanRegisterAuthorized, CanRevoke
<1>10. \A a : Active(s, a) = Active(t, a) /\ MmReceipt(s, a) = MmReceipt(t, a)
    BY <1>1 DEF Active, MmReceipt
<1>11. Targets(s, c, c.expected) <=> Targets(t, c, c.expected)
    BY <1>10 DEF Targets
<1>12. FeedOf(s, c.pubkey) = FeedOf(t, c.pubkey)
    BY <1>1 DEF FeedOf
<1> QED
    BY <1>2, <1>4, <1>5, <1>6, <1>7, <1>9, <1>10, <1>11, <1>12 DEF SameAnswers

LEMMA AgreeApplicable ==
    ASSUME NEW s, NEW t, Agree(s, t), NEW row, row.command.op \in Ops \cup {"nonce"}
    PROVE  Applicable(s, row) <=> Applicable(t, row)
<1> DEFINE c == row.command
<1>0. c = row.command
    OBVIOUS
<1> HIDE DEF c
<1>1. ChecksAs(s, row, c) /\ ChecksAs(t, row, c)
    BY <1>0, Checks
<1>2. SameAnswers(s, t, c)
    BY AgreeChecks
<1>3. s.markets = t.markets /\ s.accounts = t.accounts /\ s.public = t.public
    BY AgreeFields
<1>4. CASE c.op \in {"create_market", "create_group", "extend_group", "resolve", "attest",
                     "register_feed", "install_template"}
    BY <1>1, <1>2, <1>3, <1>4, Zenon DEF ChecksAs, SameAnswers
<1>5. CASE c.op \in {"provision", "public_account", "create_account", "fund", "profile", "nonce"}
    BY <1>1, <1>2, <1>3, <1>5, Zenon DEF ChecksAs, SameAnswers
<1>6. CASE c.op \in {"api_create", "api_revoke", "first_key", "register_key", "revoke_key"}
    BY <1>1, <1>2, <1>3, <1>6, Zenon DEF ChecksAs, SameAnswers
<1>7. CASE c.op \in {"mm_submit", "mm_replace", "mm_cancel"}
    BY <1>1, <1>2, <1>3, <1>7, Zenon DEF ChecksAs, SameAnswers
<1> QED
    BY <1>0, <1>4, <1>5, <1>6, <1>7 DEF Ops

LEMMA AgreeApply ==
    ASSUME NEW s, NEW t, Agree(s, t), NEW row, row.command.op \in Ops \cup {"nonce"}
    PROVE  Agree(Apply(s, row), Apply(t, row))
<1> DEFINE c == row.command
<1>0. c = row.command
    OBVIOUS
<1> HIDE DEF c
<1>1. AppliesAs(s, row, c) /\ AppliesAs(t, row, c)
    BY <1>0, Applies
<1>2. SameAnswers(s, t, c)
    BY AgreeChecks
<1>3. /\ DOMAIN s = Fields /\ DOMAIN t = Fields
      /\ \A f \in Fields \ {"index"} : s[f] = t[f]
    BY DEF Agree
<1>4. CASE c.op = "create_market"
  <2>1. Agree(CreateMarket(s, c), CreateMarket(t, c))
      BY <1>3 DEF CreateMarket, Agree, Fields
  <2> QED BY <1>0, <1>1, <1>2, <1>4, <2>1 DEF AppliesAs, SameAnswers
<1>5. CASE c.op = "create_group"
  <2>1. Agree(CreateGroup(s, c), CreateGroup(t, c))
      BY <1>3 DEF CreateGroup, Agree, Fields
  <2> QED BY <1>0, <1>1, <1>2, <1>5, <2>1 DEF AppliesAs, SameAnswers
<1>6. CASE c.op = "extend_group"
  <2>1. Agree(ExtendGroup(s, c), ExtendGroup(t, c))
      BY <1>3 DEF ExtendGroup, Agree, Fields
  <2> QED BY <1>0, <1>1, <1>6, <2>1 DEF AppliesAs
<1>7. CASE c.op = "resolve" \/ c.op = "attest"
  <2>1. Agree(Settled(s, c.market, c.payout), Settled(t, c.market, c.payout))
      BY <1>3 DEF Settled, Agree, Fields
  <2> QED BY <1>0, <1>1, <1>7, <2>1 DEF AppliesAs
<1>8. CASE c.op = "register_feed"
  <2>1. Agree(RegisterFeed(s, c), RegisterFeed(t, c))
      BY <1>2, <1>3 DEF RegisterFeed, Agree, Fields, SameAnswers
  <2> QED BY <1>0, <1>1, <1>8, <2>1 DEF AppliesAs
<1>9. CASE c.op = "install_template"
  <2>1. Agree(InstallTemplate(s, c), InstallTemplate(t, c))
      BY <1>3 DEF InstallTemplate, Agree, Fields
  <2> QED BY <1>0, <1>1, <1>9, <2>1 DEF AppliesAs
<1>10. \A key : Agree(NewAccount(s, key), NewAccount(t, key))
    BY <1>3 DEF NewAccount, Agree, Fields
<1>11. CASE c.op = "provision"
  <2>1. PICK u, v : u = NewAccount(s, NoKey) /\ v = NewAccount(t, NoKey)
      OBVIOUS
  <2>2. Agree(u, v)
      BY <1>10, <2>1
  <2>3. PICK r : r = [key |-> c.key, request |-> c.request, account |-> row.account]
      OBVIOUS
  <2>4. Agree([u EXCEPT !.receipts = @ \cup {r}], [v EXCEPT !.receipts = @ \cup {r}])
      BY <2>2 DEF Agree, Fields
  <2> QED BY <1>0, <1>1, <1>11, <2>1, <2>3, <2>4 DEF AppliesAs
<1>12. CASE c.op = "public_account"
  <2>1. PICK u, v : u = NewAccount(s, c.pubkey) /\ v = NewAccount(t, c.pubkey)
      OBVIOUS
  <2>2. Agree(u, v)
      BY <1>10, <2>1
  <2>3. Agree([u EXCEPT !.public = @ + 1], [v EXCEPT !.public = @ + 1])
      BY <2>2 DEF Agree, Fields
  <2> QED BY <1>0, <1>1, <1>12, <2>1, <2>3 DEF AppliesAs
<1>13. CASE c.op = "create_account"
    BY <1>0, <1>1, <1>10, <1>13 DEF AppliesAs
<1>14. CASE c.op = "fund"
  <2>1. Agree(Fund(s, c), Fund(t, c))
      BY <1>3 DEF Fund, Agree, Fields
  <2> QED BY <1>0, <1>1, <1>14, <2>1 DEF AppliesAs
<1>15. CASE c.op = "nonce"
  <2>1. Agree(Advance(s, c), Advance(t, c))
      BY <1>3 DEF Advance, Agree, Fields
  <2> QED BY <1>0, <1>1, <1>15, <2>1 DEF AppliesAs
<1>16. CASE c.op = "profile"
  <2>1. Agree(SetProfile(s, c), SetProfile(t, c))
      BY <1>3 DEF SetProfile, Agree, Fields
  <2> QED BY <1>0, <1>1, <1>16, <2>1 DEF AppliesAs
<1>17. CASE c.op = "api_create"
  <2>1. Agree(CreateApiKey(s, c), CreateApiKey(t, c))
      BY <1>3 DEF CreateApiKey, Agree, Fields
  <2> QED BY <1>0, <1>1, <1>17, <2>1 DEF AppliesAs
<1>18. CASE c.op = "api_revoke"
  <2>1. Agree(RevokeApiKey(s, c), RevokeApiKey(t, c))
      BY <1>3 DEF RevokeApiKey, Agree, Fields
  <2> QED BY <1>0, <1>1, <1>18, <2>1 DEF AppliesAs
<1>19. CASE c.op = "first_key"
  <2>1. Agree(AddKey(s, c), AddKey(t, c))
      BY <1>3 DEF AddKey, Agree, Fields
  <2> QED BY <1>0, <1>1, <1>19, <2>1 DEF AppliesAs
<1>20. ASSUME NEW u, NEW v, Agree(u, v), NEW a PROVE Agree(ChainKeyOp(u, a), ChainKeyOp(v, a))
    BY <1>20 DEF ChainKeyOp, Agree, Fields
<1>21. CASE c.op = "register_key"
  <2>1. Agree(AddKey(s, c), AddKey(t, c))
      BY <1>3 DEF AddKey, Agree, Fields
  <2>2. Agree(RegisterKey(s, c), RegisterKey(t, c))
      BY <1>20, <2>1 DEF RegisterKey
  <2> QED BY <1>0, <1>1, <1>21, <2>2 DEF AppliesAs
<1>22. CASE c.op = "revoke_key"
  <2> DEFINE k == [key |-> c.pubkey, account |-> c.account]
  <2>1. Agree([s EXCEPT !.keys = @ \ {k}], [t EXCEPT !.keys = @ \ {k}])
      BY <1>3 DEF Agree, Fields
  <2>2. Agree(RevokeKey(s, c), RevokeKey(t, c))
      BY <1>20, <2>1 DEF RevokeKey
  <2> QED BY <1>0, <1>1, <1>22, <2>2 DEF AppliesAs
<1>23. ASSUME NEW quotes, NEW reply
       PROVE  Agree(MmApplied(s, row, quotes, reply), MmApplied(t, row, quotes, reply))
  <2>1. Active(s, c.account) = Active(t, c.account) /\ MmReceipt(s, c.account) = MmReceipt(t, c.account)
      BY <1>2 DEF SameAnswers
  <2> QED BY <1>0, <1>3, <2>1 DEF MmApplied, Agree, Fields
<1>24. CASE c.op \in {"mm_submit", "mm_replace", "mm_cancel"}
  <2>1. CASE c.op = "mm_submit"
    <3>1. PICK q : q = {Quote(c, 0, row.order_id)}
        OBVIOUS
    <3>2. /\ Apply(s, row) = MmApplied(s, row, q, row.order_id)
          /\ Apply(t, row) = MmApplied(t, row, q, row.order_id)
        BY <1>1, <2>1, <3>1 DEF AppliesAs
    <3> QED BY <1>23, <3>2
  <2>2. CASE c.op = "mm_replace"
    <3>1. PICK q : q = {Quote(c, c.expected + 1, row.order_id)}
        OBVIOUS
    <3>2. /\ Apply(s, row) = MmApplied(s, row, q, row.order_id)
          /\ Apply(t, row) = MmApplied(t, row, q, row.order_id)
        BY <1>1, <2>2, <3>1 DEF AppliesAs
    <3> QED BY <1>23, <3>2
  <2>3. CASE c.op = "mm_cancel"
    <3>1. Apply(s, row) = MmApplied(s, row, {}, 0) /\ Apply(t, row) = MmApplied(t, row, {}, 0)
        BY <1>1, <2>3 DEF AppliesAs
    <3> QED BY <1>23, <3>1
  <2> QED BY <1>24, <2>1, <2>2, <2>3
<1> QED
    BY <1>0, <1>4, <1>5, <1>6, <1>7, <1>8, <1>9, <1>11, <1>12, <1>13, <1>14, <1>15, <1>16,
       <1>17, <1>18, <1>19, <1>21, <1>22, <1>24 DEF Ops

-----------------------------------------------------------------------------
(* Replaying rows *)

ReplayTrace(tr, base, rows) ==
    /\ tr[0] = base
    /\ \A k \in 1..Len(rows) : tr[k] = ApplyNext(tr[k - 1], rows[k])

LEMMA ApplyTrace ==
    ASSUME NEW st, NEW rows, IsSequence(rows)
    PROVE  \E tr : /\ ReplayTrace(tr, [ok |-> TRUE, st |-> st], rows)
                   /\ ApplyAll(st, rows) = tr[Len(rows)]
<1> DEFINE n == Len(rows)
           base == [ok |-> TRUE, st |-> st]
<1>1. ApplyAll(st, rows) = Folded(0, base, rows)
    BY DEF ApplyAll, FoldLeft, MapThenFoldSet, Folded, Iter, IsIter,
           Greatest, Max, Replaying
<1>2. n \in Nat /\ DOMAIN rows = 1..n
    BY SequenceIs
<1> HIDE DEF n, base
<1>3. PICK tr : Trace(tr, 0, base, rows, n)
    BY <1>2, FoldedTrace
<1>4. ReplayTrace(tr, base, rows) /\ ApplyAll(st, rows) = tr[n]
    BY <1>1, <1>3 DEF Trace, Replaying, ReplayTrace, n
<1> QED
    BY <1>4 DEF n, base

LEMMA ApplyNone == ASSUME NEW st PROVE ApplyAll(st, <<>>) = [ok |-> TRUE, st |-> st]
<1>1. IsSequence(<<>>) /\ Len(<<>>) = 0
    BY EmptySequence
<1>2. PICK tr : /\ ReplayTrace(tr, [ok |-> TRUE, st |-> st], <<>>)
                /\ ApplyAll(st, <<>>) = tr[Len(<<>>)]
    BY <1>1, ApplyTrace
<1> QED
    BY <1>1, <1>2 DEF ReplayTrace

Joined(a, b, ab) ==
    /\ IsSequence(ab) /\ Len(ab) = Len(a) + Len(b) /\ Len(a) \in Nat /\ Len(b) \in Nat
    /\ \A i \in 1..Len(a) : ab[i] = a[i]
    /\ \A i \in 1..Len(b) : ab[Len(a) + i] = b[i]

LEMMA ConcatAny ==
    ASSUME NEW a, IsSequence(a), NEW b, IsSequence(b), NEW ab, ab = a \o b
    PROVE  Joined(a, b, ab)
<1> DEFINE S == Range(a) \cup Range(b)
<1>1. a \in Seq(S) /\ b \in Seq(S)
  <2>1. a \in Seq(Range(a)) /\ b \in Seq(Range(b)) /\ Range(a) \subseteq S /\ Range(b) \subseteq S
      BY DEF IsSequence
  <2> HIDE DEF S
  <2> QED BY <2>1
<1> HIDE DEF S
<1>2. ab \in Seq(S) /\ Len(ab) = Len(a) + Len(b) /\ Len(a) \in Nat /\ Len(b) \in Nat
    BY <1>1, ConcatProperties, LenProperties
<1>3. \A i \in 1..Len(ab) : ab[i] = IF i <= Len(a) THEN a[i] ELSE b[i - Len(a)]
    BY <1>1, ConcatProperties
<1>4. IsSequence(ab)
  <2>1. ab \in Seq(S)
      BY <1>2
  <2> QED BY <2>1, SequenceAny
<1>5. ASSUME NEW i \in 1..Len(a) PROVE ab[i] = a[i]
  <2>1. i \in 1..Len(ab) /\ i <= Len(a)
      BY <1>2
  <2> QED BY <1>3, <2>1
<1>6. ASSUME NEW i \in 1..Len(b) PROVE ab[Len(a) + i] = b[i]
  <2>1. Len(a) + i \in 1..Len(ab) /\ ~(Len(a) + i <= Len(a)) /\ (Len(a) + i) - Len(a) = i
      BY <1>2
  <2> QED BY <1>3, <2>1
<1> QED
    BY <1>2, <1>4, <1>5, <1>6 DEF Joined

(* A replay of a \o b goes on with b where the replay of a ends. *)
LEMMA ApplyConcat ==
    ASSUME NEW st, NEW a, IsSequence(a), NEW b, IsSequence(b)
    PROVE  \E tr : /\ ReplayTrace(tr, ApplyAll(st, a), b)
                   /\ ApplyAll(st, a \o b) = tr[Len(b)]
<1> DEFINE base == [ok |-> TRUE, st |-> st]
<1> HIDE DEF base
<1>0. PICK ab : ab = a \o b
    OBVIOUS
<1>1. /\ IsSequence(ab) /\ Len(ab) = Len(a) + Len(b) /\ Len(a) \in Nat /\ Len(b) \in Nat
      /\ \A i \in 1..Len(a) : ab[i] = a[i]
      /\ \A i \in 1..Len(b) : ab[Len(a) + i] = b[i]
  <2>1. Joined(a, b, ab)
      BY <1>0, ConcatAny
  <2> QED BY <2>1 DEF Joined
<1>2. PICK u : ReplayTrace(u, base, a) /\ ApplyAll(st, a) = u[Len(a)]
    BY ApplyTrace DEF base
<1>3. PICK w : ReplayTrace(w, base, ab) /\ ApplyAll(st, ab) = w[Len(ab)]
    BY <1>1, ApplyTrace DEF base
<1> DEFINE good == {k \in 0..Len(a) : u[k] = w[k]}
<1>4. 0 \in good
    BY <1>1, <1>2, <1>3 DEF ReplayTrace
<1>5. ASSUME NEW k \in 1..Len(a), k - 1 \in good PROVE k \in good
  <2>1. k \in 1..Len(ab) /\ ab[k] = a[k] /\ u[k - 1] = w[k - 1] /\ k \in 0..Len(a)
      BY <1>1, <1>5
  <2>2. u[k] = ApplyNext(u[k - 1], a[k]) /\ w[k] = ApplyNext(w[k - 1], ab[k])
      BY <1>2, <1>3, <2>1 DEF ReplayTrace
  <2> QED BY <2>1, <2>2
<1> HIDE DEF good
<1>6. Len(a) \in good
    BY <1>1, <1>4, <1>5, CountUp
<1>7. w[Len(a)] = ApplyAll(st, a)
    BY <1>2, <1>6 DEF good
<1> DEFINE tr == [k \in 0..Len(b) |-> w[Len(a) + k]]
<1>8. ReplayTrace(tr, ApplyAll(st, a), b)
  <2>1. tr[0] = ApplyAll(st, a)
    <3>1. 0 \in 0..Len(b) /\ Len(a) + 0 = Len(a)
        BY <1>1
    <3> QED BY <1>7, <3>1
  <2>2. ASSUME NEW k \in 1..Len(b) PROVE tr[k] = ApplyNext(tr[k - 1], b[k])
    <3>1. /\ Len(a) + k \in 1..Len(ab) /\ (Len(a) + k) - 1 = Len(a) + (k - 1)
          /\ k - 1 \in 0..Len(b) /\ k \in 0..Len(b) /\ ab[Len(a) + k] = b[k]
        BY <1>1
    <3>2. w[Len(a) + k] = ApplyNext(w[(Len(a) + k) - 1], ab[Len(a) + k])
        BY <1>3, <3>1 DEF ReplayTrace
    <3>3. tr[k] = w[Len(a) + k] /\ tr[k - 1] = w[Len(a) + (k - 1)]
        BY <3>1
    <3> QED BY <3>1, <3>2, <3>3
  <2> QED BY <2>1, <2>2 DEF ReplayTrace
<1>9. ApplyAll(st, a \o b) = tr[Len(b)]
  <2>1. Len(b) \in 0..Len(b)
      BY <1>1
  <2> QED BY <1>0, <1>1, <1>3, <2>1
<1> QED
    BY <1>8, <1>9

-----------------------------------------------------------------------------
(* Creation keys and receipts *)

(* An account is created, or the accounts are the same. *)
LEMMA AccountsAfter ==
    ASSUME NEW s, Shape(s), NEW row, NEW t, Effect(s, row, t)
    PROVE  /\ Opens(s, row, t) => Longer(s.accounts, Fresh, t.accounts)
           /\ ~Opens(s, row, t) => Accounts(t) = Accounts(s)
<1> DEFINE c == row.command
<1> HIDE DEF c
<1>6. ASSUME Opens(s, row, t) PROVE Longer(s.accounts, Fresh, t.accounts)
  <2>1. IsSequence(s.accounts) /\ t.accounts = Append(s.accounts, Fresh)
      BY <1>6 DEF Opens, Shape
  <2> QED BY <2>1, AppendAny
<1>1. CASE t.accounts = s.accounts
    BY <1>1, <1>6 DEF Accounts
<1>2. ASSUME NEW b \in Accounts(s), NEW F, Changes(s, t, b, F) PROVE Accounts(t) = Accounts(s)
    BY <1>2, AccountsKept
<1>3. CASE \/ t = s \/ MakesMarket(s, c, t) \/ MakesGroup(s, c, t) \/ Extends(s, c, t)
           \/ Settles(s, c, t) \/ AddsFeed(s, c, t) \/ Installs(s, c, t)
           \/ AddsFirstKey(s, c, t)
  <2>1. t.accounts = s.accounts
      BY <1>3 DEF MakesMarket, MakesGroup, Extends, Settles, AddsFeed, Installs, AddsFirstKey,
             Keeps, Fields
  <2> QED BY <1>1, <1>6, <2>1
<1>4. CASE \/ Advances(s, c, t) \/ Renames(s, c, t) \/ Funds(s, c, t)
           \/ MakesApiKey(s, c, t) \/ RevokesApiKey(s, c, t) \/ OperatesKey(s, c, t)
  <2>1. c.account \in Accounts(s) /\ \E F : Changes(s, t, c.account, F)
      BY <1>4 DEF Advances, Renames, Funds, MakesApiKey, RevokesApiKey, OperatesKey,
             FreshNonce, CanCreateApiKey, CanRevokeApiKey
  <2> QED BY <1>2, <1>6, <2>1
<1>5. CASE Quotes(s, row, t)
  <2>1. c.account \in Accounts(s) /\ Changes(s, t, c.account, {"last_nonce"})
      BY <1>5 DEF Quotes, FreshNonce, c
  <2> QED BY <1>2, <1>6, <2>1
<1> QED
    BY <1>1, <1>3, <1>4, <1>5, <1>6 DEF Effect, c

LEMMA KeyedKept ==
    ASSUME NEW s, Shape(s), KeyedOnce(s), NEW row, NEW t, Shape(t), Effect(s, row, t)
    PROVE  KeyedOnce(t)
<1> DEFINE c == row.command
           KM(u) == \A i, j \in 1..Len(u.markets) :
                       u.markets[i].key = u.markets[j].key /\ u.markets[i].key # NoKey => i = j
           KG(u) == \A g, h \in 1..Len(u.groups) :
                       u.groups[g].key = u.groups[h].key /\ u.groups[g].key # NoKey => g = h
           KR(u) == /\ \A r, q \in u.receipts : r.key = q.key => r = q
                    /\ \A r \in u.receipts : r.account \in Accounts(u)
           KQ(u) == \A r, q \in u.mm_receipts : r.account = q.account => r = q
<1> HIDE DEF c
<1>0. IsSequence(s.markets) /\ IsSequence(s.groups) /\ IsSequence(s.accounts)
    BY DEF Shape
<1>1. KM(s) /\ KG(s) /\ KR(s) /\ KQ(s)
    BY DEF KeyedOnce
<1>2. KM(t)
  <2>1. CASE MakesMarket(s, c, t)
    <3>1. PICK e : e = [name |-> c.name, key |-> c.key, template |-> c.template]
        OBVIOUS
    <3>2. t.markets = Append(s.markets, e)
        BY <2>1, <3>1 DEF MakesMarket
    <3>3. Longer(s.markets, e, t.markets)
        BY <1>0, <3>2, AppendAny
    <3>4. \A i \in 1..Len(s.markets) : ~(c.key # NoKey /\ s.markets[i].key = c.key)
        BY <2>1 DEF MakesMarket, SameKey
    <3>5. \A i \in 1..Len(t.markets) : \/ i \in 1..Len(s.markets) /\ t.markets[i] = s.markets[i]
                                       \/ i = Len(s.markets) + 1 /\ t.markets[i].key = c.key
        BY <3>1, <3>3 DEF Longer
    <3> QED BY <1>1, <3>4, <3>5
  <2>2. CASE ~MakesMarket(s, c, t)
    <3>1. t.markets = s.markets
        BY <2>2 DEF Effect, MakesGroup, Extends, Settles, AddsFeed, Installs, Opens, Advances,
               Renames, Funds, MakesApiKey, RevokesApiKey, AddsFirstKey, OperatesKey, Quotes,
               Keeps, Fields, c
    <3> QED BY <1>1, <3>1
  <2> QED BY <2>1, <2>2
<1>3. KG(t)
  <2>0. \A g \in 1..Len(s.groups) : DOMAIN s.groups[g] = {"name", "key", "markets"}
      BY DEF Shape, GroupOK, GroupIds
  <2>1. CASE MakesGroup(s, c, t)
    <3>1. PICK e : e = [name |-> c.name, key |-> c.key, markets |-> c.markets]
        OBVIOUS
    <3>2. t.groups = Append(s.groups, e)
        BY <2>1, <3>1 DEF MakesGroup
    <3>3. Longer(s.groups, e, t.groups)
        BY <1>0, <3>2, AppendAny
    <3>4. \A i \in 1..Len(s.groups) : ~(c.key # NoKey /\ s.groups[i].key = c.key)
        BY <2>1 DEF MakesGroup, CanCreateGroup, SameKey
    <3>5. \A i \in 1..Len(t.groups) : \/ i \in 1..Len(s.groups) /\ t.groups[i] = s.groups[i]
                                      \/ i = Len(s.groups) + 1 /\ t.groups[i].key = c.key
        BY <3>1, <3>3 DEF Longer
    <3> QED BY <1>1, <3>4, <3>5
  <2>2. CASE Extends(s, c, t)
    <3>1. PICK e : e = [s.groups[c.group] EXCEPT !.markets = @ \cup {c.market}]
        OBVIOUS
    <3>2. c.group \in 1..Len(s.groups) /\ t.groups = [s.groups EXCEPT ![c.group] = e]
        BY <2>2, <3>1 DEF Extends, CanExtend, GroupIds
    <3>3. Replaced(s.groups, c.group, e, t.groups)
        BY <1>0, <3>2, ExceptAny
    <3>4. e.key = s.groups[c.group].key
        BY <2>0, <3>1, <3>2
    <3>5. Len(t.groups) = Len(s.groups) /\ \A g \in 1..Len(s.groups) : t.groups[g].key = s.groups[g].key
        BY <3>2, <3>3, <3>4 DEF Replaced
    <3> QED BY <1>1, <3>5
  <2>3. CASE Settles(s, c, t)
    <3>1. Kept(s.groups, c.market, Len(s.groups), t.groups)
        BY <1>0, <2>3, Shrunk DEF Settles
    <3>2. PICK f : KeptBy(f, s.groups, c.market, Len(s.groups), t.groups)
        BY <3>1 DEF Kept
    <3>3. ASSUME NEW g \in 1..Len(t.groups)
          PROVE  f[g] \in 1..Len(s.groups) /\ t.groups[g].key = s.groups[f[g]].key
      <4>1. f[g] \in 1..Len(s.groups) /\ t.groups[g] = [s.groups[f[g]] EXCEPT !.markets = @ \ {c.market}]
          BY <3>2 DEF KeptBy
      <4> QED BY <2>0, <4>1
    <3>4. ASSUME NEW g \in 1..Len(t.groups), NEW h \in 1..Len(t.groups), f[g] = f[h] PROVE g = h
      <4>1. \A i, j \in 1..Len(t.groups) : i < j => f[i] < f[j]
          BY <3>2 DEF KeptBy
      <4>2. f[g] \in 1..Len(s.groups) /\ f[h] \in 1..Len(s.groups)
          BY <3>3
      <4>3. ~(g < h) /\ ~(h < g)
          BY <3>4, <4>1, <4>2
      <4> QED BY <4>3
    <3> QED BY <1>1, <3>3, <3>4
  <2>4. CASE ~(MakesGroup(s, c, t) \/ Extends(s, c, t) \/ Settles(s, c, t))
    <3>1. t.groups = s.groups
        BY <2>4 DEF Effect, MakesMarket, AddsFeed, Installs, Opens, Advances, Renames, Funds,
               MakesApiKey, RevokesApiKey, AddsFirstKey, OperatesKey, Quotes, Keeps, Fields, c
    <3> QED BY <1>1, <3>1
  <2> QED BY <2>1, <2>2, <2>3, <2>4
<1>4. KR(t)
  <2>1. CASE Opens(s, row, t)
    <3>1. Longer(s.accounts, Fresh, t.accounts)
        BY <1>0, <2>1, AppendAny DEF Opens
    <3>2. Accounts(s) \subseteq Accounts(t) /\ Len(s.accounts) + 1 \in Accounts(t)
        BY <3>1 DEF Longer, Accounts
    <3>3. CASE c.op = "provision"
      <4>1. PICK e : e = [key |-> c.key, request |-> c.request, account |-> row.account]
          OBVIOUS
      <4>2. /\ t.receipts = s.receipts \cup {e} /\ e.account = Len(s.accounts) + 1
            /\ \A r \in s.receipts : r.key # e.key
          BY <2>1, <3>3, <4>1 DEF Opens, ReceiptFor, c
      <4> QED BY <1>1, <3>2, <4>2
    <3>4. CASE c.op # "provision"
      <4>1. t.receipts = s.receipts
          BY <2>1, <3>4 DEF Opens, c
      <4> QED BY <1>1, <3>2, <4>1
    <3> QED BY <3>3, <3>4
  <2>2. CASE ~Opens(s, row, t)
    <3>1. t.receipts = s.receipts
        BY <2>2 DEF Effect, MakesMarket, MakesGroup, Extends, Settles, AddsFeed, Installs, Advances,
               Renames, Funds, MakesApiKey, RevokesApiKey, AddsFirstKey, OperatesKey, Quotes,
               Keeps, Fields, c
    <3>2. Accounts(s) \subseteq Accounts(t)
        BY <2>2, AccountsAfter
    <3> QED BY <1>1, <3>1, <3>2
  <2> QED BY <2>1, <2>2
<1>5. KQ(t)
  <2>1. CASE Quotes(s, row, t)
    <3>1. PICK e : e = [account |-> c.account, nonce |-> c.nonce, command |-> c,
                        reply |-> IF c.op = "mm_cancel" THEN 0 ELSE row.order_id]
        OBVIOUS
    <3>2. t.mm_receipts = (s.mm_receipts \ MmReceipt(s, c.account)) \cup {e}
        BY <2>1, <3>1 DEF Quotes, c
    <3>3. e.account = c.account /\ \A r \in s.mm_receipts \ MmReceipt(s, c.account) : r.account # c.account
        BY <3>1 DEF MmReceipt
    <3> QED BY <1>1, <3>2, <3>3
  <2>2. CASE ~Quotes(s, row, t)
    <3>1. t.mm_receipts = s.mm_receipts
        BY <2>2 DEF Effect, MakesMarket, MakesGroup, Extends, Settles, AddsFeed, Installs, Opens,
               Advances, Renames, Funds, MakesApiKey, RevokesApiKey, AddsFirstKey, OperatesKey,
               Keeps, Fields, c
    <3> QED BY <1>1, <3>1
  <2> QED BY <2>1, <2>2
<1> QED
    BY <1>2, <1>3, <1>4, <1>5 DEF KeyedOnce

(* Nonces and the digests of key operations only move on. *)
CountersUp(s, t) ==
    /\ Accounts(s) \subseteq Accounts(t)
    /\ \A a \in Accounts(s) : /\ t.accounts[a].last_nonce >= s.accounts[a].last_nonce
                              /\ t.accounts[a].chain >= s.accounts[a].chain

LEMMA CountersChanged ==
    ASSUME NEW s, Shape(s), NEW t, NEW a \in Accounts(s), NEW F, Changes(s, t, a, F),
           t.accounts[a].last_nonce >= s.accounts[a].last_nonce,
           t.accounts[a].chain >= s.accounts[a].chain
    PROVE  CountersUp(s, t)
<1>1. Accounts(t) = Accounts(s) /\ \A b \in Accounts(s) : b # a => t.accounts[b] = s.accounts[b]
    BY AccountsKept
<1>2. \A b \in Accounts(s) : s.accounts[b].last_nonce \in Nat /\ s.accounts[b].chain \in Nat
    BY DEF Shape, AccountOK
<1>3. \A b \in Accounts(s) : /\ t.accounts[b].last_nonce >= s.accounts[b].last_nonce
                             /\ t.accounts[b].chain >= s.accounts[b].chain
  <2> TAKE b \in Accounts(s)
  <2>1. CASE b = a
      BY <2>1
  <2>2. CASE b # a
    <3>1. t.accounts[b] = s.accounts[b]
        BY <1>1, <2>2
    <3> QED BY <1>2, <3>1
  <2> QED BY <2>1, <2>2
<1> QED
    BY <1>1, <1>3 DEF CountersUp

LEMMA CountersGrow ==
    ASSUME NEW s, Shape(s), NEW row, RowOK(row), NEW t, Effect(s, row, t)
    PROVE  CountersUp(s, t)
<1>1. PICK c : c = row.command
    OBVIOUS
<1>2. \A a \in Accounts(s) : s.accounts[a].last_nonce \in Nat /\ s.accounts[a].chain \in Nat
    BY DEF Shape, AccountOK
<1>3. CASE Opens(s, row, t)
  <2>1. Longer(s.accounts, Fresh, t.accounts)
      BY <1>3, AccountsAfter
  <2>2. Accounts(s) \subseteq Accounts(t) /\ \A a \in Accounts(s) : t.accounts[a] = s.accounts[a]
      BY <2>1 DEF Longer, Accounts
  <2> QED BY <1>2, <2>2 DEF CountersUp
<1>4. CASE t.accounts = s.accounts
    BY <1>2, <1>4 DEF CountersUp, Accounts
<1>5. CASE \/ t = s \/ MakesMarket(s, c, t) \/ MakesGroup(s, c, t) \/ Extends(s, c, t)
           \/ Settles(s, c, t) \/ AddsFeed(s, c, t) \/ Installs(s, c, t)
           \/ AddsFirstKey(s, c, t)
  <2>1. t.accounts = s.accounts
      BY <1>5 DEF MakesMarket, MakesGroup, Extends, Settles, AddsFeed, Installs, AddsFirstKey,
             Keeps, Fields
  <2> QED BY <1>4, <2>1
<1>6. CASE Renames(s, c, t) \/ Funds(s, c, t) \/ MakesApiKey(s, c, t) \/ RevokesApiKey(s, c, t)
  <2>1. PICK F : Changes(s, t, c.account, F) /\ "last_nonce" \notin F /\ "chain" \notin F
    <3>1. \/ Changes(s, t, c.account, {"profile"}) \/ Changes(s, t, c.account, {"balance"})
          \/ Changes(s, t, c.account, {"api_keys"})
        BY <1>6 DEF Renames, Funds, MakesApiKey, RevokesApiKey
    <3> QED BY <3>1
  <2>2. c.account \in Accounts(s)
      BY <1>6 DEF Renames, Funds, MakesApiKey, RevokesApiKey, CanCreateApiKey, CanRevokeApiKey
  <2>3. /\ t.accounts[c.account].last_nonce = s.accounts[c.account].last_nonce
        /\ t.accounts[c.account].chain = s.accounts[c.account].chain
      BY <2>1 DEF Changes, AccountFields
  <2>4. /\ t.accounts[c.account].last_nonce >= s.accounts[c.account].last_nonce
        /\ t.accounts[c.account].chain >= s.accounts[c.account].chain
      BY <1>2, <2>2, <2>3
  <2> QED BY <2>1, <2>2, <2>4, CountersChanged
<1>7. CASE OperatesKey(s, c, t)
  <2>1. /\ Changes(s, t, c.account, {"chain"}) /\ c.account \in Accounts(s)
        /\ t.accounts[c.account].chain = s.accounts[c.account].chain + 1
      BY <1>7 DEF OperatesKey
  <2>2. t.accounts[c.account].last_nonce = s.accounts[c.account].last_nonce
      BY <2>1 DEF Changes, AccountFields
  <2>3. /\ t.accounts[c.account].last_nonce >= s.accounts[c.account].last_nonce
        /\ t.accounts[c.account].chain >= s.accounts[c.account].chain
      BY <1>2, <2>1, <2>2
  <2> QED BY <2>1, <2>3, CountersChanged
<1>8. CASE Advances(s, c, t) \/ Quotes(s, row, t)
  <2>1. /\ Changes(s, t, c.account, {"last_nonce"}) /\ FreshNonce(s, c)
        /\ t.accounts[c.account].last_nonce = c.nonce /\ c.op \in NonceOps
      BY <1>1, <1>8 DEF Advances, Quotes, NonceOps
  <2>2. c.account \in Accounts(s) /\ c.nonce > s.accounts[c.account].last_nonce
      BY <2>1 DEF FreshNonce
  <2>3. c.nonce \in Nat
      BY <1>1, <2>1 DEF RowOK
  <2>4. t.accounts[c.account].chain = s.accounts[c.account].chain
      BY <2>1 DEF Changes, AccountFields
  <2>5. /\ t.accounts[c.account].last_nonce >= s.accounts[c.account].last_nonce
        /\ t.accounts[c.account].chain >= s.accounts[c.account].chain
      BY <1>2, <2>1, <2>2, <2>3, <2>4
  <2> QED BY <2>1, <2>2, <2>5, CountersChanged
<1> QED
    BY <1>1, <1>3, <1>5, <1>6, <1>7, <1>8 DEF Effect

LEMMA ReceiptsSame ==
    ASSUME NEW s, Shape(s), ReceiptsOK(s), NEW t, Shape(t), CountersUp(s, t),
           t.mm_receipts \subseteq s.mm_receipts
    PROVE  ReceiptsOK(t)
<1> SUFFICES ASSUME NEW r \in t.mm_receipts
             PROVE  /\ r.account \in Accounts(t) /\ r.nonce \in Nat
                    /\ t.accounts[r.account].last_nonce >= r.nonce
    BY DEF ReceiptsOK
<1>1. /\ r.account \in Accounts(s) /\ r.nonce \in Nat
      /\ s.accounts[r.account].last_nonce >= r.nonce
    BY DEF ReceiptsOK
<1>2. /\ r.account \in Accounts(t)
      /\ t.accounts[r.account].last_nonce >= s.accounts[r.account].last_nonce
    BY <1>1 DEF CountersUp
<1>3. s.accounts[r.account].last_nonce \in Nat /\ t.accounts[r.account].last_nonce \in Nat
    BY <1>1, <1>2 DEF Shape, AccountOK
<1> QED
    BY <1>1, <1>2, <1>3

LEMMA ReceiptsKept ==
    ASSUME NEW s, Shape(s), ReceiptsOK(s), NEW row, RowOK(row), NEW t, Shape(t), Effect(s, row, t)
    PROVE  ReceiptsOK(t)
<1>0. CountersUp(s, t)
    BY CountersGrow
<1>1. CASE ~Quotes(s, row, t)
  <2>1. t.mm_receipts = s.mm_receipts
      BY <1>1 DEF Effect, MakesMarket, MakesGroup, Extends, Settles, AddsFeed, Installs, Opens,
             Advances, Renames, Funds, MakesApiKey, RevokesApiKey, AddsFirstKey, OperatesKey,
             Keeps, Fields
  <2> QED BY <1>0, <2>1, ReceiptsSame
<1>2. CASE Quotes(s, row, t)
  <2>1. PICK c : c = row.command
      OBVIOUS
  <2>2. PICK e : e = [account |-> c.account, nonce |-> c.nonce, command |-> c,
                      reply |-> IF c.op = "mm_cancel" THEN 0 ELSE row.order_id]
      OBVIOUS
  <2>3. t.mm_receipts = (s.mm_receipts \ MmReceipt(s, c.account)) \cup {e}
      BY <1>2, <2>1, <2>2 DEF Quotes
  <2>4. /\ c.account \in Accounts(s) /\ c.op \in NonceOps
        /\ t.accounts[c.account].last_nonce = c.nonce
      BY <1>2, <2>1 DEF Quotes, FreshNonce, NonceOps
  <2>5. c.nonce \in Nat
      BY <2>1, <2>4 DEF RowOK
  <2>6. e.account \in Accounts(t) /\ e.nonce \in Nat /\ t.accounts[e.account].last_nonce >= e.nonce
    <3>1. e.account = c.account /\ e.nonce = c.nonce
        BY <2>2
    <3> QED BY <1>0, <2>4, <2>5, <3>1 DEF CountersUp
  <2>7. ASSUME NEW r \in t.mm_receipts, r # e
        PROVE  /\ r.account \in Accounts(t) /\ r.nonce \in Nat
               /\ t.accounts[r.account].last_nonce >= r.nonce
    <3>1. r \in s.mm_receipts
        BY <2>3, <2>7
    <3>2. /\ r.account \in Accounts(s) /\ r.nonce \in Nat
          /\ s.accounts[r.account].last_nonce >= r.nonce
        BY <3>1 DEF ReceiptsOK
    <3>3. /\ r.account \in Accounts(t)
          /\ t.accounts[r.account].last_nonce >= s.accounts[r.account].last_nonce
        BY <1>0, <3>2 DEF CountersUp
    <3>4. s.accounts[r.account].last_nonce \in Nat /\ t.accounts[r.account].last_nonce \in Nat
        BY <3>2, <3>3 DEF Shape, AccountOK
    <3> QED BY <3>2, <3>3, <3>4
  <2> QED BY <2>6, <2>7 DEF ReceiptsOK
<1> QED
    BY <1>1, <1>2

-----------------------------------------------------------------------------
(* Within a block *)

LEMMA SinceKept ==
    ASSUME NEW s0, NEW s, Shape(s), Since(s0, s), NEW row, NEW t, Effect(s, row, t)
    PROVE  Since(s0, t)
<1> DEFINE c == row.command
<1> HIDE DEF c
<1>1. t.height = s.height /\ s.events \subseteq t.events
    BY DEF Effect, MakesMarket, MakesGroup, Extends, Settles, AddsFeed, Installs, Opens, Advances,
           Renames, Funds, MakesApiKey, RevokesApiKey, AddsFirstKey, OperatesKey, Quotes,
           Keeps, Fields
<1>2. ASSUME NEW a \in Accounts(t) \ Accounts(s)
      PROVE  \E e \in t.events : e.kind = "created" /\ e.id = a
  <2>1. CASE Opens(s, row, t)
    <3>1. Longer(s.accounts, Fresh, t.accounts)
        BY <2>1, AccountsAfter
    <3>2. a = Len(s.accounts) + 1
        BY <3>1, <1>2 DEF Longer, Accounts
    <3>3. PICK e : e = Event("created", Len(s.accounts) + 1, FirstKey(c))
        OBVIOUS
    <3>4. e \in t.events /\ e.kind = "created" /\ e.id = a
        BY <2>1, <3>2, <3>3 DEF Opens, Event, c
    <3> QED BY <3>4
  <2>2. CASE ~Opens(s, row, t)
    <3>1. Accounts(t) = Accounts(s)
        BY <2>2, AccountsAfter
    <3> QED BY <1>2, <3>1
  <2> QED BY <2>1, <2>2
<1>3. ASSUME NEW a \in Accounts(t) \ Accounts(s0)
      PROVE  \E e \in t.events : e.kind = "created" /\ e.id = a
  <2>1. CASE a \in Accounts(s)
    <3>1. PICK e \in s.events : e.kind = "created" /\ e.id = a
        BY <1>3, <2>1 DEF Since
    <3> QED BY <1>1, <3>1
  <2>2. CASE a \notin Accounts(s)
      BY <1>2, <1>3, <2>2
  <2> QED BY <2>1, <2>2
<1> QED
    BY <1>1, <1>3 DEF Since

-----------------------------------------------------------------------------
(* What was answered stays true *)

(* Markets and feeds keep their numbers. *)
Lengthens(s, t) ==
    \A i \in 1..Len(s) : i \in 1..Len(t) /\ t[i] = s[i]

LEMMA LongerLengthens ==
    ASSUME NEW s, NEW e, NEW t, Longer(s, e, t)
    PROVE  Lengthens(s, t)
BY DEF Longer, Lengthens

LEMMA ListsGrow ==
    ASSUME NEW s, Shape(s), NEW row, NEW t, Effect(s, row, t)
    PROVE  /\ Lengthens(s.markets, t.markets) /\ Lengthens(s.feeds, t.feeds)
           /\ s.receipts \subseteq t.receipts
<1>1. PICK c : c = row.command
    OBVIOUS
<1>2. Lengthens(s.markets, t.markets)
  <2>1. CASE MakesMarket(s, c, t)
    <3>1. PICK e : e = [name |-> c.name, key |-> c.key, template |-> c.template]
        OBVIOUS
    <3>2. IsSequence(s.markets) /\ t.markets = Append(s.markets, e)
        BY <2>1, <3>1 DEF Shape, MakesMarket
    <3>3. Longer(s.markets, e, t.markets)
        BY <3>2, AppendAny
    <3> QED BY <3>3, LongerLengthens
  <2>2. CASE ~MakesMarket(s, c, t)
    <3>1. t.markets = s.markets
        BY <1>1, <2>2 DEF Effect, MakesGroup, Extends, Settles, AddsFeed, Installs, Opens, Advances,
               Renames, Funds, MakesApiKey, RevokesApiKey, AddsFirstKey, OperatesKey, Quotes,
               Keeps, Fields
    <3> QED BY <3>1 DEF Lengthens
  <2> QED BY <2>1, <2>2
<1>3. Lengthens(s.feeds, t.feeds)
  <2>1. CASE AddsFeed(s, c, t)
    <3>1. IsSequence(s.feeds) /\ t.feeds = Append(s.feeds, c.pubkey)
        BY <2>1 DEF Shape, AddsFeed
    <3>2. Longer(s.feeds, c.pubkey, t.feeds)
        BY <3>1, AppendAny
    <3> QED BY <3>2, LongerLengthens
  <2>2. CASE ~AddsFeed(s, c, t)
    <3>1. t.feeds = s.feeds
        BY <1>1, <2>2 DEF Effect, MakesMarket, MakesGroup, Extends, Settles, Installs, Opens,
               Advances, Renames, Funds, MakesApiKey, RevokesApiKey, AddsFirstKey, OperatesKey,
               Quotes, Keeps, Fields
    <3> QED BY <3>1 DEF Lengthens
  <2> QED BY <2>1, <2>2
<1>4. s.receipts \subseteq t.receipts
  <2>1. CASE Opens(s, row, t)
    <3>1. row.command.op = "provision" => \E e : t.receipts = s.receipts \cup {e}
        BY <2>1, Zenon DEF Opens
    <3>2. row.command.op # "provision" => t.receipts = s.receipts
        BY <2>1, Zenon DEF Opens
    <3> QED BY <3>1, <3>2
  <2>2. CASE ~Opens(s, row, t)
    <3>1. t.receipts = s.receipts
        BY <1>1, <2>2 DEF Effect, MakesMarket, MakesGroup, Extends, Settles, AddsFeed, Installs,
               Advances, Renames, Funds, MakesApiKey, RevokesApiKey, AddsFirstKey, OperatesKey,
               Quotes, Keeps, Fields
    <3> QED BY <3>1
  <2> QED BY <2>1, <2>2
<1> QED
    BY <1>2, <1>3, <1>4

(* A market is settled once. *)
PayoutsStep(s, t) ==
    \/ t.payouts = s.payouts
    \/ \E m, payout : m \notin Resolved(s) /\ t.payouts = s.payouts \cup {[market |-> m, payout |-> payout]}

LEMMA PayoutsGrow ==
    ASSUME NEW s, NEW row, NEW t, Effect(s, row, t)
    PROVE  PayoutsStep(s, t)
<1>1. PICK c : c = row.command
    OBVIOUS
<1>2. CASE Settles(s, c, t)
    BY <1>2 DEF Settles, Tradeable, PayoutsStep
<1>3. CASE ~Settles(s, c, t)
  <2>1. t.payouts = s.payouts
      BY <1>1, <1>3 DEF Effect, MakesMarket, MakesGroup, Extends, AddsFeed, Installs, Opens,
             Advances, Renames, Funds, MakesApiKey, RevokesApiKey, AddsFirstKey, OperatesKey,
             Quotes, Keeps, Fields
  <2> QED BY <2>1 DEF PayoutsStep
<1> QED
    BY <1>2, <1>3

LEMMA ResolvedGrows ==
    ASSUME NEW s, NEW t, PayoutsStep(s, t)
    PROVE  Resolved(s) \subseteq Resolved(t)
BY DEF PayoutsStep, Resolved

LEMMA PayoutKept ==
    ASSUME NEW s, NEW t, PayoutsStep(s, t), NEW c, PayoutHolds(c, s)
    PROVE  PayoutHolds(c, t)
<1>1. CASE t.payouts = s.payouts
    BY <1>1 DEF PayoutHolds
<1>2. ASSUME NEW m, NEW payout, m \notin Resolved(s),
             t.payouts = s.payouts \cup {[market |-> m, payout |-> payout]}
      PROVE  PayoutHolds(c, t)
  <2>1. PICK e : e = [market |-> m, payout |-> payout]
      OBVIOUS
  <2>2. e.market = m /\ t.payouts = s.payouts \cup {e}
      BY <1>2, <2>1
  <2>3. c.market \in Resolved(s)
      BY DEF PayoutHolds, Resolved
  <2>4. m # c.market
      BY <1>2, <2>3
  <2> QED BY <2>2, <2>4 DEF PayoutHolds
<1> QED
    BY <1>1, <1>2 DEF PayoutsStep

LEMMA GroupKept ==
    ASSUME NEW s, StateOK(s), NEW row, NEW t, StateOK(t), Effect(s, row, t),
           NEW c, IsFiniteSet(c.markets), NEW reply \in Nat, GroupHolds(c, reply, s)
    PROVE  GroupHolds(c, reply, t)
<1> SUFFICES ASSUME c.key # NoKey, Cardinality(c.markets) > 1
             PROVE  \/ c.markets \cap Resolved(t) # {}
                    \/ \E g \in GroupIds(t) : /\ g <= reply /\ t.groups[g].key = c.key
                                              /\ c.markets \subseteq t.groups[g].markets
    BY DEF GroupHolds
<1>0. Shape(s) /\ IsSequence(s.groups) /\ \A g \in GroupIds(s) : GroupOK(s.groups[g])
    BY DEF StateOK, Shape
<1>1. PICK d : d = row.command
    OBVIOUS
<1>2. Resolved(s) \subseteq Resolved(t)
    BY PayoutsGrow, ResolvedGrows
<1>3. CASE c.markets \cap Resolved(s) # {}
    BY <1>2, <1>3
<1>4. ASSUME NEW g \in GroupIds(s), g <= reply, s.groups[g].key = c.key,
             c.markets \subseteq s.groups[g].markets
      PROVE  \/ c.markets \cap Resolved(t) # {}
             \/ \E h \in GroupIds(t) : /\ h <= reply /\ t.groups[h].key = c.key
                                       /\ c.markets \subseteq t.groups[h].markets
  <2>0. DOMAIN s.groups[g] = {"name", "key", "markets"} /\ IsFiniteSet(s.groups[g].markets)
      BY <1>0 DEF GroupOK
  <2>1. CASE MakesGroup(s, d, t)
    <3>1. PICK e : e = [name |-> d.name, key |-> d.key, markets |-> d.markets]
        OBVIOUS
    <3>2. t.groups = Append(s.groups, e)
        BY <2>1, <3>1 DEF MakesGroup
    <3>3. Longer(s.groups, e, t.groups)
        BY <1>0, <3>2, AppendAny
    <3>4. g \in GroupIds(t) /\ t.groups[g] = s.groups[g]
        BY <3>3 DEF Longer, GroupIds
    <3> QED BY <1>4, <3>4
  <2>2. CASE Extends(s, d, t)
    <3>1. PICK e : e = [s.groups[d.group] EXCEPT !.markets = @ \cup {d.market}]
        OBVIOUS
    <3>2. d.group \in 1..Len(s.groups) /\ t.groups = [s.groups EXCEPT ![d.group] = e]
        BY <2>2, <3>1 DEF Extends, CanExtend, GroupIds
    <3>3. Replaced(s.groups, d.group, e, t.groups)
        BY <1>0, <3>2, ExceptAny
    <3>4. g \in GroupIds(t)
        BY <3>3 DEF Replaced, GroupIds
    <3>5. CASE g # d.group
      <4>1. t.groups[g] = s.groups[g]
          BY <3>3, <3>5 DEF Replaced, GroupIds
      <4> QED BY <1>4, <3>4, <4>1
    <3>6. CASE g = d.group
      <4>1. t.groups[g] = [s.groups[g] EXCEPT !.markets = @ \cup {d.market}]
          BY <3>1, <3>3, <3>6 DEF Replaced
      <4>2. t.groups[g].key = c.key /\ s.groups[g].markets \subseteq t.groups[g].markets
          BY <1>4, <2>0, <4>1
      <4> QED BY <1>4, <3>4, <4>2
    <3> QED BY <3>5, <3>6
  <2>3. CASE Settles(s, d, t)
    <3>1. Kept(s.groups, d.market, Len(s.groups), t.groups)
        BY <1>0, <2>3, Shrunk DEF Settles
    <3>2. PICK f : KeptBy(f, s.groups, d.market, Len(s.groups), t.groups)
        BY <3>1 DEF Kept
    <3>3. d.market \in Resolved(t)
      <4>1. [market |-> d.market, payout |-> d.payout] \in t.payouts
          BY <2>3 DEF Settles
      <4> QED BY <4>1 DEF Resolved
    <3>4. CASE d.market \in c.markets
        BY <3>3, <3>4
    <3>5. CASE d.market \notin c.markets
      <4>1. c.markets \subseteq s.groups[g].markets \ {d.market}
          BY <1>4, <3>5
      <4>2. ~Drops(s.groups[g], d.market)
        <5>1. IsFiniteSet(s.groups[g].markets \ {d.market})
            BY <2>0, FS_RemoveElement, FS_Subset
        <5>2. /\ Cardinality(c.markets) <= Cardinality(s.groups[g].markets \ {d.market})
              /\ Cardinality(c.markets) \in Nat
              /\ Cardinality(s.groups[g].markets \ {d.market}) \in Nat
            BY <4>1, <5>1, FS_Subset, FS_CardinalityType
        <5> QED BY <5>2 DEF Drops
      <4>3. PICK h \in 1..Len(t.groups) : f[h] = g
          BY <3>2, <4>2 DEF KeptBy, GroupIds
      <4>4. t.groups[h] = [s.groups[g] EXCEPT !.markets = @ \ {d.market}] /\ h <= g
          BY <3>2, <4>3 DEF KeptBy
      <4>5. t.groups[h].key = c.key /\ t.groups[h].markets = s.groups[g].markets \ {d.market}
          BY <1>4, <2>0, <4>4
      <4>6. h <= reply /\ h \in GroupIds(t)
        <5>1. h \in Int /\ g \in Int
            BY <4>3 DEF GroupIds
        <5> QED BY <1>4, <4>3, <4>4, <5>1 DEF GroupIds
      <4> QED BY <4>1, <4>5, <4>6
    <3> QED BY <3>4, <3>5
  <2>4. CASE ~(MakesGroup(s, d, t) \/ Extends(s, d, t) \/ Settles(s, d, t))
    <3>1. t.groups = s.groups
        BY <1>1, <2>4 DEF Effect, MakesMarket, AddsFeed, Installs, Opens, Advances, Renames, Funds,
               MakesApiKey, RevokesApiKey, AddsFirstKey, OperatesKey, Quotes, Keeps, Fields
    <3> QED BY <1>4, <3>1 DEF GroupIds
  <2> QED BY <2>1, <2>2, <2>3, <2>4
<1> QED
    BY <1>3, <1>4 DEF GroupHolds

LEMMA ApiKeyKept ==
    ASSUME NEW s, Shape(s), NEW row, NEW t, Effect(s, row, t), NEW a \in Accounts(s),
           NEW i \in 1..Len(s.accounts[a].api_keys)
    PROVE  /\ a \in Accounts(t) /\ i \in 1..Len(t.accounts[a].api_keys)
           /\ t.accounts[a].api_keys[i].hash = s.accounts[a].api_keys[i].hash
           /\ ~s.accounts[a].api_keys[i].active => ~t.accounts[a].api_keys[i].active
<1>1. PICK c : c = row.command
    OBVIOUS
<1>2. CASE KeysUntouched(s, t)
    BY <1>2 DEF KeysUntouched, SameApiKeys
<1>3. CASE AccountJoins(s, t)
  <2>1. a \in Accounts(t) /\ t.accounts[a].api_keys = s.accounts[a].api_keys
      BY <1>3 DEF AccountJoins, SameApiKeys, Accounts
  <2> QED BY <2>1
<1>4. CASE KeyJoins(s, c, t)
  <2>1. Accounts(t) = Accounts(s) /\ (a # c.account => t.accounts[a].api_keys = s.accounts[a].api_keys)
      BY <1>4 DEF KeyJoins, SameApiKeys
  <2>2. CASE a # c.account
      BY <2>1, <2>2
  <2>3. CASE a = c.account
    <3>1. PICK e : e = [hash |-> c.hash, active |-> TRUE]
        OBVIOUS
    <3>2. Longer(s.accounts[a].api_keys, e, t.accounts[a].api_keys)
        BY <1>4, <2>3, <3>1 DEF KeyJoins
    <3>3. PICK old, new : old = s.accounts[a].api_keys /\ new = t.accounts[a].api_keys
        OBVIOUS
    <3>4. Longer(old, e, new)
        BY <3>2, <3>3
    <3>5. Len(old) \in Nat /\ Len(new) = Len(old) + 1 /\ \A j \in 1..Len(old) : new[j] = old[j]
        BY <3>4 DEF Longer
    <3>6. i \in 1..Len(old)
        BY <3>3
    <3>7. i \in 1..Len(new) /\ new[i] = old[i]
        BY <3>5, <3>6
    <3> QED BY <2>1, <3>3, <3>7
  <2> QED BY <2>2, <2>3
<1>5. CASE KeyEnds(s, c, t)
  <2>1. Accounts(t) = Accounts(s) /\ (a # c.account => t.accounts[a].api_keys = s.accounts[a].api_keys)
      BY <1>5 DEF KeyEnds, SameApiKeys
  <2>2. CASE a # c.account
      BY <2>1, <2>2
  <2>3. CASE a = c.account
    <3>1. PICK e : e = [hash |-> s.accounts[a].api_keys[c.id].hash, active |-> FALSE]
        OBVIOUS
    <3>2. Replaced(s.accounts[a].api_keys, c.id, e, t.accounts[a].api_keys)
        BY <1>5, <2>3, <3>1 DEF KeyEnds
    <3>3. i \in 1..Len(t.accounts[a].api_keys)
        BY <3>2 DEF Replaced
    <3>4. i # c.id => t.accounts[a].api_keys[i] = s.accounts[a].api_keys[i]
        BY <3>2 DEF Replaced
    <3>5. i = c.id => t.accounts[a].api_keys[i] = e
        BY <3>2 DEF Replaced
    <3>6. e.hash = s.accounts[a].api_keys[c.id].hash /\ e.active = FALSE
        BY <3>1
    <3> QED BY <2>1, <3>3, <3>4, <3>5, <3>6
  <2> QED BY <2>2, <2>3
<1> QED
    BY <1>1, <1>2, <1>3, <1>4, <1>5, ApiKeysStep

LEMMA MmKept ==
    ASSUME NEW s, StateOK(s), NEW row, RowOK(row), NEW t, StateOK(t), Effect(s, row, t),
           NEW c, c.nonce \in Nat, NEW reply, MmHolds(c, reply, s)
    PROVE  MmHolds(c, reply, t)
<1>0. Shape(s) /\ Shape(t)
    BY DEF StateOK
<1>1. c.account \in Accounts(s) /\ c.account \in Accounts(t)
    BY <1>0, CountersGrow DEF MmHolds, CountersUp
<1> DEFINE n == s.accounts[c.account].last_nonce
           m == t.accounts[c.account].last_nonce
<1>2. n \in Nat /\ m \in Nat
    BY <1>0, <1>1 DEF Shape, AccountOK
<1>3. m >= n
    BY <1>0, <1>1, CountersGrow DEF CountersUp
<1>4. n >= c.nonce
    BY DEF MmHolds
<1> HIDE DEF n, m
<1>5. CASE n > c.nonce
  <2>1. m > c.nonce /\ m >= c.nonce
      BY <1>2, <1>3, <1>5
  <2> QED BY <1>1, <2>1 DEF MmHolds, m
<1>6. ASSUME NEW r \in s.mm_receipts, r.account = c.account, r.nonce = c.nonce, r.command = c,
             r.reply = reply
      PROVE  MmHolds(c, reply, t)
  <2>1. CASE r \in t.mm_receipts
    <3>1. m >= c.nonce
        BY <1>2, <1>3, <1>4
    <3> QED BY <1>1, <1>6, <2>1, <3>1 DEF MmHolds, m
  <2>2. CASE r \notin t.mm_receipts
    <3>1. Quotes(s, row, t)
        BY <1>6, <2>2 DEF Effect, MakesMarket, MakesGroup, Extends, Settles, AddsFeed, Installs,
               Opens, Advances, Renames, Funds, MakesApiKey, RevokesApiKey, AddsFirstKey,
               OperatesKey, Keeps, Fields
    <3>2. PICK d : d = row.command
        OBVIOUS
    <3>3. PICK e : t.mm_receipts = (s.mm_receipts \ MmReceipt(s, d.account)) \cup {e}
        BY <3>1, <3>2 DEF Quotes
    <3>4. d.account = c.account
        BY <1>6, <2>2, <3>3 DEF MmReceipt
    <3>5. /\ d.nonce > s.accounts[d.account].last_nonce /\ d.op \in NonceOps
          /\ t.accounts[d.account].last_nonce = d.nonce
        BY <3>1, <3>2 DEF Quotes, FreshNonce, NonceOps
    <3>6. d.nonce \in Nat
        BY <3>2, <3>5 DEF RowOK
    <3>7. m = d.nonce /\ d.nonce > n
        BY <3>4, <3>5 DEF m, n
    <3>8. m > c.nonce /\ m >= c.nonce
        BY <1>2, <1>4, <3>6, <3>7
    <3> QED BY <1>1, <3>8 DEF MmHolds, m
  <2> QED BY <2>1, <2>2
<1> QED
    BY <1>5, <1>6 DEF MmHolds, n

(* A row of the log does not undo what was answered. *)
LEMMA HoldsKept ==
    ASSUME NEW s, StateOK(s), NEW row, RowOK(row), NEW t, StateOK(t), Effect(s, row, t),
           NEW c \in Commands, NEW reply, c.op = "create_group" => reply \in Nat,
           Holds(c, reply, s)
    PROVE  Holds(c, reply, t)
<1>0. Shape(s)
    BY DEF StateOK
<1>1. /\ Lengthens(s.markets, t.markets) /\ Lengthens(s.feeds, t.feeds)
      /\ s.receipts \subseteq t.receipts
    BY <1>0, ListsGrow
<1>2. Accounts(s) \subseteq Accounts(t)
    BY <1>0, CountersGrow DEF CountersUp
<1>3. MarketHolds(c, reply, s) => MarketHolds(c, reply, t)
    BY <1>1 DEF Lengthens, MarketHolds
<1>4. FeedHolds(c, reply, s) => FeedHolds(c, reply, t)
    BY <1>1 DEF Lengthens, FeedHolds
<1>5. ReceiptHolds(c, reply, s) => ReceiptHolds(c, reply, t)
    BY <1>1 DEF ReceiptHolds
<1>6. PayoutHolds(c, s) => PayoutHolds(c, t)
    BY PayoutsGrow, PayoutKept
<1>7. c.op = "create_group" /\ GroupHolds(c, reply, s) => GroupHolds(c, reply, t)
    BY GroupKept, MenusAssumption
<1>8. ApiKeyHolds(c, reply, s) => ApiKeyHolds(c, reply, t)
    BY <1>0, ApiKeyKept DEF ApiKeyHolds
<1>9. ApiKeyEnded(c, s) => ApiKeyEnded(c, t)
    BY <1>0, ApiKeyKept DEF ApiKeyEnded
<1>10. c.op \in {"mm_replace", "mm_cancel"} /\ MmHolds(c, reply, s) => MmHolds(c, reply, t)
    BY MmKept, MenusAssumption DEF NonceOps
<1> QED
    BY <1>2, <1>3, <1>4, <1>5, <1>6, <1>7, <1>8, <1>9, <1>10 DEF Holds

-----------------------------------------------------------------------------
(* The groups since the last block *)

LEMMA WholeBefore ==
    ASSUME NEW b, Shape(b), NEW s, NEW t, Resolved(s) \subseteq Resolved(t), Dissolved(b, t) = {}
    PROVE  Dissolved(b, s) = {}
<1> SUFFICES ASSUME NEW g \in GroupIds(b), Cardinality(b.groups[g].markets \ Resolved(s)) < 2
             PROVE  FALSE
    BY DEF Dissolved
<1> DEFINE M == b.groups[g].markets
<1>1. IsFiniteSet(M)
    BY DEF Shape, GroupOK
<1>2. ~(Cardinality(M \ Resolved(t)) < 2)
    BY DEF Dissolved
<1> HIDE DEF M
<1>3. IsFiniteSet(M \ Resolved(s))
    BY <1>1, FS_Difference
<1>4. M \ Resolved(t) \subseteq M \ Resolved(s)
    OBVIOUS
<1>5. /\ Cardinality(M \ Resolved(t)) <= Cardinality(M \ Resolved(s))
      /\ Cardinality(M \ Resolved(s)) \in Nat /\ IsFiniteSet(M \ Resolved(t))
    BY <1>3, <1>4, FS_Subset, FS_CardinalityType
<1>6. Cardinality(M \ Resolved(t)) \in Nat
    BY <1>5, FS_CardinalityType
<1>7. Cardinality(M \ Resolved(s)) < 2
    BY DEF M
<1> QED
    BY <1>2, <1>5, <1>6, <1>7

(* An event of another kind says nothing of groups. *)
LEMMA OtherEvents ==
    ASSUME NEW s, NEW t, NEW e, e.kind \notin {"extended", "resolved"},
           t.events = s.events \/ t.events = s.events \cup {e}
    PROVE  ResolvedNow(t) = ResolvedNow(s) /\ \A g : Added(t, g) = Added(s, g)
BY DEF ResolvedNow, Added

LEMMA TracksKept ==
    ASSUME NEW s, Shape(s), NEW row, NEW t, Shape(t), Effect(s, row, t),
           NEW b, Shape(b), Tracks(b, s)
    PROVE  Tracks(b, t)
<1>0. IsSequence(s.groups) /\ \A g \in GroupIds(s) : GroupOK(s.groups[g])
    BY DEF Shape
<1>1. PICK c : c = row.command
    OBVIOUS
<1>2. Resolved(s) \subseteq Resolved(t)
    BY PayoutsGrow, ResolvedGrows
<1>3. Dissolved(b, t) = {} => Dissolved(b, s) = {}
    BY <1>2, WholeBefore
<1>4. Resolved(s) = Resolved(b) \cup ResolvedNow(s)
    BY DEF Tracks
<1>5. ASSUME Dissolved(b, s) = {}, NEW g \in GroupIds(b)
      PROVE  /\ g \in GroupIds(s)
             /\ s.groups[g].name = b.groups[g].name /\ s.groups[g].key = b.groups[g].key
             /\ s.groups[g].markets = (b.groups[g].markets \cup Added(s, g)) \ Resolved(s)
             /\ DOMAIN s.groups[g] = {"name", "key", "markets"}
             /\ IsFiniteSet(s.groups[g].markets)
    BY <1>0, <1>5 DEF Tracks, GroupOK
<1>6. CASE MakesGroup(s, c, t)
  <2>1. PICK e : e = [name |-> c.name, key |-> c.key, markets |-> c.markets]
      OBVIOUS
  <2>2. t.groups = Append(s.groups, e) /\ t.events = s.events /\ t.payouts = s.payouts
      BY <1>6, <2>1 DEF MakesGroup, Keeps, Fields
  <2>3. Longer(s.groups, e, t.groups)
      BY <1>0, <2>2, AppendAny
  <2>4. \A g \in GroupIds(s) : g \in GroupIds(t) /\ t.groups[g] = s.groups[g]
      BY <2>3 DEF Longer, GroupIds
  <2>5. /\ Resolved(t) = Resolved(s) /\ ResolvedNow(t) = ResolvedNow(s)
        /\ \A g : Added(t, g) = Added(s, g)
      BY <2>2 DEF Resolved, ResolvedNow, Added
  <2> QED BY <1>3, <1>4, <1>5, <2>4, <2>5 DEF Tracks
<1>7. CASE Extends(s, c, t)
  <2>1. PICK e : e = [s.groups[c.group] EXCEPT !.markets = @ \cup {c.market}]
      OBVIOUS
  <2>2. c.group \in 1..Len(s.groups) /\ t.groups = [s.groups EXCEPT ![c.group] = e]
      BY <1>7, <2>1 DEF Extends, CanExtend, GroupIds
  <2>3. Replaced(s.groups, c.group, e, t.groups)
      BY <1>0, <2>2, ExceptAny
  <2>4. PICK x : x = Event("extended", c.group, c.market)
      OBVIOUS
  <2>5. x.kind = "extended" /\ x.id = c.group /\ x.arg = c.market
      BY <2>4 DEF Event
  <2>6. t.events = s.events \cup {x} /\ t.payouts = s.payouts
      BY <1>7, <2>4 DEF Extends, Keeps, Fields
  <2>7. ResolvedNow(t) = ResolvedNow(s) /\ Resolved(t) = Resolved(s)
      BY <2>5, <2>6 DEF ResolvedNow, Resolved
  <2>8. \A g : g # c.group => Added(t, g) = Added(s, g)
      BY <2>5, <2>6 DEF Added
  <2>9. Added(t, c.group) = Added(s, c.group) \cup {c.market}
      BY <2>5, <2>6 DEF Added
  <2>10. c.market \notin Resolved(s)
      BY <1>7 DEF Extends, CanExtend, Tradeable
  <2>11. ASSUME Dissolved(b, t) = {}, NEW g \in GroupIds(b)
         PROVE  /\ g \in GroupIds(t)
                /\ t.groups[g].name = b.groups[g].name /\ t.groups[g].key = b.groups[g].key
                /\ t.groups[g].markets = (b.groups[g].markets \cup Added(t, g)) \ Resolved(t)
    <3>1. /\ g \in GroupIds(s)
          /\ s.groups[g].name = b.groups[g].name /\ s.groups[g].key = b.groups[g].key
          /\ s.groups[g].markets = (b.groups[g].markets \cup Added(s, g)) \ Resolved(s)
          /\ DOMAIN s.groups[g] = {"name", "key", "markets"}
        BY <1>3, <1>5, <2>11
    <3>2. g \in GroupIds(t)
        BY <2>3, <3>1 DEF Replaced, GroupIds
    <3>3. CASE g # c.group
      <4>1. t.groups[g] = s.groups[g]
          BY <2>3, <3>1, <3>3 DEF Replaced, GroupIds
      <4>2. Added(t, g) = Added(s, g)
          BY <2>8, <3>3
      <4> QED BY <2>7, <3>1, <3>2, <4>1, <4>2
    <3>4. CASE g = c.group
      <4>1. t.groups[g] = e
          BY <2>3, <3>4 DEF Replaced
      <4>2. e.name = s.groups[g].name /\ e.key = s.groups[g].key
          BY <2>1, <3>1, <3>4
      <4>3. e.markets = s.groups[g].markets \cup {c.market}
          BY <2>1, <3>1, <3>4
      <4>4. Added(t, g) = Added(s, g) \cup {c.market}
          BY <2>9, <3>4
      <4>5. e.markets = (b.groups[g].markets \cup Added(t, g)) \ Resolved(t)
          BY <2>7, <2>10, <3>1, <4>3, <4>4
      <4> QED BY <3>1, <3>2, <4>1, <4>2, <4>5
    <3> QED BY <3>3, <3>4
  <2> QED BY <1>4, <2>7, <2>11 DEF Tracks
<1>8. CASE Settles(s, c, t)
  <2>1. Kept(s.groups, c.market, Len(s.groups), t.groups)
      BY <1>0, <1>8, Shrunk DEF Settles
  <2>2. PICK f : KeptBy(f, s.groups, c.market, Len(s.groups), t.groups)
      BY <2>1 DEF Kept
  <2>3. PICK x : x = Event("resolved", c.market, c.payout)
      OBVIOUS
  <2>4. x.kind = "resolved" /\ x.id = c.market
      BY <2>3 DEF Event
  <2>5. PICK p : p = [market |-> c.market, payout |-> c.payout]
      OBVIOUS
  <2>6. t.events = s.events \cup {x} /\ t.payouts = s.payouts \cup {p} /\ p.market = c.market
      BY <1>8, <2>3, <2>5 DEF Settles
  <2>7. Resolved(t) = Resolved(s) \cup {c.market}
      BY <2>6 DEF Resolved
  <2>8. ResolvedNow(t) = ResolvedNow(s) \cup {c.market}
      BY <2>4, <2>6 DEF ResolvedNow
  <2>9. \A g : Added(t, g) = Added(s, g)
      BY <2>4, <2>6 DEF Added
  <2>10. ASSUME Dissolved(b, t) = {}, NEW g \in GroupIds(b)
         PROVE  ~Drops(s.groups[g], c.market)
    <3>1. /\ IsFiniteSet(s.groups[g].markets)
          /\ s.groups[g].markets = (b.groups[g].markets \cup Added(s, g)) \ Resolved(s)
        BY <1>3, <1>5, <2>10
    <3> DEFINE M == b.groups[g].markets \ Resolved(t)
               N == s.groups[g].markets \ {c.market}
    <3>2. ~(Cardinality(M) < 2)
        BY <2>10 DEF Dissolved
    <3>3. M \subseteq N
        BY <2>7, <3>1
    <3>4. IsFiniteSet(N)
        BY <3>1, FS_Difference
    <3> HIDE DEF M, N
    <3>5. Cardinality(M) <= Cardinality(N) /\ IsFiniteSet(M)
        BY <3>3, <3>4, FS_Subset
    <3>6. Cardinality(M) \in Nat /\ Cardinality(N) \in Nat
        BY <3>4, <3>5, FS_CardinalityType
    <3>7. ~(Cardinality(N) < 2)
        BY <3>2, <3>5, <3>6
    <3> QED BY <3>7 DEF Drops, N
  <2>11. ASSUME Dissolved(b, t) = {}, NEW g \in GroupIds(b)
         PROVE  /\ g \in GroupIds(t)
                /\ t.groups[g].name = b.groups[g].name /\ t.groups[g].key = b.groups[g].key
                /\ t.groups[g].markets = (b.groups[g].markets \cup Added(t, g)) \ Resolved(t)
    <3>1. /\ g \in GroupIds(s)
          /\ s.groups[g].name = b.groups[g].name /\ s.groups[g].key = b.groups[g].key
          /\ s.groups[g].markets = (b.groups[g].markets \cup Added(s, g)) \ Resolved(s)
          /\ DOMAIN s.groups[g] = {"name", "key", "markets"}
        BY <1>3, <1>5, <2>11
    <3>2. \A h \in 1..g : h \in GroupIds(b)
      <4>1. Len(b.groups) \in Nat
          BY SequenceIs DEF Shape
      <4> QED BY <4>1 DEF GroupIds
    <3>3. \A h \in 1..g : ~Drops(s.groups[h], c.market)
        BY <2>10, <2>11, <3>2
    <3>4. g \in 1..Len(s.groups)
        BY <3>1 DEF GroupIds
    <3>5. g \in 1..Len(t.groups) /\ f[g] = g
        BY <2>2, <3>3, <3>4 DEF KeptBy
    <3>6. t.groups[g] = [s.groups[g] EXCEPT !.markets = @ \ {c.market}]
        BY <2>2, <3>5 DEF KeptBy
    <3>7. /\ t.groups[g].name = s.groups[g].name /\ t.groups[g].key = s.groups[g].key
          /\ t.groups[g].markets = s.groups[g].markets \ {c.market}
        BY <3>1, <3>6
    <3>8. t.groups[g].markets = (b.groups[g].markets \cup Added(t, g)) \ Resolved(t)
        BY <2>7, <2>9, <3>1, <3>7
    <3> QED BY <3>1, <3>5, <3>7, <3>8 DEF GroupIds
  <2>12. Resolved(t) = Resolved(b) \cup ResolvedNow(t)
      BY <1>4, <2>7, <2>8
  <2> QED BY <2>11, <2>12 DEF Tracks
<1>9. CASE ~(MakesGroup(s, c, t) \/ Extends(s, c, t) \/ Settles(s, c, t))
  <2>1. t.groups = s.groups /\ t.payouts = s.payouts
      BY <1>1, <1>9 DEF Effect, MakesMarket, AddsFeed, Installs, Opens, Advances, Renames, Funds,
             MakesApiKey, RevokesApiKey, AddsFirstKey, OperatesKey, Quotes, Keeps, Fields
  <2>2. PICK e : /\ e.kind \notin {"extended", "resolved"}
                 /\ t.events = s.events \/ t.events = s.events \cup {e}
    <3>1. CASE Opens(s, row, t)
      <4>1. PICK e : e = Event("created", Len(s.accounts) + 1, FirstKey(row.command))
          OBVIOUS
      <4>2. e.kind = "created" /\ t.events = s.events \cup {e}
          BY <3>1, <4>1 DEF Opens, Event
      <4> QED BY <4>2
    <3>2. CASE Funds(s, c, t)
      <4>1. PICK e : e = Event("deposit", c.account, c.amount)
          OBVIOUS
      <4>2. e.kind = "deposit" /\ t.events = s.events \cup {e}
          BY <3>2, <4>1 DEF Funds, Event
      <4> QED BY <4>2
    <3>3. CASE ~(Opens(s, row, t) \/ Funds(s, c, t))
      <4>1. t.events = s.events
          BY <1>1, <1>9, <3>3 DEF Effect, MakesMarket, AddsFeed, Installs, Advances, Renames,
                 MakesApiKey, RevokesApiKey, AddsFirstKey, OperatesKey, Quotes, Keeps, Fields
      <4>2. PICK e : e = [kind |-> "none"]
          OBVIOUS
      <4>3. e.kind = "none"
          BY <4>2
      <4> QED BY <4>1, <4>3
    <3> QED BY <3>1, <3>2, <3>3
  <2>3. ResolvedNow(t) = ResolvedNow(s) /\ \A g : Added(t, g) = Added(s, g)
      BY <2>2, OtherEvents
  <2>4. Resolved(t) = Resolved(s)
      BY <2>1 DEF Resolved
  <2> QED BY <1>3, <1>4, <1>5, <2>1, <2>3, <2>4 DEF Tracks, GroupIds
<1> QED
    BY <1>6, <1>7, <1>8, <1>9
====
