--------------------------- MODULE ControlPlane ---------------------------
(***************************************************************************)
(* The commands behind the acknowledged-write log: markets, groups, feeds  *)
(* and templates, accounts, signing keys, profiles and read API keys, and  *)
(* market makers' bundles, as operators on the sequencer's state.          *)
(*                                                                         *)
(* A handler first looks whether the command was already done (Existing),  *)
(* then validates it (Admissible), appends its row to the log, and applies *)
(* the row (Apply).  A restart applies the logged rows again to the last   *)
(* snapshot with the same Apply, so the two must agree: validation is      *)
(* written twice in the code, and ids are allocated again.                 *)
(***************************************************************************)
EXTENDS Integers, Sequences, FiniteSets, SequencesExt

CONSTANTS PublicCapacity,   \* accounts the anonymous route may create
          MaxKeys,          \* MAX_KEYS_PER_ACCOUNT
          MaxKeyOps,        \* MAX_KEY_OPS_PER_BLOCK
          MaxApiKeys        \* MAX_API_KEYS_PER_ACCOUNT

ASSUME ControlPlaneAssumption ==
    /\ PublicCapacity \in Nat /\ MaxKeys \in Nat \ {0} /\ MaxKeyOps \in Nat \ {0}
    /\ MaxApiKeys \in Nat

NoKey == "no_key"           \* a creation without creation_key
Admin == "admin_immediate"  \* the template of a market that names none

(* The sequencer's state.  Ids are positions: of markets, groups, feeds and
   accounts.  events holds the pending system events of the next block, index
   the active API keys by hash. *)
EmptyState ==
    [height |-> 0, markets |-> <<>>, payouts |-> {}, groups |-> <<>>, feeds |-> <<>>,
     templates |-> {}, accounts |-> <<>>, keys |-> {}, index |-> {}, receipts |-> {}, public |-> 0,
     bundles |-> {}, mm_receipts |-> {}, next_order_id |-> 1, events |-> {}, key_ops |-> 0]

Resolved(st) == {p.market : p \in st.payouts}
Tradeable(st, m) == m \in 1..Len(st.markets) /\ m \notin Resolved(st)
GroupIds(st) == 1..Len(st.groups)
GroupsWith(st, m) == {g \in GroupIds(st) : m \in st.groups[g].markets}
Accounts(st) == 1..Len(st.accounts)
KeysOf(st, a) == {k \in st.keys : k.account = a}
Registered(st, key) == \E k \in st.keys : k.key = key
Event(kind, id, arg) == [kind |-> kind, id |-> id, arg |-> arg]

-----------------------------------------------------------------------------
(* Markets and groups *)

SameKey(entries, c) == {i \in 1..Len(entries) : c.key # NoKey /\ entries[i].key = c.key}

(* existing_market_for_creation: an exact retry finds the market. *)
ExistingMarket(st, c) ==
    {i \in SameKey(st.markets, c) : st.markets[i].name = c.name /\ st.markets[i].template = c.template}

CreateMarket(st, c) ==
    [st EXCEPT !.markets = Append(@, [name |-> c.name, key |-> c.key, template |-> c.template])]

(* existing_market_group_for_creation compares with the members of now. *)
ExistingGroup(st, c) ==
    {i \in SameKey(st.groups, c) : st.groups[i].name = c.name /\ st.groups[i].markets = c.markets}

(* can_create_market_group *)
CanCreateGroup(st, c) ==
    /\ SameKey(st.groups, c) = {}
    /\ \A m \in c.markets : Tradeable(st, m) /\ GroupsWith(st, m) = {}

CreateGroup(st, c) ==
    [st EXCEPT !.groups = Append(@, [name |-> c.name, key |-> c.key, markets |-> c.markets])]

(* validate_market_group_extension *)
CanExtend(st, c) ==
    /\ Tradeable(st, c.market)
    /\ c.group \in GroupIds(st)
    /\ GroupsWith(st, c.market) \subseteq {c.group}

(* Mutant: the extension leaves no event for the block's witness. *)
MutantSilentExtend(st, c) == [st EXCEPT !.groups[c.group].markets = @ \cup {c.market}]

ExtendGroup(st, c) ==
    IF c.market \in st.groups[c.group].markets THEN st
    ELSE [st EXCEPT !.groups[c.group].markets = @ \cup {c.market},
                    !.events = @ \cup {Event("extended", c.group, c.market)}]

(* Mutant: the resolved market stays in its group. *)
MutantKeepMember(groups, m) == groups

(* shrink_market_groups_after_resolution: later groups move down. *)
KeepGroup(kept, g, m) ==
    IF m \in g.markets /\ Cardinality(g.markets \ {m}) < 2 THEN kept
    ELSE Append(kept, [g EXCEPT !.markets = @ \ {m}])
Shrink(groups, m) == FoldLeft(LAMBDA kept, g : KeepGroup(kept, g, m), <<>>, groups)

Settled(st, m, payout) ==
    [st EXCEPT !.payouts = @ \cup {[market |-> m, payout |-> payout]},
               !.events = @ \cup {Event("resolved", m, payout)},
               !.groups = Shrink(@, m)]

(* A signed attestation settles a market whose template names the signer's feed. *)
AttestationAccepted(st, c) ==
    /\ Tradeable(st, c.market) /\ c.attested_market = c.market
    /\ \E t \in st.templates : /\ t.name = st.markets[c.market].template
                               /\ t.feed \in 1..Len(st.feeds)
                               /\ st.feeds[t.feed] = c.signer

-----------------------------------------------------------------------------
(* Feeds and templates *)

FeedOf(st, pubkey) == {i \in 1..Len(st.feeds) : st.feeds[i] = pubkey}

RegisterFeed(st, c) ==
    IF FeedOf(st, c.pubkey) # {} THEN st ELSE [st EXCEPT !.feeds = Append(@, c.pubkey)]

InstallTemplate(st, c) ==
    [st EXCEPT !.templates = {t \in @ : t.name # c.name} \cup {[name |-> c.name, feed |-> c.feed]}]

-----------------------------------------------------------------------------
(* Accounts and signing keys.  chain counts the entries of events_digest. *)

NewAccount(st, key) ==
    LET id == Len(st.accounts) + 1
    IN  [st EXCEPT !.accounts = Append(@, [last_nonce |-> 0, chain |-> 0, balance |-> 0,
                                             profile |-> "", api_keys |-> <<>>]),
                   !.keys = IF key = NoKey THEN @ ELSE @ \cup {[key |-> key, account |-> id]},
                   !.events = @ \cup {Event("created", id, key)}]

ReceiptFor(st, c) == {r \in st.receipts : r.key = c.key}

(* can_register_pubkey *)
CanRegister(st, c) ==
    /\ c.account \in Accounts(st)
    /\ ~Registered(st, c.pubkey)
    /\ Cardinality(KeysOf(st, c.account)) < MaxKeys

(* can_register_first_pubkey, the check made before the row is logged. *)
CanRegisterFirst(st, c) == CanRegister(st, c) /\ KeysOf(st, c.account) = {}

(* What register_first_pubkey_with_meta requires besides. *)
CreatedThisBlock(st, a) == st.height = 0 \/ \E e \in st.events : e.kind = "created" /\ e.id = a

AddKey(st, c) == [st EXCEPT !.keys = @ \cup {[key |-> c.pubkey, account |-> c.account]}]

(* Mutant: the digests that a key operation is signed over are not compared. *)
MutantSignerOnly(st, c) ==
    c.account \in Accounts(st) /\ [key |-> c.signer, account |-> c.account] \in st.keys

(* resolve_signer_account and validate_keyop_state_binding *)
KeyOpSigned(st, c) ==
    /\ c.account \in Accounts(st) /\ [key |-> c.signer, account |-> c.account] \in st.keys
    /\ c.bound = st.accounts[c.account].chain

CanRegisterAuthorized(st, c) == CanRegister(st, c) /\ st.key_ops < MaxKeyOps

(* can_revoke_signing_key *)
CanRevoke(st, c) ==
    /\ st.key_ops < MaxKeyOps
    /\ [key |-> c.pubkey, account |-> c.account] \in st.keys
    /\ Cardinality(KeysOf(st, c.account)) > 1

ChainKeyOp(st, a) == [st EXCEPT !.accounts[a].chain = @ + 1, !.key_ops = @ + 1]

RegisterKey(st, c) == ChainKeyOp(AddKey(st, c), c.account)

RevokeKey(st, c) ==
    ChainKeyOp([st EXCEPT !.keys = @ \ {[key |-> c.pubkey, account |-> c.account]}], c.account)

-----------------------------------------------------------------------------
(* Nonces, funding, profiles and read API keys *)

FreshNonce(st, c) == c.account \in Accounts(st) /\ c.nonce > st.accounts[c.account].last_nonce

Advance(st, c) == [st EXCEPT !.accounts[c.account].last_nonce = c.nonce]

Fund(st, c) == [st EXCEPT !.accounts[c.account].balance = @ + c.amount,
                          !.events = @ \cup {Event("deposit", c.account, c.amount)}]

SetProfile(st, c) == [st EXCEPT !.accounts[c.account].profile = c.profile]

Signed(st, c) == [key |-> c.signer, account |-> c.account] \in st.keys

(* can_create_api_key: revoked keys count, and the hash is new to the account. *)
CanCreateApiKey(st, c) ==
    /\ c.account \in Accounts(st)
    /\ Len(st.accounts[c.account].api_keys) < MaxApiKeys
    /\ \A i \in DOMAIN st.accounts[c.account].api_keys :
          st.accounts[c.account].api_keys[i].hash # c.hash

CreateApiKey(st, c) ==
    [st EXCEPT !.accounts[c.account].api_keys = Append(@, [hash |-> c.hash, active |-> TRUE]),
               !.index = @ \cup {[hash |-> c.hash, account |-> c.account]}]

(* api_key_hash_for_revocation: a revoked key may be revoked again. *)
CanRevokeApiKey(st, c) ==
    c.account \in Accounts(st) /\ c.id \in DOMAIN st.accounts[c.account].api_keys

RevokeApiKey(st, c) ==
    [st EXCEPT !.accounts[c.account].api_keys[c.id].active = FALSE,
               !.index = {k \in @ : k.hash # st.accounts[c.account].api_keys[c.id].hash}]

ApiKeys(st) ==
    UNION {{[hash |-> st.accounts[a].api_keys[i].hash, account |-> a] :
               i \in DOMAIN st.accounts[a].api_keys} : a \in Accounts(st)}
ActiveApiKeys(st) ==
    UNION {{[hash |-> st.accounts[a].api_keys[i].hash, account |-> a] :
               i \in {j \in DOMAIN st.accounts[a].api_keys : st.accounts[a].api_keys[j].active}} :
           a \in Accounts(st)}

(* Mutant: the tombstones of revoked keys are indexed too. *)
MutantIndexAll(st) == [st EXCEPT !.index = ApiKeys(st)]

(* rebuild_api_key_index *)
RebuildApiKeyIndex(st) == [st EXCEPT !.index = ActiveApiKeys(st)]

-----------------------------------------------------------------------------
(* Market makers' bundles.  The digest of an operation is the command. *)

Active(st, a) == {b \in st.bundles : b.account = a}
MmReceipt(st, a) == {r \in st.mm_receipts : r.account = a}

(* mm_lifecycle_retry: the latest operation only. *)
MmRetry(st, c) == {r.reply : r \in {x \in MmReceipt(st, c.account) : x.nonce = c.nonce /\ x.command = c}}
MmConflict(st, c) == \E r \in MmReceipt(st, c.account) : r.nonce = c.nonce /\ r.command # c

Targets(st, c, revision) ==
    \E b \in Active(st, c.account) : b.bundle = c.bundle /\ b.revision = revision

(* Mutant: the new quote is added and the replaced one stays. *)
MutantKeepQuote(st, row, bundles, reply) ==
    [st EXCEPT !.bundles = @ \cup bundles,
               !.accounts[row.command.account].last_nonce = row.command.nonce,
               !.next_order_id = IF bundles = {} THEN @ ELSE row.order_id + 1]

(* apply_mm_lifecycle_action_authorized and record_mm_lifecycle_receipt.  The
   row carries the order id that the live handler assigned. *)
MmApplied(st, row, bundles, reply) ==
    [st EXCEPT !.bundles = (@ \ Active(st, row.command.account)) \cup bundles,
               !.accounts[row.command.account].last_nonce = row.command.nonce,
               !.next_order_id = IF bundles = {} THEN @ ELSE row.order_id + 1,
               !.mm_receipts = (@ \ MmReceipt(st, row.command.account)) \cup
                   {[account |-> row.command.account, nonce |-> row.command.nonce,
                     command |-> row.command, reply |-> reply]}]

Quote(c, revision, order_id) ==
    [account |-> c.account, bundle |-> c.bundle, revision |-> revision, order_id |-> order_id]

-----------------------------------------------------------------------------
(* What a handler does *)

(* The reply to a command that is recognised as done; nothing is logged. *)
Existing(st, c) ==
    CASE c.op = "create_market"    -> ExistingMarket(st, c)
      [] c.op = "create_group"     -> ExistingGroup(st, c)
      [] c.op = "register_feed"    -> FeedOf(st, c.pubkey)
      [] c.op = "provision"        -> {r.account : r \in {x \in ReceiptFor(st, c) : x.request = c.request}}
      [] c.op = "mm_submit"        -> IF c.target = st.height + 1 THEN MmRetry(st, c) ELSE {}
      [] c.op \in {"mm_replace", "mm_cancel"} -> MmRetry(st, c)
      [] OTHER                     -> {}

(* The validation before the row is logged, for a command that is not a retry. *)
Admissible(st, c) ==
    CASE c.op = "create_market"    -> SameKey(st.markets, c) = {}
      [] c.op = "create_group"     -> CanCreateGroup(st, c)
      [] c.op = "extend_group"     -> CanExtend(st, c)
      [] c.op = "resolve"          -> Tradeable(st, c.market)
      [] c.op = "attest"           -> AttestationAccepted(st, c)
      [] c.op = "register_feed"    -> TRUE
      [] c.op = "install_template" -> [name |-> c.name, feed |-> c.feed] \notin st.templates
      [] c.op = "provision"        -> ReceiptFor(st, c) = {}
      [] c.op = "public_account"   -> st.public < PublicCapacity /\ ~Registered(st, c.pubkey)
      [] c.op = "create_account"   -> c.pubkey = NoKey \/ ~Registered(st, c.pubkey)
      [] c.op = "fund"             -> c.account \in Accounts(st)
      [] c.op = "profile"          -> Signed(st, c) /\ FreshNonce(st, c)
      [] c.op = "api_create"       -> Signed(st, c) /\ CanCreateApiKey(st, c) /\ FreshNonce(st, c)
      [] c.op = "api_revoke"       -> Signed(st, c) /\ CanRevokeApiKey(st, c) /\ FreshNonce(st, c)
      [] c.op = "first_key"        -> CanRegisterFirst(st, c)
      [] c.op = "register_key"     -> KeyOpSigned(st, c) /\ CanRegisterAuthorized(st, c)
      [] c.op = "revoke_key"       -> KeyOpSigned(st, c) /\ CanRevoke(st, c)
      [] c.op = "mm_submit"        -> /\ c.target = st.height + 1 /\ ~MmConflict(st, c)
                                      /\ Active(st, c.account) = {} /\ FreshNonce(st, c)
      [] c.op = "mm_replace"       -> /\ ~MmConflict(st, c) /\ Targets(st, c, c.expected)
                                      /\ FreshNonce(st, c) /\ c.target = st.height + 1
      [] c.op = "mm_cancel"        -> /\ ~MmConflict(st, c) /\ Targets(st, c, c.expected)
                                      /\ FreshNonce(st, c)

(* A row: the command and what the handler allocated. *)
Row(st, c) == [command |-> c, order_id |-> st.next_order_id,
               account |-> Len(st.accounts) + 1, index |-> st.public]

(* The rows a handler appends, in order: three handlers spend the nonce in a
   row of its own first. *)
Rows(st, c) ==
    IF c.op \in {"profile", "api_create", "api_revoke"}
      THEN <<Row(st, [op |-> "nonce", account |-> c.account, nonce |-> c.nonce]), Row(st, c)>>
      ELSE <<Row(st, c)>>

(* The checks that applying a row repeats, live and at replay. *)
Applicable(st, row) ==
    LET c == row.command
    IN  CASE c.op = "create_market"  -> SameKey(st.markets, c) = {} \/ ExistingMarket(st, c) # {}
          [] c.op = "create_group"   -> CanCreateGroup(st, c) \/ ExistingGroup(st, c) # {}
          [] c.op = "extend_group"   -> CanExtend(st, c)
          [] c.op = "resolve"        -> Tradeable(st, c.market)
          [] c.op = "attest"         -> AttestationAccepted(st, c)
          [] c.op = "provision"      -> ReceiptFor(st, c) = {} /\ row.account = Len(st.accounts) + 1
          [] c.op = "public_account" -> row.index = st.public /\ ~Registered(st, c.pubkey)
          [] c.op = "create_account" -> c.pubkey = NoKey \/ ~Registered(st, c.pubkey)
          [] c.op \in {"fund", "profile"} -> c.account \in Accounts(st)
          [] c.op = "nonce"          -> FreshNonce(st, c)
          [] c.op = "api_create"     -> CanCreateApiKey(st, c)
          [] c.op = "api_revoke"     -> CanRevokeApiKey(st, c)
          [] c.op = "first_key"      -> CanRegisterFirst(st, c) /\ CreatedThisBlock(st, c.account)
          [] c.op = "register_key"   -> CanRegisterAuthorized(st, c)
          [] c.op = "revoke_key"     -> CanRevoke(st, c)
          [] c.op = "mm_submit"      -> Active(st, c.account) = {} /\ FreshNonce(st, c)
          [] c.op \in {"mm_replace", "mm_cancel"} ->
                Targets(st, c, c.expected) /\ FreshNonce(st, c)
          [] OTHER                   -> TRUE

(* What an applicable row does. *)
Apply(st, row) ==
    LET c == row.command
    IN  CASE c.op = "create_market"    -> IF ExistingMarket(st, c) # {} THEN st ELSE CreateMarket(st, c)
          [] c.op = "create_group"     -> IF ExistingGroup(st, c) # {} THEN st ELSE CreateGroup(st, c)
          [] c.op = "extend_group"     -> ExtendGroup(st, c)
          [] c.op \in {"resolve", "attest"} -> Settled(st, c.market, c.payout)
          [] c.op = "register_feed"    -> RegisterFeed(st, c)
          [] c.op = "install_template" -> InstallTemplate(st, c)
          [] c.op = "provision"        ->
                [NewAccount(st, NoKey) EXCEPT !.receipts =
                    @ \cup {[key |-> c.key, request |-> c.request, account |-> row.account]}]
          [] c.op = "public_account"   -> [NewAccount(st, c.pubkey) EXCEPT !.public = @ + 1]
          [] c.op = "create_account"   -> NewAccount(st, c.pubkey)
          [] c.op = "fund"             -> Fund(st, c)
          [] c.op = "nonce"            -> Advance(st, c)
          [] c.op = "profile"          -> SetProfile(st, c)
          [] c.op = "api_create"       -> CreateApiKey(st, c)
          [] c.op = "api_revoke"       -> RevokeApiKey(st, c)
          [] c.op = "first_key"        -> AddKey(st, c)
          [] c.op = "register_key"     -> RegisterKey(st, c)
          [] c.op = "revoke_key"       -> RevokeKey(st, c)
          [] c.op = "mm_submit"        -> MmApplied(st, row, {Quote(c, 0, row.order_id)}, row.order_id)
          [] c.op = "mm_replace"       ->
                MmApplied(st, row, {Quote(c, c.expected + 1, row.order_id)}, row.order_id)
          [] c.op = "mm_cancel"        -> MmApplied(st, row, {}, 0)

(* The reply to a command that was applied: the id it was given, if any. *)
Reply(after, row) ==
    CASE row.command.op = "create_market"  -> Len(after.markets)
      [] row.command.op = "create_group"   -> Len(after.groups)
      [] row.command.op = "register_feed"  -> Len(after.feeds)
      [] row.command.op \in {"provision", "public_account", "create_account"} -> row.account
      [] row.command.op = "api_create"     -> Len(after.accounts[row.command.account].api_keys)
      [] row.command.op \in {"mm_submit", "mm_replace"}     -> row.order_id
      [] OTHER                             -> 0

-----------------------------------------------------------------------------
(* Blocks and restarts *)

(* Mutant: receipts live in memory only and end with the block. *)
MutantForgetReceipts(st) ==
    [st EXCEPT !.height = @ + 1, !.events = {}, !.key_ops = 0, !.bundles = {}, !.mm_receipts = {}]

(* The state a block leaves: its events and bundles are consumed. *)
Sealed(st) == [st EXCEPT !.height = @ + 1, !.events = {}, !.key_ops = 0, !.bundles = {}]

(* Rows applied in order, up to the first that cannot be. *)
ApplyNext(r, row) ==
    IF r.ok /\ Applicable(r.st, row) THEN [ok |-> TRUE, st |-> Apply(r.st, row)]
    ELSE [ok |-> FALSE, st |-> r.st]
ApplyAll(st, rows) == FoldLeft(ApplyNext, [ok |-> TRUE, st |-> st], rows)

(* Mutant: creations are replayed before the other rows, as from a log of their own. *)
MutantReplayByKind(snapshot, log) ==
    LET creation(row) == row.command.op \in {"create_market", "create_group"}
        other(row) == ~creation(row)
    IN  ApplyAll(snapshot, SelectSeq(log, creation) \o SelectSeq(log, other))

(* Mutant: the restart takes the snapshot alone. *)
MutantForgetLog(snapshot, log) == [ok |-> TRUE, st |-> snapshot]

(* try_restore: a row that cannot be applied ends the attempt.  The index of
   API keys is not in the snapshot, and is built at the end. *)
Replay(snapshot, log) ==
    LET r == ApplyAll([snapshot EXCEPT !.index = {}], log)
    IN  [r EXCEPT !.st = RebuildApiKeyIndex(@)]

(* The markets named in the configuration that are missing, added at start. *)
SeedMarket(st, name) ==
    IF \E i \in 1..Len(st.markets) : st.markets[i].name = name THEN st
    ELSE CreateMarket(st, [name |-> name, key |-> NoKey, template |-> Admin])
Seed(st, names) == FoldLeft(SeedMarket, st, names)

(* verify_market_group_transition: the groups of the last block that the
   block's events do not explain. *)
GroupMismatches(before, after) ==
    {g \in GroupIds(before) :
        LET resolved == {e.id : e \in {x \in after.events : x.kind = "resolved"}}
            added == {e.arg : e \in {x \in after.events : x.kind = "extended" /\ x.id = g}}
            left == before.groups[g].markets \ resolved
        IN  IF g \notin GroupIds(after) THEN Cardinality(left) >= 2
            ELSE \/ after.groups[g].name # before.groups[g].name
                 \/ after.groups[g].key # before.groups[g].key
                 \/ after.groups[g].markets # left \cup added}
=============================================================================
