--------------------------- MODULE ControlLogInv ---------------------------
(***************************************************************************)
(* What the proofs about ControlLog assume of its scenarios, and the       *)
(* inductive invariant they use.                                           *)
(***************************************************************************)
EXTENDS ControlLog

-----------------------------------------------------------------------------
(* The scenarios *)

(* The kinds of commands clients send. *)
Ops == {"create_market", "create_group", "extend_group", "resolve", "attest", "register_feed",
        "install_template", "provision", "public_account", "create_account", "fund", "profile",
        "api_create", "api_revoke", "first_key", "register_key", "revoke_key", "mm_submit",
        "mm_replace", "mm_cancel"}

Commands == UNION {s.commands \cup Range(s.start) : s \in Menus}

(* The commands that carry a nonce. *)
NonceOps == {"profile", "api_create", "api_revoke", "nonce", "mm_submit", "mm_replace", "mm_cancel"}

(* Scenarios are made of commands, a configuration lists names, and the hash of
   an API key, which the server draws at random, belongs to one account. *)
ASSUME MenusAssumption ==
    /\ Seeds \in Seq(STRING)
    /\ \A s \in Menus : /\ s.start \in Seq(Commands)
                        /\ \A c \in s.commands : c.op \in Ops
                        /\ \A c \in Range(s.start) : c.op \in Ops \cup {"nonce"}
    /\ \A c \in Commands : /\ c.op \in NonceOps => c.nonce \in Nat
                           /\ c.op = "create_group" => IsFiniteSet(c.markets)
    /\ \A c, d \in Commands : (c.op = "api_create" /\ d.op = "api_create" /\ c.hash = d.hash)
                                => c.account = d.account

-----------------------------------------------------------------------------
(* Well-formed states of the sequencer *)

IsSequence(s) == s \in Seq(Range(s))

AccountOK(account) ==
    /\ DOMAIN account = {"last_nonce", "chain", "balance", "profile", "api_keys"}
    /\ account.chain \in Nat /\ account.last_nonce \in Nat
    /\ IsSequence(account.api_keys)
    /\ \A i \in 1..Len(account.api_keys) : DOMAIN account.api_keys[i] = {"hash", "active"}

GroupOK(group) == DOMAIN group = {"name", "key", "markets"} /\ IsFiniteSet(group.markets)

Shape(st) ==
    /\ DOMAIN st = DOMAIN EmptyState
    /\ IsSequence(st.markets) /\ IsSequence(st.groups) /\ IsSequence(st.feeds)
    /\ IsSequence(st.accounts)
    /\ \A g \in GroupIds(st) : GroupOK(st.groups[g])
    /\ \A a \in Accounts(st) : AccountOK(st.accounts[a])
    /\ \A k \in st.keys : k.account \in Accounts(st)

(* An API key has its own hash, which is the account's. *)
HashesOwned(st) ==
    \A a \in Accounts(st) : \A i \in 1..Len(st.accounts[a].api_keys) :
        /\ \A c \in Commands :
              c.op = "api_create" /\ c.hash = st.accounts[a].api_keys[i].hash => c.account = a
        /\ \A b \in Accounts(st) : \A j \in 1..Len(st.accounts[b].api_keys) :
              st.accounts[b].api_keys[j].hash = st.accounts[a].api_keys[i].hash => a = b /\ i = j

(* No market is in two groups, and no resolved market in any. *)
GroupsOK(st) ==
    /\ \A g \in GroupIds(st) : st.groups[g].markets \cap Resolved(st) = {}
    /\ \A g, h \in GroupIds(st) : st.groups[g].markets \cap st.groups[h].markets # {} => g = h

(* A creation key names one market, group or account; an account has one
   receipt of a market maker's operation. *)
KeyedOnce(st) ==
    /\ \A i, j \in 1..Len(st.markets) :
          st.markets[i].key = st.markets[j].key /\ st.markets[i].key # NoKey => i = j
    /\ \A g, h \in 1..Len(st.groups) :
          st.groups[g].key = st.groups[h].key /\ st.groups[g].key # NoKey => g = h
    /\ \A r, q \in st.receipts : r.key = q.key => r = q
    /\ \A r \in st.receipts : r.account \in Accounts(st)
    /\ \A r, q \in st.mm_receipts : r.account = q.account => r = q

(* A market maker's receipt is not newer than its account's nonce. *)
ReceiptsOK(st) ==
    \A r \in st.mm_receipts : /\ r.account \in Accounts(st) /\ r.nonce \in Nat
                              /\ st.accounts[r.account].last_nonce >= r.nonce

IsRecord(st) == st = [f \in DOMAIN st |-> st[f]]

StateOK(st) ==
    Shape(st) /\ HashesOwned(st) /\ GroupsOK(st) /\ KeyedOnce(st) /\ ReceiptsOK(st)

IndexOK(st) == st.index = ActiveApiKeys(st)

(* A row of the log names a command that some client sent, or spends its nonce. *)
RowOK(row) ==
    /\ row.command.op \in Ops \cup {"nonce"}
    /\ row.command \in Commands \/ row.command.op = "nonce"
    /\ row.command.op \in NonceOps => row.command.nonce \in Nat

RowsOK(rows) == IsSequence(rows) /\ \A i \in 1..Len(rows) : RowOK(rows[i])

(* t is s and what happened since in the same block. *)
Since(s, t) ==
    /\ t.height = s.height
    /\ \A a \in Accounts(t) \ Accounts(s) : \E e \in t.events : e.kind = "created" /\ e.id = a

-----------------------------------------------------------------------------
(* What an answer promises of the states after it *)

AckOK(a) ==
    /\ a.command \in Commands /\ a.command.op \in Ops
    /\ a.command.op = "create_group" => a.reply \in Nat

MarketHolds(c, reply, st) ==
    /\ reply \in 1..Len(st.markets)
    /\ st.markets[reply].name = c.name /\ st.markets[reply].key = c.key
    /\ st.markets[reply].template = c.template

(* The group keeps the markets it was created with, under a smaller number
   perhaps, until one of them is resolved. *)
GroupHolds(c, reply, st) ==
    c.key # NoKey /\ Cardinality(c.markets) > 1 =>
        \/ c.markets \cap Resolved(st) # {}
        \/ \E g \in GroupIds(st) : /\ g <= reply /\ st.groups[g].key = c.key
                                   /\ c.markets \subseteq st.groups[g].markets

PayoutHolds(c, st) ==
    /\ \E p \in st.payouts : p.market = c.market
    /\ \A p \in st.payouts : p.market = c.market => p.payout = c.payout

FeedHolds(c, reply, st) == reply \in 1..Len(st.feeds) /\ st.feeds[reply] = c.pubkey

ReceiptHolds(c, reply, st) ==
    \E r \in st.receipts : r.key = c.key /\ r.request = c.request /\ r.account = reply

ApiKeyHolds(c, reply, st) ==
    /\ c.account \in Accounts(st) /\ reply \in 1..Len(st.accounts[c.account].api_keys)
    /\ st.accounts[c.account].api_keys[reply].hash = c.hash

ApiKeyEnded(c, st) ==
    /\ c.account \in Accounts(st) /\ c.id \in 1..Len(st.accounts[c.account].api_keys)
    /\ ~st.accounts[c.account].api_keys[c.id].active

(* The receipt is there until the account spends a later nonce. *)
MmHolds(c, reply, st) ==
    /\ c.account \in Accounts(st)
    /\ st.accounts[c.account].last_nonce >= c.nonce
    /\ \/ st.accounts[c.account].last_nonce > c.nonce
       \/ \E r \in st.mm_receipts : /\ r.account = c.account /\ r.nonce = c.nonce
                                     /\ r.command = c /\ r.reply = reply

Holds(c, reply, st) ==
    /\ c.op = "create_market" => MarketHolds(c, reply, st)
    /\ c.op = "create_group" => GroupHolds(c, reply, st)
    /\ c.op \in {"resolve", "attest"} => PayoutHolds(c, st)
    /\ c.op = "register_feed" => FeedHolds(c, reply, st)
    /\ c.op \in {"provision", "public_account", "create_account"} => reply \in Accounts(st)
    /\ c.op = "provision" => ReceiptHolds(c, reply, st)
    /\ c.op = "api_create" => ApiKeyHolds(c, reply, st)
    /\ c.op = "api_revoke" => ApiKeyEnded(c, st)
    /\ c.op \in {"mm_replace", "mm_cancel"} => MmHolds(c, reply, st)

-----------------------------------------------------------------------------
(* What a block's events say of its groups *)

Added(st, g) == {e.arg : e \in {x \in st.events : x.kind = "extended" /\ x.id = g}}
ResolvedNow(st) == {e.id : e \in {x \in st.events : x.kind = "resolved"}}

(* The groups of block b that are still whole are where they were, with the
   markets that the events since say. *)
Tracks(b, st) ==
    /\ Resolved(st) = Resolved(b) \cup ResolvedNow(st)
    /\ Dissolved(b, st) = {} => \A g \in GroupIds(b) :
          /\ g \in GroupIds(st)
          /\ st.groups[g].name = b.groups[g].name /\ st.groups[g].key = b.groups[g].key
          /\ st.groups[g].markets = (b.groups[g].markets \cup Added(st, g)) \ Resolved(st)

-----------------------------------------------------------------------------
(* The inductive invariant *)

Fields == {"height", "markets", "payouts", "groups", "feeds", "templates", "accounts", "keys",
           "index", "receipts", "public", "bundles", "mm_receipts", "next_order_id", "events",
           "key_ops"}

(* s and t differ in the index of API keys at most. *)
Agree(s, t) == DOMAIN s = Fields /\ DOMAIN t = Fields /\ \A f \in Fields \ {"index"} : s[f] = t[f]

ClientsOK ==
    /\ menu \subseteq Commands /\ \A c \in menu : c.op \in Ops
    /\ \A r \in requests : r.command \in menu

StatesOK ==
    /\ IsRecord(snapshot) /\ StateOK(snapshot) /\ RowsOK(log)
    /\ snapshot.events = {} /\ snapshot.bundles = {}
    /\ mode = "up" => /\ IsRecord(live) /\ StateOK(live) /\ IndexOK(live)
                      /\ Since(snapshot, live) /\ Tracks(snapshot, live)

(* What the log replays to, before the index is built. *)
Replayed == ApplyAll([snapshot EXCEPT !.index = {}], log)

(* A log that replays at all gives the live state, and one without a poisoned
   row does. *)
ReplayOK ==
    mode = "up" /\ unlogged = "none" =>
        /\ Replayed.ok => Agree(Replayed.st, live)
        /\ ~Poisoned => Replayed.ok

ControlInv == ClientsOK /\ StatesOK /\ ReplayOK

(* Answers hold of the live state, and of the state a restart will get, as long
   as no seed market was lost with a crash. *)
AcksInv ==
    /\ unlogged \in {"none", "live", "lost"} /\ (mode = "down" => unlogged # "live")
    /\ \A a \in acked : AckOK(a)
    /\ mode = "up" /\ unlogged # "lost" => \A a \in acked : Holds(a.command, a.reply, live)
    /\ mode = "down" /\ unlogged # "lost" /\ Replayed.ok =>
          \A a \in acked : Holds(a.command, a.reply, Replayed.st)

(* The accounts of s and t have the same API keys, and had as many key operations. *)
SameChains(s, t) ==
    /\ Accounts(s) = Accounts(t)
    /\ \A a \in Accounts(s) : /\ s.accounts[a].chain = t.accounts[a].chain
                              /\ s.accounts[a].api_keys = t.accounts[a].api_keys

(* The revocations that were answered came before this state. *)
RevokedBefore(st) ==
    \A a \in acked : a.command.op = "revoke_key" =>
        /\ a.command.account \in Accounts(st) /\ a.command.bound \in Nat
        /\ st.accounts[a.command.account].chain > a.command.bound

(* Key operations are never lost with a crash, not even when seed markets are. *)
ChainsInv ==
    /\ mode = "up" => RevokedBefore(live)
    /\ mode = "up" /\ Replayed.ok => SameChains(Replayed.st, live)
    /\ mode = "down" /\ Replayed.ok => RevokedBefore(Replayed.st)

-----------------------------------------------------------------------------
(* The API's copy of the index, here o, while requests q are under way and the
   hashes d are in doubt *)

At(keys, h) == {k \in keys : k.hash = h}

RequestOK(r, st) ==
    /\ DOMAIN r = {"command", "hash", "found", "stage"}
    /\ r.stage \in {"read", "sent", "done", "failed"}
    /\ \A k \in r.found : k.hash = r.hash
    /\ \/ r.command.op = "api_create" /\ r.hash = r.command.hash /\ r.found = {}
       \/ /\ r.command.op = "api_revoke" /\ r.command.account \in Accounts(st)
          /\ r.command.id \in 1..Len(st.accounts[r.command.account].api_keys)
          /\ r.hash = st.accounts[r.command.account].api_keys[r.command.id].hash

(* How far the copy is ahead of the index, or behind it, at the request's stage. *)
Pending(r, st, o) ==
    LET mine == At(o, r.hash)
        real == At(ActiveApiKeys(st), r.hash)
    IN  /\ r.command.op = "api_create" =>
              real = IF r.stage # "done" THEN mine
                     ELSE mine \cup {[hash |-> r.hash, account |-> r.command.account]}
        /\ r.command.op = "api_revoke" =>
              /\ mine = IF r.stage = "read" THEN real ELSE {}
              /\ real = IF r.stage = "done" THEN {} ELSE r.found

ViewOf(st, o, q, d) ==
    /\ \A r \in q : RequestOK(r, st)
    /\ \A r, p \in q : r.hash = p.hash /\ r.hash \notin d => r = p
    /\ \A r \in q : r.hash \notin d => Pending(r, st, o)
    /\ \A k \in o \cup ActiveApiKeys(st) :
          k.hash \notin d /\ (\A r \in q : r.hash # k.hash) => k \in o \cap ActiveApiKeys(st)

ViewInv ==
    /\ mode = "up" => ViewOf(live, owners, requests, doubtful)
    /\ mode = "down" /\ Replayed.ok => ViewOf(Replayed.st, owners, requests, doubtful)
============================================================================
