---------------------------- MODULE MCControlLog ----------------------------
(***************************************************************************)
(* ControlLog for TLC: six scenarios, one for each kind of command.        *)
(***************************************************************************)
EXTENDS ControlLogInv

Market(name, key, template) ==
    [op |-> "create_market", name |-> name, key |-> key, template |-> template]
Group(name, key, markets) ==
    [op |-> "create_group", name |-> name, key |-> key, markets |-> markets]
Extend(group, m) == [op |-> "extend_group", group |-> group, market |-> m]
ResolveMarket(m) == [op |-> "resolve", market |-> m, payout |-> 1]
Provision(key, request) == [op |-> "provision", key |-> key, request |-> request]
KeyOp(op, pubkey, signer, bound) ==
    [op |-> op, account |-> 1, pubkey |-> pubkey, signer |-> signer, bound |-> bound]

FourMarkets ==
    <<Market("w1", NoKey, Admin), Market("w2", NoKey, Admin), Market("w3", NoKey, Admin),
      Market("w4", NoKey, Admin), Group("g", "kg", {1, 2})>>

(* Two groups that grow, shrink and dissolve, and a market created meanwhile. *)
GroupScenario ==
    [start |-> FourMarkets,
     commands |-> {Group("h", "kh", {3, 4}), Group("h", "kh", {2, 3}), Extend(1, 5), ResolveMarket(2),
                   ResolveMarket(1), Market("n", "kn", Admin)}]

(* A market that either of two feeds may settle, as its template says. *)
FeedScenario ==
    [start |-> <<Market("w1", NoKey, "t"), [op |-> "register_feed", pubkey |-> "f1"]>>,
     commands |-> {[op |-> "register_feed", pubkey |-> "f2"], Market("n", "kn", "t"),
                   [op |-> "install_template", name |-> "t", feed |-> 1],
                   [op |-> "install_template", name |-> "t", feed |-> 2],
                   [op |-> "attest", market |-> 1, attested_market |-> 1, signer |-> "f1", payout |-> 0],
                   [op |-> "attest", market |-> 1, attested_market |-> 1, signer |-> "f2", payout |-> 1]}]

(* Accounts, one of them without a key in a sealed block, and their keys. *)
KeyScenario ==
    [start |-> <<Provision("p1", "r1")>>,
     commands |-> {Provision("p2", "r2"), Provision("p2", "r3"),
                   [op |-> "first_key", account |-> 1, pubkey |-> "k0"],
                   [op |-> "first_key", account |-> 2, pubkey |-> "k1"],
                   [op |-> "public_account", pubkey |-> "k1"],
                   [op |-> "create_account", pubkey |-> "k1"]}]

(* Key operations of one account, signed by either key at any point. *)
RotationScenario ==
    [start |-> <<[op |-> "public_account", pubkey |-> "k1"]>>,
     commands |-> {KeyOp(op, k, s, b) : op \in {"register_key", "revoke_key"},
                                        k \in {"k1", "k2"}, s \in {"k1", "k2"}, b \in 0..4}]

Mm(op, expected, nonce, target) ==
    [op |-> op, account |-> 1, bundle |-> "q", expected |-> expected, nonce |-> nonce, target |-> target]

(* Submit, replace and cancel with nonces that are reused, and funding. *)
MmScenario ==
    [start |-> <<[op |-> "public_account", pubkey |-> "k1"]>>,
     commands |-> {Mm("mm_submit", 0, n, t) : n \in 1..3, t \in 2..3}
                    \cup {Mm("mm_replace", 0, n, 2) : n \in 2..3}
                    \cup {Mm("mm_replace", 1, 3, 2), Mm("mm_cancel", 0, 2, 0), Mm("mm_cancel", 1, 3, 0),
                          [op |-> "fund", account |-> 1, amount |-> 1]}]

ApiKey(op, hash, id, nonce) ==
    [op |-> op, account |-> 1, hash |-> hash, id |-> id, nonce |-> nonce, signer |-> "k1"]

(* Two API keys, made and revoked under nonces that are reused. *)
ApiKeyScenario ==
    [start |-> <<[op |-> "create_account", pubkey |-> "k1"], ApiKey("api_create", "h1", 0, 1),
                 [op |-> "nonce", account |-> 1, nonce |-> 1]>>,
     commands |-> {ApiKey("api_revoke", "", 1, n) : n \in 2..3}
                    \cup {ApiKey("api_create", "h2", 0, 2), ApiKey("api_revoke", "", 2, 3),
                          [op |-> "profile", account |-> 1, profile |-> "p", nonce |-> 3, signer |-> "k1"]}]

Scenarios == {GroupScenario, FeedScenario, KeyScenario, RotationScenario, MmScenario, ApiKeyScenario}
NewSeed == <<"s">>
=============================================================================
