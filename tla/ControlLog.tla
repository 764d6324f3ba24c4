---------------------------- MODULE ControlLog ----------------------------
(***************************************************************************)
(* The control plane behind its log: clients send the commands of          *)
(* ControlPlane, and send them again when no answer came; the process dies *)
(* at any point and restores itself from the last block and the rows       *)
(* logged since.  Read API keys are checked in the API's own copy of the   *)
(* index, which outlives the actor but not the process.                    *)
(***************************************************************************)
EXTENDS ControlPlane

CONSTANTS Menus,        \* scenarios: the commands before the first block, and after it
          Seeds,        \* names a new configuration may list as seed_markets
          MaxLog,       \* bound on the rows between two blocks
          MaxHeight,    \* bound on blocks
          MaxCrashes,   \* bound on crashes
          MaxRequests   \* bound on API-key requests in flight

ASSUME ControlLogAssumption ==
    MaxLog \in Nat /\ MaxHeight \in Nat /\ MaxCrashes \in Nat /\ MaxRequests \in Nat

VARIABLES menu,       \* the commands of the scenario
          live,       \* the sequencer's state
          snapshot,   \* the state of the last committed block
          log,        \* the rows appended since
          mode,       \* "up", "down", or "refused" by a row that does not replay
          acked,      \* commands that were answered with success, and the first answer
          unlogged,   \* seed markets: "none", in the "live" state only, or "lost"
          verdict,    \* what the verifier will say of the last block's groups
          crashes,
          owners,     \* the API's copy of the API-key index: read_api_key_owners
          requests,   \* API-key requests under way in the API
          doubtful    \* hashes whose requests crossed, or died with the actor

viewVars == <<owners, requests, doubtful>>
vars == <<menu, live, snapshot, log, mode, acked, unlogged, verdict, crashes, viewVars>>

(* The first block, with the scenario's accounts and markets. *)
GenesisNext(st, c) == IF Applicable(st, Row(st, c)) THEN Apply(st, Row(st, c)) ELSE st
Genesis(commands) == Sealed(FoldLeft(GenesisNext, EmptyState, commands))

Init ==
    /\ \E s \in Menus : menu = s.commands /\ live = Genesis(s.start)
    /\ snapshot = live
    /\ log = <<>> /\ mode = "up" /\ acked = {} /\ unlogged = "none" /\ crashes = 0
    /\ owners = live.index /\ requests = {} /\ doubtful = {}
    /\ verdict = [mismatched |-> {}, dissolved |-> {}, transient |-> {}]

(* Groups of the last block that resolutions left with fewer than two of their
   markets, and markets that joined a group and were resolved in the same block.
   What joined a group meanwhile does not count: the group may have dissolved
   first, and the next one moved to its number. *)
Dissolved(before, after) ==
    {g \in GroupIds(before) : Cardinality(before.groups[g].markets \ Resolved(after)) < 2}
AddedAndResolved(st) == {e.arg : e \in {x \in st.events : x.kind = "extended"}} \cap Resolved(st)

Ack(c, reply) ==
    acked' = IF \E a \in acked : a.command = c THEN acked
             ELSE acked \cup {[command |-> c, reply |-> reply]}

Room(c) == mode = "up" /\ Len(log) + Len(Rows(live, c)) <= MaxLog

Submittable(c) == Room(c) /\ Existing(live, c) = {} /\ Admissible(live, c)

(* A handler: validate, append the row, apply it, answer.  When applying fails
   the row stays in the log and the client is told of an error. *)
Handle(c) ==
    /\ Submittable(c)
    /\ LET rows == Rows(live, c)
           r == ApplyAll(live, rows)
       IN  /\ log' = log \o rows
           /\ live' = r.st
           /\ IF r.ok THEN Ack(c, Reply(r.st, rows[Len(rows)])) ELSE UNCHANGED acked
    /\ UNCHANGED <<menu, snapshot, mode, unlogged, verdict, crashes>>

ApiKeyCommand(c) == c.op \in {"api_create", "api_revoke"}

Submit(c) == ~ApiKeyCommand(c) /\ Handle(c) /\ UNCHANGED viewVars

(* A command that is recognised as done is answered again. *)
Retry(c) ==
    /\ mode = "up"
    /\ \E reply \in Existing(live, c) : Ack(c, reply)
    /\ UNCHANGED <<menu, live, snapshot, log, mode, unlogged, verdict, crashes, viewVars>>

(* A block: what it does to orders is in Exchange. *)
SealBlock ==
    /\ mode = "up" /\ live.height < MaxHeight
    /\ live' = Sealed(live) /\ snapshot' = Sealed(live) /\ log' = <<>>
    /\ unlogged' = IF unlogged = "live" THEN "none" ELSE unlogged
    /\ verdict' = [mismatched |-> GroupMismatches(snapshot, live),
                   dissolved |-> Dissolved(snapshot, live),
                   transient |-> AddedAndResolved(live)]
    /\ UNCHANGED <<menu, mode, acked, crashes, viewVars>>

-----------------------------------------------------------------------------
(* Requests for API keys, in the API.  A revocation looks the key up, takes it
   out of the API's copy, asks the actor, and puts it back on an error; a
   creation is entered once the actor has answered. *)

HashOf(c) == IF c.op = "api_create" THEN c.hash ELSE live.accounts[c.account].api_keys[c.id].hash

BeginRequest(c) ==
    LET found == IF c.op = "api_create" THEN {}
                 ELSE {k \in ActiveApiKeys(live) : k.hash = HashOf(c)}
    IN  /\ mode = "up" /\ ApiKeyCommand(c) /\ Cardinality(requests) < MaxRequests
        /\ c.op = "api_create" \/ CanRevokeApiKey(live, c)
        /\ ~\E a \in acked : a.command = c   \* a bound: what was answered is not sent again
        /\ requests' = requests \cup
              {[command |-> c, hash |-> HashOf(c), found |-> found, stage |-> "read"]}
        /\ doubtful' = doubtful \cup {r.hash : r \in {q \in requests : q.hash = HashOf(c)}}
        /\ UNCHANGED <<menu, live, snapshot, log, mode, acked, unlogged, verdict, crashes, owners>>

Stage(r, stage) == requests' = (requests \ {r}) \cup {[r EXCEPT !.stage = stage]}

SendRequest(r) ==
    /\ r.stage = "read"
    /\ owners' = owners \ r.found
    /\ Stage(r, IF mode = "up" THEN "sent" ELSE "failed")
    /\ UNCHANGED <<menu, live, snapshot, log, mode, acked, unlogged, verdict, crashes, doubtful>>

(* The actor handles the request, or refuses it. *)
HandleRequest(r) ==
    /\ r.stage = "sent" /\ Room(r.command)
    /\ \/ Handle(r.command) /\ Stage(r, "done")
       \/ /\ ~Admissible(live, r.command) /\ Stage(r, "failed")
          /\ UNCHANGED <<menu, live, snapshot, log, mode, acked, unlogged, verdict, crashes>>
    /\ UNCHANGED <<owners, doubtful>>

EndRequest(r) ==
    /\ r.stage \in {"done", "failed"}
    /\ owners' = owners \cup
          CASE r.stage = "failed" -> r.found
            [] r.command.op = "api_create" /\ r.stage = "done" ->
                  {[hash |-> r.hash, account |-> r.command.account]}
            [] OTHER -> {}
    /\ requests' = requests \ {r}
    /\ UNCHANGED <<menu, live, snapshot, log, mode, acked, unlogged, verdict, crashes, doubtful>>

-----------------------------------------------------------------------------
(* Crashes and restarts *)

(* Requests that wait for the actor get an error. *)
Down ==
    /\ mode = "up" /\ crashes < MaxCrashes
    /\ crashes' = crashes + 1 /\ mode' = "down"
    /\ unlogged' = IF unlogged = "live" THEN "lost" ELSE unlogged
    /\ live' = EmptyState
    /\ requests' = {IF r.stage = "sent" THEN [r EXCEPT !.stage = "failed"] ELSE r : r \in requests}
    /\ doubtful' = doubtful \cup {r.hash : r \in {q \in requests : q.stage = "sent"}}
    /\ UNCHANGED <<menu, snapshot, acked, verdict, owners>>

(* The actor dies between two commands, alone or with its process. *)
Crash == Down /\ UNCHANGED log

(* It dies after an append and before the answer. *)
CrashAfterAppend(c) ==
    /\ Submittable(c) /\ Down
    /\ ApiKeyCommand(c) => \E r \in requests : r.command = c /\ r.stage = "sent"
    /\ \E n \in 1..Len(Rows(live, c)) : log' = log \o SubSeq(Rows(live, c), 1, n)

(* try_restore, then the seed markets of the configuration. *)
RestoreWith(seeds) ==
    LET r == Replay(snapshot, log)
    IN  /\ mode = "down"
        /\ mode' = IF r.ok THEN "up" ELSE "refused"
        /\ live' = IF r.ok THEN Seed(r.st, seeds) ELSE live
        /\ unlogged' = IF r.ok /\ Seed(r.st, seeds) # r.st /\ unlogged # "lost" THEN "live"
                       ELSE unlogged
        /\ UNCHANGED <<menu, snapshot, log, acked, verdict, crashes>>

(* The supervisor's restart of the actor: the API lives on. *)
SupervisedRestart == RestoreWith(<<>>) /\ UNCHANGED viewVars

(* A new process: initialize_read_models copies the index. *)
ProcessStart(seeds) ==
    /\ RestoreWith(seeds)
    /\ owners' = live'.index /\ requests' = {} /\ doubtful' = {}

Next ==
    \/ \E c \in menu : Submit(c) \/ Retry(c) \/ CrashAfterAppend(c)
    \/ SealBlock
    \/ Crash
    \/ \E c \in menu : BeginRequest(c)
    \/ \E r \in requests : SendRequest(r) \/ HandleRequest(r) \/ EndRequest(r)
    \/ SupervisedRestart
    \/ \E seeds \in {<<>>, Seeds} : ProcessStart(seeds)

Spec == Init /\ [][Next]_vars

-----------------------------------------------------------------------------
(* Properties *)

(* Rows that the first-key handler logs and then cannot apply: the account is
   older than the block. *)
Poisoned ==
    \E i \in 1..Len(log) : /\ log[i].command.op = "first_key"
                           /\ log[i].command.account \in Accounts(snapshot)
                           /\ snapshot.height # 0

(* The last block and the log always give back the live state: ids, groups,
   keys, receipts and order ids.  Two things do escape the log, first-key rows
   that cannot be applied, and seed markets. *)
ReplayExact ==
    (mode = "up" /\ unlogged = "none" /\ ~Poisoned)
        => Replay(snapshot, log) = [ok |-> TRUE, st |-> live]

(* Every row in the log can be replayed: the handlers append only what passed
   "the same preflight" that applying invokes. *)
LogReplays == mode # "refused"

(* What the client was told holds after any number of restarts: the market, the
   feed, the account and the API key under the id it got, the market's payout,
   and the end of a revoked API key. *)
AckedStable ==
    (mode = "up" /\ unlogged # "lost") => \A a \in acked :
        CASE a.command.op = "create_market" ->
                a.reply <= Len(live.markets) /\ live.markets[a.reply].name = a.command.name
          [] a.command.op \in {"resolve", "attest"} ->
                {p.payout : p \in {q \in live.payouts : q.market = a.command.market}}
                    = {a.command.payout}
          [] a.command.op = "register_feed" ->
                a.reply <= Len(live.feeds) /\ live.feeds[a.reply] = a.command.pubkey
          [] a.command.op \in {"provision", "public_account", "create_account"} ->
                a.reply \in Accounts(live)
          [] a.command.op = "api_create" ->
                live.accounts[a.command.account].api_keys[a.reply].hash = a.command.hash
          [] a.command.op = "api_revoke" ->
                ~live.accounts[a.command.account].api_keys[a.command.id].active
          [] OTHER -> TRUE

(* A keyed command that was answered is recognised ever after, across blocks
   and restarts, and answered with the same id; a market maker's, while it is
   the latest of its account.  The id of a group may only move down; a group
   created with one market may be dissolved and created again. *)
RetryStable ==
    (mode = "up" /\ unlogged # "lost") => \A a \in acked :
        CASE a.command.op = "create_market" /\ a.command.key # NoKey ->
                Existing(live, a.command) = {a.reply}
          [] a.command.op = "provision" -> Existing(live, a.command) = {a.reply}
          [] a.command.op = "create_group" /\ Cardinality(a.command.markets) > 1 ->
                Existing(live, a.command) \subseteq 1..a.reply
          [] a.command.op \in {"mm_replace", "mm_cancel"} ->
                \/ Existing(live, a.command) = {a.reply}
                \/ live.accounts[a.command.account].last_nonce > a.command.nonce
          [] OTHER -> TRUE

(* A market is in one group at most, and only while it is unresolved: what the
   complete-set rule of a group counts on, after any restart. *)
OneGroupEach ==
    mode = "up" => /\ \A m \in 1..Len(live.markets) : Cardinality(GroupsWith(live, m)) <= 1
                   /\ \A g \in GroupIds(live) : live.groups[g].markets \cap Resolved(live) = {}

(* A revoked key is registered again only by an operation signed after the
   revocation: an old signed registration cannot be sent again. *)
RevokedStaysRevoked ==
    [][\A i \in DOMAIN log' \ DOMAIN log : \A a \in acked :
         (log'[i].command.op = "register_key" /\ a.command.op = "revoke_key"
            /\ a.command.account = log'[i].command.account /\ a.command.pubkey = log'[i].command.pubkey)
         => log'[i].command.bound > a.command.bound]_vars

(* A block's events explain its groups to the verifier, which numbers groups by
   position, unless one may have dissolved or a market joined and was resolved
   in the same block. *)
GroupsProvable ==
    verdict.mismatched # {} => verdict.dissolved # {} \/ verdict.transient # {}

MmRows(a) ==
    {i \in 1..Len(log) : /\ log[i].command.op \in {"mm_submit", "mm_replace", "mm_cancel"}
                         /\ log[i].command.account = a}

(* An account quotes what its last operation since the block said, once, under
   the order id it was told; a crash and a retry change neither. *)
BundleMatchesIntent ==
    mode = "up" => \A a \in Accounts(live) :
        LET rows == MmRows(a)
            last == log[Max(rows)]
        IN  IF rows = {} \/ last.command.op = "mm_cancel" THEN Active(live, a) = {}
            ELSE {<<b.bundle, b.order_id>> : b \in Active(live, a)}
                    = {<<last.command.bundle, last.order_id>>}

(* The API accepts exactly the active API keys, though it changes its copy
   before the actor decides and after it answers: a revoked key is refused, a
   new one accepted, and a refused revocation undone.  Keys whose requests
   crossed, or were under way when the actor died, are in doubt until the
   process starts again. *)
ViewMatches ==
    mode = "up" => \A k \in owners \cup ActiveApiKeys(live) :
        \/ k \in owners \cap ActiveApiKeys(live)
        \/ k.hash \in doubtful
        \/ \E r \in requests : r.hash = k.hash
=============================================================================
