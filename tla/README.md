# TLA+ models of the tnode registry, its RPC layer and the Elysium queries

This directory holds TLA+ models of the code under `src/`. The models are checked with TLC.

- `spec.md` describes the tnode (masternode) subsystem: the registry, announcements and pings, the payment queue, payment votes and quorum, the sync gate, and the consensus hook.
- Of that subsystem, `src/` contains only:
  - the RPC layer that drives it (`src/rpc/rpctnode.cpp`);
  - a unit test of payment enforcement (`src/test/tnode_tests.cpp`);
  - the Elysium data-retrieval RPCs (`src/elysium/rpc.cpp`) and one of their tests;
  - Qt glue and a few headers.
- Code that is not under `src/` is modelled from `spec.md`. In `PROJECT.json` it is marked `spec_modelled`.

## 1. The system and how its parts interact

| Part | Where | State | Operations |
|---|---|---|---|
| Registry (`mnodeman`) | spec 3, 4.1; called from rpctnode.cpp | tnode records by collateral outpoint; seen-set of broadcasts | `UpdateTnodeList`, `CheckMnbAndUpdateTnodeList`, ping update, `CheckAndRemove` (prune), seen-set expiry |
| Announcement / heartbeat processors | spec 4.2, 4.3, 7 | none of their own | validate a broadcast or ping, penalize a bad signature, apply, relay |
| Sync gate (`tnodeSync`) | spec 4.6; tnode_tests.cpp:155-157, 216, 227-228 | current asset | `SwitchToNextAsset`, `Reset`, `IsBlockchainSynced`, `IsTnodeListSynced` |
| RPC `tnode start-*` | rpctnode.cpp:243-345 | per-call loop over `tnode.conf` | create a signed broadcast, apply it, relay it |
| RPC `tnodebroadcast` | rpctnode.cpp:603-855 | per-call loop over a decoded batch | `create-alias`/`create-all` (offline), `relay` (safe or fast) |
| RPC `tnode count/current/winner/list-conf`, `tnodelist` | rpctnode.cpp:130-208, 354-371, 447-600 | per-call reads; a `CTnode*` held between calls | read the registry in several separately locked calls |
| Payment selector | spec 4.4 | none of its own | the qualifier filter and height-seeded order, as `count` and `current`/`winner` use them |
| Quorum tracker, consensus hook | spec 4.5, 4.7; tnode_tests.cpp:132-259 | votes per height, confirmation latch | record a vote, collect a quorum behind the tip, `ValidateReward` |
| Elysium data RPCs | elysium/rpc.cpp | none of their own: they read Elysium state | fee queries, `listtransactions`, `gettradehistoryforaddress`, `listmints`, `listpendingmints`, balances, `listproperties`, `getactivecrowdsales`, `getgrants`, `getorderbook`, `getfeeshare`, `getfeedistribution(s)`, `getactivedexsells`, `getcrowdsale`, and others (read-only) |
| Elysium chain-tip readers | elysium/rpc.cpp:1719-1750, 2066-2081, 2297-2397 | none of their own: they read the tip and hash the Elysium state | `getcurrentconsensushash`, `getmetadexhash`, `getbalanceshash`, `getinfo`, `listblocktransactions`, each a sequence of separately locked reads beside blocks being connected and disconnected |
| Qt wallet view | qt/walletview.cpp | the page stack, the TecraCoin/Elysium tabs, the progress dialog | the page and tab slots, `focusElysiumTransaction`, `focusBitcoinHistoryTab`, `gotoSendCoinsPage`, `handlePaymentRequest`, `setClientModel`, `setWalletModel`, `showProgress` |

**How the parts interact.**
- Peers deliver broadcasts and pings to the message-handling thread. It validates each one and changes the registry under mnodeman's lock.
- The operator's RPC commands run on an RPC thread. They call the same registry operations:
  - `start-alias` and `start-all` call `UpdateTnodeList` directly, without the inbound checks;
  - `relay` calls `CheckMnbAndUpdateTnodeList` (safe) or `UpdateTnodeList` (fast).
- Each registry call is atomic. A command that loops over config entries or over a batch makes one call per entry. Gossip, new blocks, a clock tick and a sync-gate reset can happen between two entries.
- The sync gate guards `start-missing` and `start-disabled` (rpctnode.cpp:297-301).

**What makes this code hard.**
- Gossip duplicates, reorders and delays messages.
- Any peer can forge a message.
- The seen-set that suppresses re-relay is short-lived.
- The RPC layer has a fast path that skips validation.
- The relay loop is not atomic.
- The Elysium replies are built from several separately locked reads. They also convert numbers to text and order the text.

## 2. Modules

| Module | Models | Maps to |
|---|---|---|
| `TnodeMan` | one node's registry and its inbound gossip: records, seen-set, relay counts, forging peers, pruning | spec 3, 4.1-4.3, 7 (`spec_modelled`) |
| `TnodeSync` | the sync gate | spec 4.6, tnode_tests.cpp |
| `TnodeRpc` (EXTENDS both) | start-alias, start-all/missing/disabled, create-alias/all, relay (safe and fast), running beside gossip and the sync gate | rpctnode.cpp:91-129, 243-345, 603-855 |
| `TnodeQueries` (EXTENDS `TnodeMan`) | count, count all, current/winner, list-conf, tnodelist, running beside gossip | rpctnode.cpp:102-208, 354-371, 447-600 |
| `TnodeRegistry` | the abstract contract of the registry: records created only from verified broadcasts with a clean score, replaced only by strictly newer verified ones keeping the score, scores that never drop | spec 3, 4.1-4.2, 7 |
| `MC_TnodeMan`, `MC_TnodeRpc`, `MC_TnodeQueries` | model values and bounds for TLC | |
| `ElysiumFeeQueries` | rows of `elysium_getfeetrigger` and `elysium_getfeecache` | elysium/rpc.cpp:363-411, 484-536 |
| `ElysiumListTransactions` | `elysium_listtransactions` | elysium/rpc.cpp:1791-1871 |
| `ElysiumTradeHistory` | `elysium_gettradehistoryforaddress`: the count conversion and the newest-first loop | elysium/rpc.cpp:1499-1528 |
| `ElysiumMints` | `elysium_listmints`, `elysium_listpendingmints` and `SigmaMintToJson` | elysium/rpc.cpp:68-118, 1898-1973 |
| `ElysiumBalances` | `elysium_getbalance`, `elysium_getallbalancesforid`, `elysium_getallbalancesforaddress` and `BalanceToJSON` | elysium/rpc.cpp:192-220, 826-942 |
| `ElysiumProperties` | `elysium_listproperties` and `elysium_getactivecrowdsales` | elysium/rpc.cpp:1053-1081, 1254-1293 |
| `ElysiumGrants` | `elysium_getgrants`: the refusals and the issuances loop | elysium/rpc.cpp:1328-1375 |
| `ElysiumOrderBook` | `elysium_getorderbook` and the sort of `MetaDexObjectsToJSON` | elysium/rpc.cpp:177-190, 1412-1444 |
| `ElysiumFeeShare` | `elysium_getfeeshare` | elysium/rpc.cpp:435-480 |
| `ElysiumFeeDistributions` | `elysium_getfeedistribution` and `elysium_getfeedistributions` | elysium/rpc.cpp:248-358 |
| `ElysiumDexSells` | `elysium_getactivedexsells`: the seller and buyer recovered from the map keys, the address filter, the hash match of accepts to offers | elysium/rpc.cpp:1616-1697 |
| `ElysiumText` | strings as character codes: `strprintf("%d")` and `std::string` order, used by the DEx model's offer and accept keys | elysium/rpc.cpp:1628; the key format `spec_modelled` |
| `ElysiumChainReads` | the chain-tip readers as threads: each `cs_main` scope is one step, and the chain connects or disconnects a block between them | elysium/rpc.cpp:1719-1750, 2066-2081, 2297-2397; the chain itself `spec_modelled` |
| `WalletView` | the wallet view's pages, tabs, models and progress dialog | qt/walletview.cpp:53-621 |
| `ElysiumQueries` | all the Elysium query models above in one run: a state is one call and its inputs; for `chainreads` and `walletview` a state is a state of that dynamic model, and its steps are steps of the run | |
| `TnodePayments` (EXTENDS `TnodeSync`) | payment votes, the per-height quorum and its latch, collection behind the tip, and the consensus hook | spec 3, 4.5, 4.7 (`spec_modelled`) |
| `MC_TnodePayments` | 3 voters (one equivocating) and 2 payees as model values | |

**TnodeMan**

*State:*
- `now` and `height`: the clock and the chain tip;
- `utxo`: the collateral states;
- `mnodes`: the registry, a function on the outpoints it knows;
- `seenMnb`: `mapSeenTnodeBroadcast`;
- `netMnb` and `netMnp`: the messages ever delivered. A message stays deliverable, so it can arrive again, late and in any order.
- `relays`: relay counts per broadcast;
- `accepted` and `acceptedLog`: history variables used only by properties.

*Data abstraction:*
- A signature is a boolean "verifies".
- A protocol version is "meets the minimum" or not.
- A ping's block hash is the height it names.

*Actions:*
- `ProcessMnb` is the inbound broadcast pipeline (spec 4.2): seen, then signature (a bad one penalizes the claimed record), then collateral, freshness and protocol, then apply and relay.
- `ProcessMnp` handles a ping (spec 4.3).
- `Prune` and `ForgetSeen` model `CheckAndRemove`.
- The environment actions are `Tick`, `NewBlock`, `Mature`, `Spend`, `PeerAnnounce`, `PeerPing`, `PeerForgeMnb` and `PeerForgePing`.
- A peer's clock may run one tick beyond the tolerated skew. This makes the future-time check reachable.

**TnodeRpc**
- One command is in progress at a time. `rpcCmd`, `rpcTodo`, `nSuccessful` and `nFailed` hold its loop state.
- `StartBegin`, `StartStep` and `RpcEnd` are the start-all/missing/disabled handler split at its registry calls. `RelayBegin`, `RelayStep` and `RpcEnd` are the relay handler.
- `CheckSignature` comes first in each relay step. After it, the safe path runs the whole pipeline and the fast path applies and relays unconditionally. This is the code at rpctnode.cpp:828-833.
- `CTnodeBroadcast::Create` is not under `src/`. It is abstracted as follows: it may fail, it never succeeds for a spent collateral, and it signs with the current time.

**TnodeQueries**
- One read command is in progress at a time; gossip and the environment actions of `TnodeMan` interleave with its steps.
- Each mnodeman call is one atomic step. A command that makes several calls is several actions:
  - `count all` reads `nCount` first (`CountAllBegin`), then the three `strprintf` arguments in any order (`CountAllRead`), because C++ leaves the order of argument evaluation unspecified;
  - `current`/`winner` read the height under `cs_main` (`CurrentBegin`), select the payee (`CurrentSelect`), and read the reply through the returned pointer (`CurrentReply`);
  - `list-conf` calls `Find` for an entry (`ListConfFind`) and reads its status through the pointer (`ListConfStatus`);
  - `tnodelist` copies the records under the lock (`TnodeListBegin`) and formats the copy row by row (`TnodeListRow`).
- `qPtr` is the outpoint whose `CTnode*` the command holds between two calls.
- The payment queue is not under `src/`. It is the qualifier filter of spec 4.4 and a height-seeded tie-break (`TieBreak`). Last payments are not tracked.

**TnodePayments**
- `net` is the set of signed votes sent so far: gossip may deliver any of them, at any time, any number of times.
- `RecordVote` is spec 4.5's handler: a vote of a voter outside `qualifying` is discarded, a second vote of a voter for a height is refused (first writer wins), and a payee is confirmed once, when it first reaches `QuorumNum/QuorumDen` of the current qualifying count.
- `Disqualify` shrinks `qualifying` (ban, expiry, spent collateral) at any time between votes.
- `CollectQuorum` drops a height's votes and latch once it is more than `Retention` behind the tip.
- `ValidateReward` is the three-valued hook over `TnodeSync`'s gate.
- `firstLatch` is a history variable: the first payee ever confirmed for a height. Only `HookFollowsFirstLatch` reads it.

**TnodeRpc and TnodeRegistry**
- `Registry == INSTANCE TnodeRegistry WITH reg <- ...` maps each record of `mnodes` to its announcement time, score and signature verdict. A broadcast creating a record is `Announce`, a newer one replacing it is `Supersede`, a penalty is `Penalize`, a prune is `Retire`; pings, seen-set changes and relays stutter.
- `RpcImplementsRegistry` checks `Registry!RegSpec` in the `rpc` run, where gossip and every RPC write path (start-alias, the start loops, safe and fast relay) interleave.

**Elysium modules**
- These are pure algorithms. Their inputs are variables chosen in `Init`, and `Next` changes nothing.
- Each property compares the algorithm with a reference taken from the RPC's help text or from the intent of the code.
- Conversions are modelled by what they do. `strprintf("%d")` is a recursive decimal conversion, and `std::map<std::string,...>` orders keys byte by byte.

## 3. Runs

| Run | Config | Expect | What it shows |
|---|---|---|---|
| `replay_after_prune` | `MC_TnodeMan_replay.cfg` | violation of `RelayOnce` | A broadcast signed at t=1 arrives at t=3 and is accepted and relayed. It is pruned as unseen for too long, its seen entry expires, and the same broadcast is accepted and relayed again. Spec 4.1 asks for one relay per (identity, timestamp). |
| `forged_ban` | `MC_TnodeMan_forged_ban.cfg` | violation of `HonestNeverBanned` | Forged broadcasts or pings for an honest tnode's outpoint penalize that tnode until it is banned (spec 4.2 (1) read literally). |
| `rpc` | `MC_TnodeRpc.cfg` | pass | All RPC write paths run beside gossip, pings, pruning and sync resets, and the registry implements `TnodeRegistry` (`RpcImplementsRegistry`): no unsigned broadcast enters it, no older broadcast replaces a newer one, a replacement keeps the score, and no score drops. |
| `relay_batch_bailout` | `MC_TnodeRpc_bailout.cfg` | violation of `RelayBatchAllOrNothing` | The comment at rpctnode.cpp:818 promises to bail out if any signature is broken. The loop applies the good entries of a batch that holds a broken one. |
| `relay_unvalidated` | `MC_TnodeRpc_unvalidated.cfg` | violation of `RelayOnlyAccepted` | `relay ... fast` (rpctnode.cpp:832-833) relays an older broadcast that `UpdateTnodeList` did not apply. `start-alias` does the same for a same-second restart. |
| `queries` | `MC_TnodeQueries.cfg` | pass | With gossip (duplicated, reordered, late or forged) and every read command interleaved, the registry and the commands' loop state stay within their types (`QueryTypeOK`): in particular no score passes the ban threshold however many forged messages penalize it. The run is also the state space of the two violation runs below, with larger bounds. |
| `count_all_snapshot` | `MC_TnodeQueries_countall.cfg` | violation of `CountAllConsistent` | A broadcast and a ping processed between the reads of `tnode count all` make it report `Total: 0` with `Enabled: 1` (rpctnode.cpp:179). |
| `dangling_tnode` | `MC_TnodeQueries_dangling.cfg` | violation of `NoDanglingTnode` | `list-conf` gets a `CTnode*` from `Find`, the collateral is spent and the record pruned, and `GetStatus` is then called through the pointer (rpctnode.cpp:361). `current`/`winner` hold a pointer the same way. |
| `elysium_queries` | `ElysiumQueries.cfg` | pass | For every request and cache content, the fee-trigger and fee-cache rows are exactly those the help describes. `gettradehistoryforaddress` returns the newest populated trades, newest first, skipping none. `listmints` and `listpendingmints` list each wallet mint once between them, except spent mined mints, and a filter only narrows the listing. The two balance listings and `getbalance` agree on which balances are non-empty (`BalanceListingsAgree`). `listproperties` lists each found property once in id order and `getactivecrowdsales` exactly the crowdsales of listed properties (`PropertyListingsAgree`); `getgrants`' rows reconcile with the history (`IssuancesReconcile`); `getorderbook` for a pair narrows the one-property book (`OrderBookNarrows`); `getfeeshare` lists largest share first (`FeeShareLargestFirst`); `getactivedexsells`, with offers of properties 1 and 10, lists with each offer exactly the accepts of that offer transaction under their buyers (`AcceptsFollowTheirOffer`). With blocks connected and disconnected between every locked read, the three state-hash RPCs never crash and report a block number, block hash and state hash of one tip (`HashRepliesOneTip`, the question of the TODO at elysium/rpc.cpp:2297). |
| `count_limits` | `ElysiumQueries_count.cfg` | violation of `CountHonoured` | `listtransactions` with skip > 0 returns more than `count` entries: the cut is commented out (elysium/rpc.cpp:1856). `gettradehistoryforaddress` pushes a trade before it tests `processed >= count`, so count 0 returns one trade (elysium/rpc.cpp:1524). |
| `latch_after_collect` | `MC_TnodePayments.cfg` | violation of `HookFollowsFirstLatch` | A payee is confirmed for height 1; the tip moves two blocks past it and the quorum is collected; the second vote of the equivocating voter, for the other payee, creates the quorum afresh and, with the other voters disqualified, confirms that payee. The synced hook then accepts a block paying the second payee for the same height. Spec 3 (collection, lazy creation) and spec 8 (no later vote changes a confirmed payee) disagree. |
| `dex_two_digit` | `ElysiumDexSells.cfg` | violation of `DexSellsListed` | With an offer of property 10, `getactivedexsells` reports its seller as the key minus two characters, the address followed by `-` (elysium/rpc.cpp:1631), and an address filter skips the offer. |

Each property of a passing run has a mutant in `PROJECT.json`: a plausible bug in a mapped definition that the run catches. The mutants are:
- `IsNewer` read as "differs" (`RpcImplementsRegistry`);
- the score penalty without its cap (`RpcTypeOK`, `QueryTypeOK`);
- the fee-cache filter dropping explicitly requested empty entries;
- the trade-history loop keeping trades it could not populate;
- `listmints` keeping spent mints;
- `listmints` applying the property filter only together with a denomination;
- `BalanceToJSON` testing only the available balance;
- `listproperties`' test-ecosystem loop starting from 1;
- `getgrants` listing a revoke only when nothing was granted;
- `getorderbook` with a desired property not comparing the property for sale;
- `getfeeshare` walking the receivers from the smallest share;
- `getactivedexsells` matching an accept to an offer by its key instead of the offer's hash;
- a state-hash RPC without its own `LOCK(cs_main)`, so `GetHeight` and the hash read different tips (`HashRepliesOneTip`).

## 4. Bounds and why they are enough

**`MC_TnodeMan`**
- The model has 2 outpoints. One of them runs an outdated protocol.
- Time runs 1..3, the chain height runs 0..1, and the skew is 0.
- Windows:
  - ping window 1;
  - expiry 2;
  - retention 2 (1 in the replay run);
  - seen retention 1;
  - ban score 2, with a penalty of 1.
- Each message pool holds at most 2 messages.
- These bounds are enough for:
  - two broadcasts of one tnode at different times arriving in either order;
  - a forged message between them;
  - a record expiring and being pruned;
  - a seen entry expiring;
  - a second outpoint whose messages interleave.
- The `replay_after_prune` and `forged_ban` runs use these bounds.

**`MC_TnodeRpc`**
- One `tnode.conf` entry, time 1..2, height 0..1.
- Pools of at most 1 message each and at most 1 created broadcast.
- Relay batches of up to 2 broadcasts. This makes the relay loop a real loop that gossip can interleave.
- At most 1 relay of a broadcast. `start-alias` and fast relay make this count otherwise unbounded; a second relay of the same broadcast leaves the registry as it is (`UpdateTnodeList` of a broadcast already stored changes nothing), so the bound cuts no registry behaviour the refinement could tell apart.
- With a second entry the run grows past five minutes. The multi-entry loop is therefore exercised through the relay batch.
- The run reaches about 1.2 million distinct states in about 80 seconds.

**`MC_TnodeQueries`**
- The gossip bounds above, with 2 `tnode.conf` entries (`ConfOrder`) and each message pool holding at most 1 message.
- This is enough for a tnode to be announced, pinged, expired, spent and pruned between two reads of one command, and for the two outpoints to swap order in the tie-break between heights.
- The `queries` run reaches about 1.5 million distinct states in about 50 seconds. The two violation runs use time 1..2 and expiry and retention 1.

**Elysium modules**
- The fee model has up to 3 properties per ecosystem, with every cache content and every request. That is 1,245 inputs.
- The `listtransactions` model has wallets of up to 3 transactions in blocks 0..1, and count and skip in -1..2.
- The trade-history model has up to 4 trades, each populated or not, and count in -1..3. Count -1 stands for every negative count.
- The mint model has wallets of up to 3 mints over 2 properties and 2 denominations, each spent or not and mined or not, and every property database in which a property is unknown or has 1 denomination. So a mint can have an unknown property or an invalid denomination.
- The balance model has 2 addresses and 2 properties, every tally map over them (no tally, or a tally of the properties in either order), and each balance and reserve zero or non-zero.
- The property-listing model has up to 2 properties per ecosystem (the test ecosystem starting at 4), every found subset, up to 2 crowdsales and every availability of their transactions.
- The grants model has histories of up to 3 entries with granted and revoked amounts in 0..2, so an entry that both grants and revokes, and one that does neither, occur.
- The order-book model has 3 main and 1 test properties, a missing id, and offers at every subset of 2 blocks x 2 positions, so the sort crosses both keys.
- The fee-share model has 3 addresses, shares 1..2 (so ties broken by address), two ecosystems, every wallet subset and every address argument.
- The fee-distribution model has 2 ids over 2 properties, each with or without data, with any recipients, and any index per property, so an indexed id without data occurs.
- The DEx model has 2 sellers, properties {1, 10} (one single-digit and one two-digit id, so the seller-key cut at elysium/rpc.cpp:1631 is exercised), 3 transaction hashes (one more than two live offers need, so an accept of a replaced offer occurs), up to 2 accepts, every address filter and a height of 0 or 1. `AcceptsFollowTheirOffer` is about the buyers, which the code cuts correctly; the `dex_two_digit` run checks the sellers with 1 accept.
- The chain-reads model has forks {1, 2}, genesis on fork 1 and heights 0..1, and every argument (a missing property, an existing one, each height). One connect or disconnect between two locked reads, with the block replaced by one of another fork, is every race the three handlers can meet: a longer chain repeats it.
- The wallet-view model has every page, both Elysium and HD-seed settings, both tabs, the two address kinds of `gotoSendCoinsPage`, a progress dialog that starts null or uninitialised, and progress values 0, one between and 100 in any order after `setWalletModel`. It has no property (section 6); its steps are part of the run so that its actions are checked to be well-formed and reachable.
- The `elysium_queries` run reaches about 390,000 distinct states in about 20 seconds.

**`MC_TnodePayments`**
- 3 voters, one of them equivocating, 2 payees, one voted height, tip 0..3, retention 1, threshold 3/5.
- With 3 qualifying voters a payee needs 2 votes; after one disqualification, 2 of 2; after two, 1 of 1. So confirmation against a shrunken count, a tie between payees, and collection followed by re-delivery all happen.
- With retention 1 the height is collected once the tip reaches 3, so confirmation, collection and a late vote all fit below `MaxHeight`.
- TLC finds the violation after about 41,000 distinct states, in 15 steps.

## 5. Fairness

- No checked property is a liveness property, so no specification carries fairness.
- The scheduling model of spec 5 (one background task per duty, on a timer) would justify weak fairness of quorum collection, prune and seen-set expiry. A property that a collectable quorum is eventually collected under weak fairness of exactly that action would hold by the shape of the specification, so it is not checked. Message delivery is never fair.
- `TnodeRegistry` is a safety contract and carries no fairness: a registry need not create, replace or retire any record, so `RpcImplementsRegistry` is checked against `RpcSpec`, which has none either.

## 6. What is not modelled, and why

- **Payment selector** (spec 4.4) beyond what `count` and `current`/`winner` use.
- **The quorum tracker's bootstrap threshold** (an absolute minimum vote count) and the cross-check of votes against the selector's expected payee.
- **The other read-only tnode RPCs.** These are `winners`, `status`, `outputs`, `genkey` and `connect`. `winners` prints `GetRequiredPaymentsString` per height, a text neither under `src/` nor in `spec.md`. Its count comes from `atoi` unchecked: a count near `INT_MIN` overflows `nHeight - nLast` (rpctnode.cpp:435), which is recorded as a hazard without a run. The others touch only the wallet, the key generator or the connection manager.
- **`tnodebroadcast decode`.** It reports the signature check of each decoded broadcast and changes nothing.
- **`getactivedexsells`' height read before `cs_main`** (elysium/rpc.cpp:1624). It is outside the one-call-per-state model of `ElysiumDexSells`. The two-digit property id is the `dex_two_digit` run.
- **`getproperty`, `gettradehistoryforpair`, `gettransaction`, `getsto`, `gettrade`, `getactivations`, `getseedblocks`, `getpayload`, `setautocommit`, `elysiumrpc`.** Each is a lookup in a database not under `src/` and a format of what it finds; a model would be that database and its format. `gettradehistoryforpair` converts a negative count to a huge one (1564).
- **`start`, `debug`, `privatesend`, `getpoolinfo`.** These drive `activeTnode` and `darkSendPool`, which are neither under `src/` nor in `spec.md`.
- **The other Elysium RPCs.** They format state kept outside `src/`.
- **`getgrants`' late read.** It reads `getTotalTokens` after releasing `cs_main` (elysium/rpc.cpp:1342), so a grant processed in between makes the total disagree with the rows. `ElysiumGrants` reads both in one state; this is recorded as a hazard.
- **`getcrowdsale`.** A crowdsale can close between `isCrowdsaleActive` and the lock (elysium/rpc.cpp:1150-1166); the closing logic is not under `src/`. The participant list is sorted by the text `"%d-%s"` of `at(1)` and the txid. `at(1)` is the block time that `elysium/tx.cpp` (not under `src/`) stores, a ten-digit number whose text orders as the number, so the order is right and a model would only restate it.
- **The sender by contribution.** `ParseTransaction` is in `elysium/tx.cpp`, not under `src/`. The tests only fix the expected senders, and a model of those expectations would check the tests against themselves.
- **`getfeedistributions` beside a disagreeing fee history.** The listing skips, with a log line, an indexed id without data (elysium/rpc.cpp:329-333). `ElysiumFeeDistributions` models the skip. The fee history is not under `src/`, so nothing says whether its index and data can disagree, and a property that the two views agree would only restate the skip.
- **Two races `ElysiumChainReads` exposes without a run.** TLC finds `getinfo` reporting the block time of a block other than the one whose transactions it counts (a block connected between `GetHeight` and `GetLatestBlockTime`, elysium/rpc.cpp:2066-2067), and `listblocktransactions` reading through a null index when the block is disconnected between `RequireHeightInChain` and the lock (1722-1728). The run budget is full, so both are hazards.
- **`gotoSendCoinsPage` with an address** sets it in the TecraCoin send view without selecting that tab (qt/walletview.cpp:476-483), so an address may land in a hidden tab. A hazard without a property.
- **The rest of the Qt glue.** The wallet view's dialogs (sign/verify, backup, encryption), `processNewTransaction` (a notification), and the tnode list widget. `showProgress` is modelled under the wallet's progress order; a stray value after 100 still uses the dialog `deleteLater` left behind, and a value before the first 0 an uninitialised pointer.
- **Headers** with constants or declarations only.
- **Registry details outside the properties.** These are WATCHDOG_EXPIRED and NEW_START_REQUIRED, last-paid tracking, and ping relay.
- **Seen-set insertion.** The seen-set is written only when a broadcast is accepted. This is the literal reading of spec 4.1-4.2.

## 7. Plan for the next steps

1. **TnodePayments findings.**
   - `Test_EnforceTnodePayment` (tnode_tests.cpp:226-245) accepts a block paying a payee with 6 votes while another holds 9: the code accepts any payee over the threshold, the spec only the latched one. Modelling the test's per-block payee list would check this.
   - A second node with a different view of `qualifying` may confirm another payee (a split verdict).
2. **PaymentQueue.** The pure selection of spec 4.4, checked against a reference ordering: order independence, and never-paid first.
3. **A guarded retirement** in `TnodeRegistry`: a record retired only when its collateral is spent or it has gone unseen past the retention window.
4. **Registry liveness.** A broadcast accepted by the node is eventually relayed, and an enabled tnode that keeps pinging is never pruned. Both under weak fairness of the handlers.
5. **Multi-step reads.** `getcrowdsale` beside crowdsale closing, and `getgrants`' total read after the lock, in the style of `ElysiumChainReads`; and violation runs for the `getinfo` and `listblocktransactions` races it already finds. Each gives a violation, and the run budget has room only if a weaker run is replaced. (`tnode count all`, `current`/`winner` and `list-conf` are done.)
6. **Violation runs for the hazards already found**, each replacing a weaker run: the `getinfo` and `listblocktransactions` races of `ElysiumChainReads`.
