---------------------------- MODULE ElysiumQueries ---------------------------
(***************************************************************************)
(* The read-only Elysium RPCs modelled as pure functions of their inputs:  *)
(* getfeetrigger and getfeecache, listtransactions, gettradehistoryfor-    *)
(* address, listmints and listpendingmints, getbalance and the two         *)
(* getallbalances listings, listproperties and getactivecrowdsales,        *)
(* getgrants, getorderbook, getfeeshare, getfeedistribution and          *)
(* getfeedistributions, and getactivedexsells.  A state is one call: the  *)
(* command and its inputs; the inputs of the other commands stay at an    *)
(* empty database, which is one of their own initial states.  The         *)
(* handlers reading the chain tip (ElysiumChainReads) take steps: their    *)
(* reads interleave with blocks connected and disconnected.  So does the  *)
(* wallet's main view (WalletView), which hosts the Elysium history,     *)
(* send and asset pages.                                                   *)
(***************************************************************************)
EXTENDS Integers, FiniteSets

CONSTANTS
    TestEco1, MaxSP,                 \* ElysiumFeeQueries
    MaxTx, MaxBlock, MaxParam,       \* ElysiumListTransactions
    MaxTrades, MaxCount,             \* ElysiumTradeHistory
    Properties, MaxDenoms, MaxMints, \* ElysiumMints
    Addresses,                       \* ElysiumBalances
    MaxListedSP,                     \* ElysiumProperties
    MaxHistory, MaxAmount,           \* ElysiumGrants
    MainProps, TestProps, Missing, Blocks, Positions, \* ElysiumOrderBook
    Addrs, MaxShare,                 \* ElysiumFeeShare
    MaxDist,                         \* ElysiumFeeDistributions
    DexSellers, DexProps, Hashes, TimeLimit, MaxAccepts, \* ElysiumDexSells
    Forks, Genesis, MaxHeight        \* ElysiumChainReads

VARIABLES
    call,                   \* the command whose inputs the state holds
    nextSP, cache, req,     \* getfeetrigger / getfeecache
    txs, params, fetched,   \* listtransactions
    trades, count,          \* gettradehistoryforaddress
    wallet, sps,            \* listmints / listpendingmints
    tallied, props, balance, \* getbalance / getallbalances*
    nextId, known, crowds, txFound, \* listproperties / getactivecrowdsales
    exists, managed, history, \* getgrants
    book, forSale, desired, \* getorderbook
    receivers, mine, address, ecosystem, \* getfeeshare
    feeData, feeRecipients, feeIndex, distributionId, propertyId, \* getfeedistribution(s)
    offers, accepts, addressFilter, curBlock, \* getactivedexsells
    chain, holder, pc, arg, block, seen, reply, \* the chain-tip readers
    elysiumOn, hdSeed, current, txTab, sendTab, clientSet, walletSet,
    dialog                  \* the wallet view

vars == <<call, nextSP, cache, req, txs, params, fetched, trades, count, wallet, sps,
          tallied, props, balance, nextId, known, crowds, txFound, exists, managed,
          history, book, forSale, desired, receivers, mine, address, ecosystem,
          feeData, feeRecipients, feeIndex, distributionId, propertyId,
          offers, accepts, addressFilter, curBlock,
          chain, holder, pc, arg, block, seen, reply,
          elysiumOn, hdSeed, current, txTab, sendTab, clientSet, walletSet,
          dialog>>
queryVars == <<call, nextSP, cache, req, txs, params, fetched, trades, count, wallet, sps,
               tallied, props, balance, nextId, known, crowds, txFound, exists, managed,
               history, book, forSale, desired, receivers, mine, address, ecosystem,
               feeData, feeRecipients, feeIndex, distributionId, propertyId,
               offers, accepts, addressFilter, curBlock>>
chainReadVars == <<chain, holder, pc, arg, block, seen, reply>>
walletViewVars == <<elysiumOn, hdSeed, current, txTab, sendTab, clientSet, walletSet,
                    dialog>>

Fee   == INSTANCE ElysiumFeeQueries
List  == INSTANCE ElysiumListTransactions WITH wallet <- txs
Trade == INSTANCE ElysiumTradeHistory
Mints == INSTANCE ElysiumMints
Balances == INSTANCE ElysiumBalances
Listing == INSTANCE ElysiumProperties WITH MaxSP <- MaxListedSP
Grants == INSTANCE ElysiumGrants
Book == INSTANCE ElysiumOrderBook
Share == INSTANCE ElysiumFeeShare
Dist == INSTANCE ElysiumFeeDistributions
Dex == INSTANCE ElysiumDexSells WITH Sellers <- DexSellers
Chain == INSTANCE ElysiumChainReads
View == INSTANCE WalletView

Calls == {"fee", "listtransactions", "tradehistory", "mints", "balances",
          "properties", "grants", "orderbook", "feeshare", "feedistributions",
          "dexsells", "chainreads", "walletview"}

FeeIdle   == nextSP = [eco \in {1, 2} |-> Fee!StartId(eco)]
             /\ cache = [p \in {} |-> FALSE] /\ req = 0
ListIdle  == txs = <<>> /\ fetched = <<>>
             /\ params = [count |-> 0, from |-> 0, start |-> 0, end |-> 0]
TradeIdle == trades = <<>> /\ count = 0
MintsIdle == wallet = <<>> /\ sps = [p \in Properties |-> Mints!None]
BalancesIdle == tallied = {} /\ props = <<>> /\ balance = <<>>
ListingIdle == nextId = [eco \in {1, 2} |-> Listing!FirstId(eco)] /\ known = {}
               /\ crowds = <<>> /\ txFound = [p \in {} |-> FALSE]
GrantsIdle == exists = FALSE /\ managed = FALSE /\ history = <<>>
BookIdle == book = [s \in {} |-> <<>>] /\ forSale = Missing /\ desired = Book!None
ShareIdle == receivers = [eco \in {1, 2} |-> {}] /\ mine = {}
             /\ address = Share!Empty /\ ecosystem = 1
DistIdle == feeData = [id \in {} |-> 0] /\ feeRecipients = [id \in Dist!DistIds |-> {}]
            /\ feeIndex = [p \in Properties |-> {}] /\ distributionId = 1
            /\ propertyId = CHOOSE p \in Properties : TRUE
DexIdle == offers = [o \in {} |-> 0] /\ accepts = [a \in {} |-> 0]
           /\ addressFilter = Dex!NoFilter /\ curBlock = 0
ChainIdle == chain = <<Genesis>> /\ holder = Chain!NoHolder
             /\ pc = [h \in Chain!Handlers |-> "done"] /\ arg = [h \in Chain!Handlers |-> "none"]
             /\ block = [h \in Chain!Handlers |-> 0] /\ seen = [h \in Chain!Handlers |-> Chain!NoBlock]
             /\ reply = [h \in Chain!Handlers |-> Chain!None]
ViewIdle == elysiumOn = FALSE /\ hdSeed = FALSE /\ current = "overview"
            /\ txTab = 0 /\ sendTab = 0 /\ clientSet = FALSE /\ walletSet = FALSE
            /\ dialog = "null"

Init ==
    /\ call \in Calls
    /\ IF call = "fee" THEN Fee!Init ELSE FeeIdle
    /\ IF call = "listtransactions" THEN List!Init ELSE ListIdle
    /\ IF call = "tradehistory" THEN Trade!Init ELSE TradeIdle
    /\ IF call = "mints" THEN Mints!Init ELSE MintsIdle
    /\ IF call = "balances" THEN Balances!Init ELSE BalancesIdle
    /\ IF call = "properties" THEN Listing!Init ELSE ListingIdle
    /\ IF call = "grants" THEN Grants!Init ELSE GrantsIdle
    /\ IF call = "orderbook" THEN Book!Init ELSE BookIdle
    /\ IF call = "feeshare" THEN Share!Init ELSE ShareIdle
    /\ IF call = "feedistributions" THEN Dist!Init ELSE DistIdle
    /\ IF call = "dexsells" THEN Dex!Init ELSE DexIdle
    /\ IF call = "chainreads" THEN Chain!Init ELSE ChainIdle
    /\ IF call = "walletview" THEN View!Init ELSE ViewIdle

\* The pure calls only stutter; the chain-tip readers and the wallet view
\* take their steps.
Next ==
    \/ UNCHANGED vars
    \/ call = "chainreads" /\ Chain!Next /\ UNCHANGED <<queryVars, walletViewVars>>
    \/ call = "walletview" /\ View!Next /\ UNCHANGED <<queryVars, chainReadVars>>

Spec == Init /\ [][Next]_vars

\* getfeetrigger and getfeecache return the rows their help describes.
FeeQueriesMatchReference == Fee!FeeQueriesMatchReference

\* The help texts of listtransactions ("count ... show at most n
\* transactions") and gettradehistoryforaddress ("count ... number of
\* orders to retrieve"): a reply never holds more than count entries.
CountHonoured ==
    /\ call = "listtransactions" => List!ReplyHonoursCount
    /\ call = "tradehistory" => Trade!ReplyHonoursCount

\* gettradehistoryforaddress returns the newest trades it can populate,
\* newest first, skipping none in between.
ReplyIsNewestFirst == Trade!ReplyIsNewestFirst

\* listmints and listpendingmints list each wallet mint exactly once
\* between them, except the spent mined ones.
MintsPartitionWallet == Mints!MintsPartitionWallet

\* A filtered listmints is the unfiltered listing narrowed to the filter.
FilterNarrowsListing == Mints!FilterNarrowsListing

\* getallbalancesforid, getallbalancesforaddress and getbalance agree on
\* which (address, property) pairs hold a non-empty balance.
BalanceListingsAgree == Balances!BalanceListingsAgree

\* listproperties lists each found property once in identifier order, and
\* getactivecrowdsales lists exactly the crowdsales of listed properties,
\* failing only for a missing creation transaction of one of them.
PropertyListingsAgree == Listing!PropertyListingsAgree

\* getgrants' issuances account for the whole history of the property.
IssuancesReconcile == Grants!IssuancesReconcile

\* getorderbook for a pair narrows the one-property order book.
OrderBookNarrows == Book!OrderBookNarrows

\* getfeeshare lists the kept receivers once each, largest share first.
FeeShareLargestFirst == Share!FeeShareLargestFirst

\* getactivedexsells lists with each offer exactly the accepts of that
\* offer transaction, under their buyers.
AcceptsFollowTheirOffer == Dex!AcceptsFollowTheirOffer

\* getcurrentconsensushash, getmetadexhash and getbalanceshash, racing
\* blocks connected and disconnected, never crash and report a block,
\* its hash and a state hash of one and the same tip.
HashRepliesOneTip == Chain!HashRepliesOneTip
=============================================================================
