--------------------------- MODULE ElysiumDexSells ----------------------------
(***************************************************************************)
(* elysium_getactivedexsells (src/elysium/rpc.cpp).  The handler reads the *)
(* height, takes cs_main, and walks my_offers (keyed by the text           *)
(* "seller-property") in key order.  It recovers the seller by cutting    *)
(* the last two characters of the key, skips offers of other sellers when *)
(* an address is given, and lists with each offer the accepts of          *)
(* my_accepts (keyed by "seller-property+buyer") whose hash is the        *)
(* offer's, recovering the buyer as the text after the '+', with the      *)
(* blocks left to pay counted from the height read first.  The offer and  *)
(* accept maps are not under src/: an offer is its key and transaction    *)
(* hash, an accept its key, the hash of the offer it accepted and its     *)
(* block.  Amounts, prices and their formatting are left out.              *)
(***************************************************************************)
EXTENDS Integers, FiniteSets, SequencesExt, ElysiumText

CONSTANTS
    Sellers,    \* addresses, as the character code standing for each
    DexProps,   \* properties a sell offer may be of
    Hashes,     \* offer transaction hashes
    TimeLimit,  \* the offers' block time limit
    MaxAccepts  \* bound on the number of accepts

\* The text of an address: its network prefix 'T' and one character.
AddrText(a) == <<84, a>>

OfferKey(s, p) == AddrText(s) \o <<Dash>> \o Decimal(p)
AcceptKey(s, p, b) == OfferKey(s, p) \o <<Plus>> \o AddrText(b)
NoFilter == <<>>

VARIABLES
    offers,        \* offers[<<s, p>>]: the hash of the offer under that key
    accepts,       \* accepts[<<s, p, b>>]: [hash, block] of the accept
    addressFilter, \* the argument: NoFilter or an address text
    curBlock       \* GetHeight() as read before cs_main

vars == <<offers, accepts, addressFilter, curBlock>>

\* sellCombo.substr(0, sellCombo.size() - 2)
SellerOf(key) == SubSeq(key, 1, Len(key) - 2)

\* acceptCombo.substr(acceptCombo.find("+") + 1, ...)
BuyerOf(key) ==
    LET plus == CHOOSE i \in 1..Len(key) : key[i] = Plus /\ \A j \in 1..(i - 1) : key[j] # Plus
    IN SubSeq(key, plus + 1, Len(key))

\* Mutant: an accept is matched to an offer by its key, not by its hash.
AcceptMatchesByKey(o, a) == a[1] = o[1] /\ a[2] = o[2]

\* accept.getHash() == selloffer.getHash()
AcceptMatches(o, a) == accepts[a].hash = offers[o]

\* The accepts object of the offer o, in my_accepts' key order.
AcceptsOf(o) ==
    LET keys == SetToSortSeq({a \in DOMAIN accepts : AcceptMatches(o, a)},
                             LAMBDA x, y : TextLess(AcceptKey(x[1], x[2], x[3]),
                                                    AcceptKey(y[1], y[2], y[3])))
    IN [i \in 1..Len(keys) |->
          LET a == keys[i] IN
          [buyer |-> BuyerOf(AcceptKey(a[1], a[2], a[3])),
           block |-> accepts[a].block,
           blocksleft |-> accepts[a].block + TimeLimit - curBlock]]

\* The reply: one row per kept offer, in my_offers' key order.
GetActiveDexSells ==
    LET kept == {o \in DOMAIN offers :
                   addressFilter = NoFilter \/ SellerOf(OfferKey(o[1], o[2])) = addressFilter}
        keys == SetToSortSeq(kept, LAMBDA x, y : TextLess(OfferKey(x[1], x[2]),
                                                          OfferKey(y[1], y[2])))
    IN [i \in 1..Len(keys) |->
          [seller |-> SellerOf(OfferKey(keys[i][1], keys[i][2])),
           propertyid |-> keys[i][2],
           txid |-> offers[keys[i]],
           accepts |-> AcceptsOf(keys[i])]]

\* A transaction hash names one offer: two live offers have distinct hashes,
\* and an accept carrying a live offer's hash is filed under that offer's
\* key.  An accept of an earlier offer under the same key, since replaced,
\* carries that earlier hash.
Init ==
    /\ offers \in {f \in UNION {[S -> Hashes] : S \in SUBSET (Sellers \X DexProps)} :
                   IsInjective(f)}
    /\ \E S \in SUBSET (Sellers \X DexProps \X Sellers) :
          /\ Cardinality(S) <= MaxAccepts
          /\ accepts \in [S -> [hash : Hashes, block : {1}]]
    /\ \A a \in DOMAIN accepts, o \in DOMAIN offers :
          accepts[a].hash = offers[o] => <<a[1], a[2]>> = o
    /\ addressFilter \in {NoFilter} \cup {AddrText(s) : s \in Sellers}
    /\ curBlock \in {0, 1}

Next == UNCHANGED vars

Spec == Init /\ [][Next]_vars

-----------------------------------------------------------------------------
\* Each listed offer carries exactly the accepts made against that offer
\* transaction, each under its own buyer's address: an accept of an
\* earlier offer under the same key, since replaced, is not shown against
\* the current one, and none is lost to the key text around the '+'.
AcceptsFollowTheirOffer ==
    \A r \in ToSet(GetActiveDexSells) :
       {x.buyer : x \in ToSet(r.accepts)}
         = {AddrText(a[3]) : a \in {a \in DOMAIN accepts : accepts[a].hash = r.txid}}

\* getactivedexsells lists exactly the offers of the filtered seller (all
\* of them without a filter), each under its own seller's address and
\* property.
DexSellsListed ==
    {<<r.seller, r.propertyid, r.txid>> : r \in ToSet(GetActiveDexSells)}
      = {<<AddrText(o[1]), o[2], offers[o]>> :
           o \in {o \in DOMAIN offers : addressFilter \in {NoFilter, AddrText(o[1])}}}
=============================================================================
