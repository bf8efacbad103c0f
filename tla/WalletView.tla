------------------------------ MODULE WalletView ------------------------------
(***************************************************************************)
(* The wallet's main view (src/qt/walletview.cpp), built with             *)
(* ENABLE_ELYSIUM: a stack of pages, the TecraCoin/Elysium tabs of the    *)
(* history and send pages (created only when isElysiumEnabled()), the     *)
(* Sigma page's view (SigmaDialog with an HD seed, BlankSigmaDialog       *)
(* without), the slots that switch page and tab and focus a transaction, *)
(* and the progress dialog driven by the wallet model's showProgress      *)
(* signal.  Widgets are their existence and the index they show; layout,  *)
(* icons and texts are left out.                                          *)
(*                                                                         *)
(* The wallet model is connected in setWalletModel, so progress reaches   *)
(* the view only after it.  The wallet that emits the progress values is  *)
(* not under src/: any value may arrive at any time after the connect.    *)
(* progressDialog is not in the constructor's initialiser list: until the *)
(* first 0 it holds whatever the build leaves there, null or not.         *)
(***************************************************************************)
EXTENDS Naturals

Pages == {"overview", "elyassets", "transactions", "receive", "send", "zerocoin",
          "sigma", "zc2sigma", "toolbox", "tnode", "masternode"}
Addresses == {"", "addr"}   \* an empty QString, or an address

VARIABLES
    elysiumOn,  \* isElysiumEnabled() at construction: the Elysium tabs exist
    hdSeed,     \* pwalletMain->IsHDSeedAvailable()
    current,    \* the stacked widget's current page
    txTab,      \* transactionTabs' current index
    sendTab,    \* sendCoinsTabs' current index
    clientSet,  \* setClientModel has run
    walletSet,  \* setWalletModel has run (its signals are connected)
    dialog      \* progressDialog: "null", "garbage" (uninitialised), "live",
                \* "deleting" (deleteLater pending), "freed"

vars == <<elysiumOn, hdSeed, current, txTab, sendTab, clientSet, walletSet, dialog>>
navVars == <<current, txTab, sendTab>>

\* setupTransactionPage / setupSendCoinPage: the TecraCoin/Elysium tab
\* widgets exist only when Elysium is enabled.
HasTransactionTabs == elysiumOn
HasSendTabs == elysiumOn

-----------------------------------------------------------------------------
(* Page slots: setCurrentWidget.                                          *)

\* gotoOverviewPage, gotoElyAssetsPage, gotoHistoryPage, gotoReceiveCoinsPage,
\* gotoTnodePage, gotoMasternodePage, gotoZerocoinPage, gotoSigmaPage,
\* gotoToolboxPage.
GotoPage(p) ==
    /\ current' = p
    /\ UNCHANGED <<txTab, sendTab>>

\* gotoZc2SigmaPage: the remint page with an HD seed, the Sigma page without.
GotoZc2SigmaPage ==
    /\ current' = IF hdSeed THEN "zc2sigma" ELSE "sigma"
    /\ UNCHANGED <<txTab, sendTab>>

\* gotoElysiumHistoryTab: nothing without transactionTabs.
GotoElysiumHistoryTab ==
    /\ current' = IF HasTransactionTabs THEN "transactions" ELSE current
    /\ txTab' = IF HasTransactionTabs THEN 1 ELSE txTab
    /\ UNCHANGED sendTab

\* gotoBitcoinHistoryTab: the history page, its TecraCoin tab if any.
GotoBitcoinHistoryTab ==
    /\ current' = "transactions"
    /\ txTab' = IF HasTransactionTabs THEN 0 ELSE txTab
    /\ UNCHANGED sendTab

\* focusElysiumTransaction: nothing without elysiumTransactionsView (built
\* with the tabs); else gotoElysiumHistoryTab (the row focused in it).
FocusElysiumTransaction ==
    IF HasTransactionTabs THEN GotoElysiumHistoryTab ELSE UNCHANGED navVars

\* focusBitcoinHistoryTab: gotoBitcoinHistoryTab (the row focused in it).
FocusBitcoinHistoryTab == GotoBitcoinHistoryTab

\* gotoSendCoinsPage(addr): the send page; a non-empty address is set in
\* the TecraCoin send view, whichever tab is shown.
GotoSendCoinsPage(addr) ==
    /\ current' = "send"
    /\ UNCHANGED <<txTab, sendTab>>

\* handlePaymentRequest: the TecraCoin send tab, and the request handed to
\* the TecraCoin send view.
HandlePaymentRequest ==
    /\ sendTab' = IF HasSendTabs THEN 0 ELSE sendTab
    /\ UNCHANGED <<current, txTab>>

\* The user clicks a tab of the page shown.
SelectTab(i) ==
    /\ \/ HasTransactionTabs /\ current = "transactions" /\ txTab' = i /\ UNCHANGED sendTab
       \/ HasSendTabs /\ current = "send" /\ sendTab' = i /\ UNCHANGED txTab
    /\ UNCHANGED current

-----------------------------------------------------------------------------
(* Models and progress.                                                   *)

\* setClientModel / setWalletModel: the models handed to every page (the
\* Sigma view only with an HD seed, the Elysium views when they exist);
\* setWalletModel also connects the wallet model's signals.
SetClientModel ==
    /\ ~clientSet
    /\ clientSet' = TRUE
    /\ UNCHANGED <<walletSet, dialog>>

SetWalletModel ==
    /\ ~walletSet
    /\ walletSet' = TRUE
    /\ UNCHANGED <<clientSet, dialog>>

\* showProgress(title, n): a new dialog on 0 (the pointer overwritten); on
\* 100, if the pointer is not null, close() and deleteLater() without
\* clearing it; otherwise setValue if the pointer is not null.
ShowProgress(n) ==
    dialog' = CASE n = 0   -> "live"
                [] n = 100 -> IF dialog = "null" THEN "null" ELSE "deleting"
                [] OTHER   -> dialog

\* The wallet model's showProgress signal, connected in setWalletModel.
WalletProgress(n) ==
    /\ walletSet
    /\ ShowProgress(n)
    /\ UNCHANGED <<clientSet, walletSet>>

\* The event loop deletes a dialog whose deleteLater is pending.
DeferredDelete ==
    /\ dialog = "deleting"
    /\ dialog' = "freed"
    /\ UNCHANGED <<clientSet, walletSet>>

-----------------------------------------------------------------------------
\* The constructor: every page built, the Elysium tabs when Elysium is
\* enabled, the overview page (added first) shown, no models yet.
Init ==
    /\ elysiumOn \in BOOLEAN
    /\ hdSeed \in BOOLEAN
    /\ current = "overview"
    /\ txTab = 0 /\ sendTab = 0
    /\ clientSet = FALSE /\ walletSet = FALSE
    /\ dialog \in {"null", "garbage"}

Navigate ==
    /\ \/ \E p \in Pages \ {"zc2sigma"} : GotoPage(p)
       \/ GotoZc2SigmaPage
       \/ GotoElysiumHistoryTab
       \/ GotoBitcoinHistoryTab
       \/ FocusElysiumTransaction
       \/ FocusBitcoinHistoryTab
       \/ \E a \in Addresses : GotoSendCoinsPage(a)
       \/ HandlePaymentRequest
       \/ \E i \in {0, 1} : SelectTab(i)
    /\ UNCHANGED <<clientSet, walletSet, dialog>>

Next ==
    /\ \/ Navigate
       \/ /\ \/ SetClientModel
             \/ SetWalletModel
             \/ \E n \in {0, 50, 100} : WalletProgress(n)
             \/ DeferredDelete
          /\ UNCHANGED navVars
    /\ UNCHANGED <<elysiumOn, hdSeed>>

Spec == Init /\ [][Next]_vars
=============================================================================
