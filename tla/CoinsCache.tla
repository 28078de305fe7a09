----------------------------- MODULE CoinsCache -----------------------------
(***************************************************************************)
(* CCoinsViewCache (coins.cpp): the view of one block over CoinsTip() over  *)
(* the coins database.  An entry is DIRTY when it may differ from the view  *)
(* below, FRESH when the view below has no such unspent coin.               *)
(***************************************************************************)
EXTENDS Naturals

CONSTANTS OutPoints, Coins, Spent

VARIABLES
    coins,    \* the coins database
    tip,   \* CoinsTip()
    view,  \* the CCoinsViewCache of the block being processed
    viewOpen,  \* there is such a view (cs_main is held)
    coinsOp     \* history: the call last made, with its arguments

coinVars == <<coins, tip, view, viewOpen, coinsOp>>

Flags == {"DIRTY", "FRESH"}
MaybeCoin == Coins \cup {Spent}

\* No entry in cacheCoins, and a coin just fetched from the view below.
NoEntry == [in |-> FALSE, coin |-> Spent, flags |-> {}]
Fetched(c) == [in |-> TRUE, coin |-> c, flags |-> {}]

EmptyCache == [o \in OutPoints |-> NoEntry]

\* What GetCoin returns from a cache over base.
Get(cache, base, o) == IF cache[o].in THEN cache[o].coin ELSE base[o]
ViewOf(cache, base) == [o \in OutPoints |-> Get(cache, base, o)]

\* FetchCoin: base->GetCoin never returns a spent coin, so that nothing is
\* cached for one.
FetchCoin(cache, base, o) ==
    IF cache[o].in \/ base[o] = Spent THEN cache
    ELSE [cache EXCEPT ![o] = Fetched(base[o])]

\* AddCoin, for a spendable coin, where it does not throw.  It asserts that the
\* coin is not spent.
AddCoinThrows(cache, o, overwrite) == ~overwrite /\ cache[o].coin # Spent

\* Mutant of AddCoin: a coin that was spent in this cache comes back FRESH.
AddCoinFresh(cache, o, c, overwrite) ==
    [cache EXCEPT ![o] =
        [in |-> TRUE, coin |-> c,
         flags |-> cache[o].flags \cup {"DIRTY"} \cup (IF overwrite THEN {} ELSE {"FRESH"})]]

AddCoin(cache, o, c, overwrite) ==
    [cache EXCEPT ![o] =
        [in    |-> TRUE,
         coin  |-> c,
         flags |-> cache[o].flags \cup {"DIRTY"} \cup
                   (IF ~overwrite /\ "DIRTY" \notin cache[o].flags
                    THEN {"FRESH"} ELSE {})]]

\* Mutant of SpendCoin: the spent entry is not marked DIRTY.
SpendCoinClean(cache, o) ==
    IF ~cache[o].in THEN cache
    ELSE [cache EXCEPT ![o] =
             IF "FRESH" \in cache[o].flags THEN NoEntry
             ELSE [in |-> TRUE, coin |-> Spent, flags |-> cache[o].flags]]

\* SpendCoin, after FetchCoin.
SpendCoin(cache, o) ==
    IF ~cache[o].in THEN cache
    ELSE [cache EXCEPT ![o] =
             IF "FRESH" \in cache[o].flags THEN NoEntry
             ELSE [in |-> TRUE, coin |-> Spent, flags |-> cache[o].flags \cup {"DIRTY"}]]

\* BatchWrite of one entry of a child cache into its parent.
MergeThrows(child, us) ==
    "DIRTY" \in child.flags /\ us.in /\ "FRESH" \in child.flags /\ us.coin # Spent

\* Mutant of Merge: a spent child erases the parent's entry, FRESH or not.
MergeErases(child, us) ==
    IF ~child.in \/ "DIRTY" \notin child.flags THEN us
    ELSE IF ~us.in
    THEN IF "FRESH" \in child.flags /\ child.coin = Spent THEN us ELSE child
    ELSE IF child.coin = Spent THEN NoEntry
    ELSE [in |-> TRUE, coin |-> child.coin, flags |-> us.flags \cup {"DIRTY"}]

Merge(child, us) ==
    IF ~child.in \/ "DIRTY" \notin child.flags THEN us
    ELSE IF ~us.in
    THEN IF "FRESH" \in child.flags /\ child.coin = Spent THEN us ELSE child
    ELSE IF "FRESH" \in us.flags /\ child.coin = Spent THEN NoEntry
    ELSE [in |-> TRUE, coin |-> child.coin, flags |-> us.flags \cup {"DIRTY"}]

\* CCoinsViewDB::BatchWrite: only DIRTY entries are written.
WriteToDB(cache, base) ==
    [o \in OutPoints |-> IF cache[o].in /\ "DIRTY" \in cache[o].flags
                    THEN cache[o].coin ELSE base[o]]

-----------------------------------------------------------------------------
CoinsInit ==
    /\ coins \in [OutPoints -> MaybeCoin]
    /\ tip = EmptyCache
    /\ view = EmptyCache
    /\ viewOpen = FALSE
    /\ coinsOp = <<"other">>

TipView == ViewOf(tip, coins)

\* CCoinsViewCache view(&CoinsTip()).
OpenView ==
    /\ coinsOp' = <<"other">>
    /\ ~viewOpen
    /\ viewOpen' = TRUE
    /\ UNCHANGED <<coins, tip, view>>

\* HaveCoin, AccessCoin and GetCoin on the view: the coin is fetched through
\* CoinsTip(), where it stays.
TipFetch(o) == IF view[o].in THEN tip ELSE FetchCoin(tip, coins, o)
ViewFetch(o) == FetchCoin(view, TipView, o)

Fetch(o) ==
    /\ coinsOp' = <<"other">>
    /\ viewOpen
    /\ tip' = TipFetch(o)
    /\ view' = ViewFetch(o)
    /\ UNCHANGED <<coins, viewOpen>>

\* AddCoins of a coinbase: it may always overwrite.
AddCoinbase(o, c) ==
    /\ coinsOp' = <<"set", o, c>>
    /\ viewOpen
    /\ view' = AddCoin(view, o, c, TRUE)
    /\ UNCHANGED <<coins, tip, viewOpen>>

\* AddCoins of another transaction, whose outputs do not exist yet (BIP30, BIP34).
AddOutput(o, c) ==
    /\ coinsOp' = <<"set", o, c>>
    /\ viewOpen
    /\ Get(view, TipView, o) = Spent
    /\ view' = AddCoin(view, o, c, FALSE)
    /\ UNCHANGED <<coins, tip, viewOpen>>

\* ApplyTxInUndo, and AddCoins with check_for_overwrite: HaveCoin tells whether
\* the coin overwrites one.
AddChecked(o, c) ==
    /\ coinsOp' = <<"set", o, c>>
    /\ viewOpen
    /\ tip' = TipFetch(o)
    /\ view' = AddCoin(ViewFetch(o), o, c, Get(view, TipView, o) # Spent)
    /\ UNCHANGED <<coins, viewOpen>>

Spend(o) ==
    /\ coinsOp' = <<"set", o, Spent>>
    /\ viewOpen
    /\ tip' = TipFetch(o)
    /\ view' = SpendCoin(ViewFetch(o), o)
    /\ UNCHANGED <<coins, viewOpen>>

\* view.Flush(): BatchWrite into CoinsTip().
FlushView ==
    /\ coinsOp' = <<"keep">>
    /\ viewOpen
    /\ tip' = [o \in OutPoints |-> Merge(view[o], tip[o])]
    /\ view' = EmptyCache
    /\ viewOpen' = FALSE
    /\ UNCHANGED coins

\* The block is refused: the view is destroyed.
DropView ==
    /\ coinsOp' = <<"drop">>
    /\ viewOpen
    /\ view' = EmptyCache
    /\ viewOpen' = FALSE
    /\ UNCHANGED <<coins, tip>>

\* The mempool looks a coin up in CoinsTip(), and uncaches it again.
FetchTip(o) ==
    /\ coinsOp' = <<"other">>
    /\ ~viewOpen
    /\ tip' = FetchCoin(tip, coins, o)
    /\ UNCHANGED <<coins, view, viewOpen>>

Uncache(o) ==
    /\ coinsOp' = <<"other">>
    /\ ~viewOpen
    /\ tip[o].in /\ tip[o].flags = {}
    /\ tip' = [tip EXCEPT ![o] = NoEntry]
    /\ UNCHANGED <<coins, view, viewOpen>>

\* CoinsTip().Flush().
FlushTip ==
    /\ coinsOp' = <<"persist">>
    /\ ~viewOpen
    /\ coins' = WriteToDB(tip, coins)
    /\ tip' = EmptyCache
    /\ UNCHANGED <<view, viewOpen>>

CoinsNext ==
    \/ OpenView \/ FlushView \/ DropView \/ FlushTip
    \/ \E o \in OutPoints :
         \/ Fetch(o) \/ Spend(o) \/ FetchTip(o) \/ Uncache(o)
         \/ \E c \in Coins \ {Spent} : AddCoinbase(o, c) \/ AddOutput(o, c) \/ AddChecked(o, c)

CoinsSpec == CoinsInit /\ [][CoinsNext]_coinVars

-----------------------------------------------------------------------------
(* Properties. *)

Entry == [in : BOOLEAN, coin : MaybeCoin, flags : SUBSET Flags]

\* The combinations coins.h lists as valid.
ValidEntry(e) ==
    \/ e = NoEntry
    \/ e.in /\ e.coin # Spent /\ ("FRESH" \in e.flags => "DIRTY" \in e.flags)
    \/ e.in /\ e.coin = Spent /\ ("FRESH" \in e.flags <=> "DIRTY" \notin e.flags)

\* An entry that is not DIRTY agrees with the view below, a FRESH one has no
\* unspent coin there.
Backed(e, below) ==
    /\ e.in /\ "DIRTY" \notin e.flags => e.coin = below
    /\ "FRESH" \in e.flags => below = Spent

\* The inductive invariant of the refinement.
CoinsInv ==
    /\ coins \in [OutPoints -> MaybeCoin]
    /\ tip \in [OutPoints -> Entry] /\ view \in [OutPoints -> Entry]
    /\ viewOpen \in BOOLEAN
    /\ \A o \in OutPoints : ValidEntry(tip[o]) /\ ValidEntry(view[o])
    /\ \A o \in OutPoints : Backed(tip[o], coins[o]) /\ Backed(view[o], Get(tip, coins, o))
    /\ ~viewOpen => view = EmptyCache

\* Neither logic_error of coins.cpp is ever thrown: an output that does not
\* exist is not cached as unspent (AddCoin), and a FRESH coin never meets an
\* unspent one when a view is flushed into its parent (BatchWrite).
NoLogicError ==
    \A o \in OutPoints :
        /\ Get(view, TipView, o) = Spent => ~AddCoinThrows(view, o, FALSE)
        /\ ~MergeThrows(view[o], tip[o])

\* The entries have the flag combinations the comment of CCoinsCacheEntry
\* allows, and DIRTY and FRESH mean what it says (coins.h).
FlagsMeanWhatTheySay == CoinsInv

\* The caches and the database behave as one map: no spend is lost and no coin
\* comes back through FRESH, DIRTY or Uncache (CCoinsViewCache).
CoinsMap == INSTANCE LayeredStore
       WITH Keys <- OutPoints, Values <- Coins, Absent <- Spent,
            work <- ViewOf(view, TipView), committed <- TipView, stored <- coins,
            op <- coinsOp
CoinsMapSpec == CoinsMap!Spec

=============================================================================
