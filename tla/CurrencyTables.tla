--------------------------- MODULE CurrencyTables ---------------------------
(***************************************************************************)
(* The tables of currencies and of pairs: what each exchange trades and    *)
(* how it names it (<exchange>/currency_utils.py), how a pair splits into  *)
(* its currencies (utils/currency_utils.py), and which volumes are cut to  *)
(* the lot of the exchange (<exchange>/precision_by_currency.py).          *)
(* A pair such as BTC_TO_DASH is <<"BTC", "DASH">>: the currency one pays  *)
(* with and the currency one gets.  None is Python's None in place of a    *)
(* name, NoPair in place of a pair.                                        *)
(***************************************************************************)
EXTENDS Sequences, FiniteSets

None == "None"
NoPair == <<>>

Exchanges == {"BITTREX", "KRAKEN", "POLONIEX", "BINANCE", "HUOBI"}

-----------------------------------------------------------------------------
(* What each exchange trades. *)

\* The currencies Binance prices both in BTC and in ETH.
BinanceCommon ==
  {"ADA", "AION", "ARK", "BAT", "BCC", "BLZ", "BTG", "DASH", "ELF", "ENG", "EOS", "ETC", "HSR", "ICX",
   "IOTA", "KNC", "LINK", "LSK", "LTC", "NEO", "OMG", "ONT", "QSP", "QTUM", "RCN", "RDN", "REQ",
   "STRAT", "TRX", "VEN", "WABI", "WTC", "XEM", "XLM", "XMR", "XRP", "XVG", "ZEC", "ZIL", "ZRX"}

BinancePairs ==
  ({"BTC"} \X (BinanceCommon \cup {"ETH", "GAS"}))
    \cup ({"ETH"} \X BinanceCommon)
    \cup ({"USDT"} \X {"BCC", "BTC", "ETH", "LTC", "NEO"})

BinanceCurrencies ==
  BinanceCommon \cup {"ARDR", "BTC", "DCR", "DGB", "DOGE", "ETH", "GAS", "REP", "SC", "USDT"}

BittrexPairs ==
  ({"BTC"} \X {"ADA", "ARDR", "ARK", "BAT", "BCC", "BTG", "DASH", "DCR", "DGB", "DOGE", "ENG", "ETC",
               "ETH", "LSK", "LTC", "NEO", "OMG", "QTUM", "RCN", "RDD", "REP", "SC", "STRAT", "TRX",
               "XEM", "XLM", "XMR", "XRP", "XVG", "ZEC", "ZRX"})
    \cup ({"ETH"} \X {"ADA", "BAT", "BCC", "BTG", "DASH", "DGB", "ENG", "ETC", "LTC", "NEO", "OMG",
                      "QTUM", "RCN", "REP", "SC", "STRAT", "TRX", "XEM", "XLM", "XMR", "XRP", "ZEC", "ZRX"})
    \cup ({"USDT"} \X {"ADA", "BCC", "BTC", "BTG", "DASH", "ETC", "ETH", "LTC", "NEO", "XMR", "XRP",
                       "XVG", "ZEC"})

BittrexCurrencies ==
  {"ADA", "AION", "ARDR", "ARK", "BAT", "BCC", "BTC", "BTG", "DASH", "DCR", "DGB", "DOGE", "ENG", "EOS",
   "ETC", "ETH", "GAS", "ICX", "IOTA", "KNC", "LSK", "LTC", "NEO", "OMG", "QTUM", "RCN", "RDN", "REP",
   "SC", "STRAT", "TRX", "USDT", "WABI", "WTC", "XEM", "XLM", "XMR", "XRP", "XVG", "ZEC", "ZRX"}

HuobiPairs ==
  ({"BTC"} \X {"ADA", "BAT", "BCC", "BLZ", "BTG", "DASH", "ELA", "ELF", "ENG", "EOS", "ETC", "ETH", "HSR",
               "ICX", "LINK", "LSK", "LTC", "NAS", "NEO", "OMG", "ONT", "QSP", "QTUM", "RCN", "RDN",
               "REQ", "TRX", "VEN", "XEM", "XRP", "ZEC", "ZIL", "ZRX"})
    \cup ({"ETH"} \X {"ADA", "BAT", "BLZ", "ELA", "ELF", "ENG", "EOS", "HSR", "ICX", "LINK", "LSK", "NAS",
                      "OMG", "ONT", "QSP", "QTUM", "RCN", "RDN", "REQ", "TRX", "VEN", "ZIL"})
    \cup ({"USDT"} \X {"ADA", "BCC", "BTC", "DASH", "ELA", "ELF", "EOS", "ETC", "ETH", "HSR", "LTC", "NAS",
                       "NEO", "OMG", "QTUM", "VEN", "XRP", "ZEC", "ZIL"})

HuobiCurrencies ==
  {"ADA", "BAT", "BCC", "BLZ", "BTC", "BTG", "DASH", "ELA", "ELF", "ENG", "EOS", "ETC", "ETH", "GAS", "HSR",
   "ICX", "KNC", "LINK", "LSK", "LTC", "NAS", "NEO", "OMG", "ONT", "QSP", "QTUM", "RCN", "RDN", "REQ",
   "TRX", "USDT", "VEN", "XEM", "XRP", "ZEC", "ZIL", "ZRX"}

PoloniexPairs ==
  ({"BTC"} \X {"ARDR", "BCC", "DASH", "DCR", "DGB", "DOGE", "ETC", "ETH", "GAS", "LSK", "LTC", "OMG", "REP",
               "SC", "STRAT", "XEM", "XLM", "XMR", "XRP", "ZEC", "ZRX"})
    \cup ({"ETH"} \X {"BCC", "ETC", "GAS", "LSK", "OMG", "REP", "ZEC", "ZRX"})
    \cup ({"USDT"} \X {"BCC", "BTC", "DASH", "ETC", "ETH", "LTC", "REP", "XLM", "XMR", "XRP", "ZEC"})

PoloniexCurrencies ==
  {"ARDR", "BCC", "BTC", "DASH", "DCR", "DGB", "DOGE", "ENG", "ETC", "ETH", "GAS", "LSK", "LTC", "OMG",
   "REP", "SC", "STRAT", "USDT", "XEM", "XLM", "XMR", "XRP", "XVG", "ZEC", "ZRX"}

KrakenPairs ==
  ({"BTC"} \X {"BCC", "DASH", "DOGE", "EOS", "ETC", "ETH", "LTC", "REP", "XLM", "XMR", "XRP", "ZEC"})
    \cup ({"ETH"} \X {"EOS", "ETC", "REP"})
    \cup ({"USD"} \X {"BCC", "DASH", "ETC", "ETH", "LTC", "USDT", "XMR", "XRP", "ZEC"})

KrakenCurrencies ==
  {"BCC", "BTC", "DASH", "DOGE", "EOS", "ETC", "ETH", "LTC", "REP", "USD", "USDT", "XLM", "XMR", "XRP", "ZEC"}

Pairs == [e \in Exchanges |->
            CASE e = "BITTREX"  -> BittrexPairs
              [] e = "KRAKEN"   -> KrakenPairs
              [] e = "POLONIEX" -> PoloniexPairs
              [] e = "BINANCE"  -> BinancePairs
              [] e = "HUOBI"    -> HuobiPairs]

\* The currencies an exchange's balance can be read for (get_currency_name_for_<exchange>).
Currencies == [e \in Exchanges |->
                 CASE e = "BITTREX"  -> BittrexCurrencies
                   [] e = "KRAKEN"   -> KrakenCurrencies
                   [] e = "POLONIEX" -> PoloniexCurrencies
                   [] e = "BINANCE"  -> BinanceCurrencies
                   [] e = "HUOBI"    -> HuobiCurrencies]

Traded == UNION {Pairs[e] : e \in Exchanges}

-----------------------------------------------------------------------------
(* The names. *)

\* Currencies an exchange calls by another name.  Huobi's are in lower case.
Renamed(renames, c) == IF c \in DOMAIN renames THEN renames[c] ELSE c

HuobiName(c) ==
  LET Lower == [ADA |-> "ada", BAT |-> "bat", BCC |-> "bch", BLZ |-> "blz", BTC |-> "btc", BTG |-> "btg",
                DASH |-> "dash", ELA |-> "ela", ELF |-> "elf", ENG |-> "eng", EOS |-> "eos", ETC |-> "etc",
                ETH |-> "eth", GAS |-> "gas", HSR |-> "hsr", ICX |-> "icx", KNC |-> "knc", LINK |-> "link",
                LSK |-> "lsk", LTC |-> "ltc", NAS |-> "nas", NEO |-> "neo", OMG |-> "omg", ONT |-> "ont",
                QSP |-> "qsp", QTUM |-> "qtum", RCN |-> "rcn", RDN |-> "rdn", REQ |-> "req", TRX |-> "trx",
                USDT |-> "usdt", VEN |-> "ven", XEM |-> "xem", XRP |-> "xrp", ZEC |-> "zec", ZIL |-> "zil",
                ZRX |-> "zrx"]
  IN  Renamed(Lower, c)

\* In a pair, and in the answer with the balances.
KrakenName(c) ==
  Renamed([BTC |-> "XXBT", BCC |-> "BCH", XRP |-> "XXRP", LTC |-> "XLTC", ETC |-> "XETC", ETH |-> "XETH",
           DOGE |-> "XXDG", USD |-> "ZUSD", ZEC |-> "XZEC", REP |-> "XREP", XMR |-> "XXMR"], c)

\* Kraken's other name of a currency, which it also answers with.
KrakenShort(c) == Renamed([BTC |-> "XBT", BCC |-> "BCH", DOGE |-> "XDG"], c)

PoloniexName(c) == Renamed([BCC |-> "BCH", XLM |-> "STR"], c)

\* get_currency_pair_to_kraken: Kraken has the short names for its newer pairs.
KrakenPairName(p) ==
  CASE p[2] \in {"DASH", "BCC", "EOS"} -> KrakenShort(p[2]) \o KrakenShort(p[1])
    [] p = <<"BTC", "XLM">>            -> "XXLMXXBT"
    [] OTHER                           -> KrakenName(p[2]) \o KrakenName(p[1])

\* get_currency_pair_name_by_exchange_id: what the exchange calls a pair.
PairNameAt(e, p) ==
  IF p \notin Pairs[e] THEN None
  ELSE CASE e = "BITTREX"  -> p[1] \o "-" \o p[2]
         [] e = "KRAKEN"   -> KrakenPairName(p)
         [] e = "POLONIEX" -> PoloniexName(p[1]) \o "_" \o PoloniexName(p[2])
         [] e = "BINANCE"  -> p[2] \o p[1]
         [] e = "HUOBI"    -> HuobiName(p[2]) \o HuobiName(p[1])

\* The names under which get_currency_pair_from_kraken finds a pair.
KrakenAliases(p) ==
  {KrakenPairName(p)}
    \cup (IF p = <<"USD", "USDT">> THEN {} ELSE {KrakenShort(p[2]) \o KrakenShort(p[1])})
    \cup (IF p = <<"BTC", "XLM">> THEN {"XXLMXBT"} ELSE {})

\* No exchange calls two of its pairs by one name, nor by another one's second name,
\* though names are put together without a mark in between. The tables are all
\* there is to this: TLC decides it.
ASSUME NamesAssumption ==
  /\ \A e \in Exchanges : \A p, q \in Pairs[e] :
       PairNameAt(e, p) # None /\ (PairNameAt(e, p) = PairNameAt(e, q) => p = q)
  /\ \A p, q \in KrakenPairs : KrakenPairName(p) \in KrakenAliases(q) => p = q

\* Mutant: the tables know the currencies of a name in the other order.
PairBackwards(e, name) ==
  IF \E p \in Pairs[e] : PairNameAt(e, p) = name
    THEN LET p == CHOOSE q \in Pairs[e] : PairNameAt(e, q) = name
         IN  <<p[2], p[1]>>
    ELSE NoPair

\* get_currency_pair_from_<exchange>
PairFrom(e, name) ==
  LET called == {p \in Pairs[e] : IF e = "KRAKEN" THEN name \in KrakenAliases(p)
                                                  ELSE name = PairNameAt(e, p)}
  IN  IF called = {} THEN NoPair ELSE CHOOSE p \in called : TRUE

-----------------------------------------------------------------------------
(* All pairs. *)

\* Pairs that have a name and that no exchange trades.
Untraded ==
  ({"BTC"} \X {"ITC", "PAC", "XBY"})
    \cup ({"ETH"} \X {"ITC", "PAC", "RDD", "XBY"})
    \cup ({"USDT"} \X {"AION", "BAT", "GAS", "ICX", "IOTA", "ITC", "KNC", "PAC", "QSP", "RCN", "RDD", "RDN",
                       "TRX", "WABI", "WTC", "XBY", "ZRX"})
    \cup ({"USD"} \X {"BTC", "REP"})

\* The pairs that get_pair_name_by_id knows, as does get_pair_id_by_name.
NamedPairs == Traded \cup Untraded

\* CURRENCY_PAIR.values(): two of Huobi's come twice, and four have no name.
ValuePairs == NamedPairs \cup ({"USDT"} \X {"ARDR", "DGB", "SC", "XEM"})

\* Mutant: one pair more was forgotten.
SplitsFewer(p) == p \in NamedPairs \ {<<"USDT", "OMG">>, <<"BTC", "ZRX">>}

\* split_currency_pairs, which has no entry for one of Huobi's pairs (a KeyError
\* in the code) and swaps the currencies of one of Kraken's.
Splits(p) == p \in NamedPairs \ {<<"USDT", "OMG">>}

SplitCurrencyPairs(p) ==
  IF p = <<"USD", "USDT">> THEN <<"USDT", "USD">> ELSE p

\* POLONIEX_CURRENCY_PAIRS and BINANCE_CURRENCY_PAIRS, the pairs that are looked
\* for in an answer with all tickers. Poloniex' list is without BTC_DCR, which its
\* tables of names have.
PolledPairs(e) == IF e = "POLONIEX" THEN Pairs[e] \ {<<"BTC", "DCR">>} ELSE Pairs[e]

-----------------------------------------------------------------------------
(* The decimals of a volume. *)

\* A volume with that many decimals is left as it is.
Unrounded == 8

BinanceDecimals(p) ==
  LET Few == {"DASH", "ZEC"}
      Two == {"NEO", "QTUM", "OMG", "STRAT", "ETC", "BTG", "ARK", "ICX"}
      Is  == p[2]
      NoRule == {<<"BTC", "ONT">>, <<"BTC", "BLZ">>, <<"ETH", "ONT">>}
  IN  IF p \in NoRule THEN Unrounded
      ELSE
        CASE p[1] = "USDT" -> CASE Is = "BTC" -> 6 [] Is = "NEO" -> 3 [] OTHER -> 5
          [] p[1] = "BTC"  -> CASE Is \in Few \cup {"ETH", "BCC", "XMR"}      -> 3
                                [] Is \in Two \cup {"LTC", "GAS", "LSK"}      -> 2
                                [] OTHER                                      -> 0
          [] p[1] = "ETH"  -> CASE Is \in Few \cup {"LTC"}                    -> 3
                                [] Is \in Two \cup {"EOS", "WTC", "HSR", "AION"} -> 2
                                [] Is \in {"LINK", "XVG"}                     -> 1
                                [] OTHER                                      -> 0

HuobiDecimals(p) ==
  LET Whole == {"RCN", "RDN", "BAT", "QSP", "ELF"}
      Two   == {"ZIL", "LINK", "EOS", "TRX", "VEN", "ELA", "BLZ"}
      Is    == p[2]
      NoRule == ({"BTC", "USDT"} \X {"BCC"}) \cup {<<"BTC", "NAS">>, <<"USDT", "HSR">>, <<"USDT", "ELF">>}
  IN  IF p \in NoRule THEN Unrounded
      ELSE IF p[1] = "USDT" THEN IF Is = "XRP" THEN 2 ELSE 4
      ELSE CASE Is = "REQ" -> 1
             [] Is \in Whole \/ p = <<"BTC", "XRP">> -> 0
             [] Is \in Two \/ p \in {"BTC"} \X {"ZRX", "ENG", "ADA", "XEM"} -> 2
             [] OTHER -> 4

\* Mutant: Huobi's rules go before Binance's.
HuobiFirst(sell, buy, p) ==
  IF "HUOBI" \in {sell, buy} THEN HuobiDecimals(p)
  ELSE IF "BINANCE" \in {sell, buy} THEN BinanceDecimals(p) ELSE Unrounded

\* round_volume_by_exchange_rules: the decimals that both legs of a pair get.
DecimalsOfLegs(sell, buy, p) ==
  IF "BINANCE" \in {sell, buy} THEN BinanceDecimals(p)
  ELSE IF "HUOBI" \in {sell, buy} THEN HuobiDecimals(p) ELSE Unrounded

\* round_volume: what one exchange asks for.
DecimalsAt(e, p) ==
  CASE e = "BINANCE" -> BinanceDecimals(p)
    [] e = "HUOBI"   -> HuobiDecimals(p)
    [] OTHER         -> Unrounded
=============================================================================
