----------------------------- MODULE OracleFeeds -----------------------------
(***************************************************************************)
(* The price of a market: keepers post messages of the price service to a   *)
(* feed account in whatever order they have them, calls read the price, and *)
(* averages of it decide whether a later price is believed.                 *)
(*                                                                         *)
(* A message has its time, its price in the service's precision, confidence *)
(* and the service's own average.  sanitize_new_price, which the code calls *)
(* and does not define, clamps a new price to a band around the average.    *)
(* One second passes in a slot.                                             *)
(***************************************************************************)
EXTENDS Integers, FiniteSets

CONSTANTS
    Messages,               \* all messages, of different times
    FirstMessage,           \* the one in the feed when the market is created
    Sources,                \* the sources that the market may have been created with
    Marks,                  \* the market's average mark price
    ORACLE_PRECISION,       \* ten to the messages' exponent
    PRICE_PRECISION,
    BID_ASK_SPREAD_PRECISION,
    THOUSAND,               \* the multiple of the sources for a thousand units
    FIVE_BPS,               \* of PRICE_PRECISION
    GuardRails,             \* [slotsBeforeStale, confidenceMaxSize, tooVolatileRatio]
    SyntheticTiers,         \* [confidence, clamp] of the market's possible tiers
    FIVE_MINUTE, ONE_HOUR,
    MAX_NOW                 \* bound: the clock

VARIABLES feed, delivered, history, seen, source, tier, mark, now
oracleVars == <<feed, delivered, history, seen, source, tier, mark, now>>

Min2(a, b) == IF a < b THEN a ELSE b
Max2(a, b) == IF a < b THEN b ELSE a
AbsOf(n) == Max2(n, -n)
\* Division of signed integers rounds towards zero.
Quotient(a, b) == IF a >= 0 THEN a \div b ELSE -((-a) \div b)

-----------------------------------------------------------------------------
(* Reading a feed *)

Multiple(s) == IF s = "Pyth1KPull" THEN THOUSAND ELSE 1

\* A price in the precision of the program; a multiple that is not below the service's
\* precision is an error.
Scaled(value, s) ==
    LET precision == ORACLE_PRECISION \div Multiple(s)
    IN  IF precision > PRICE_PRECISION THEN Quotient(value, precision \div PRICE_PRECISION)
        ELSE value * (PRICE_PRECISION \div precision)

\* get_pyth_stable_coin_price: a price that is one up to its confidence is one.
Snapped(price, confidence, s) ==
    IF s = "PythStableCoinPull" /\ AbsOf(price - PRICE_PRECISION) <= Min2(FIVE_BPS, confidence)
    THEN PRICE_PRECISION ELSE price

OraclePrices ==
    {[price |-> Snapped(Scaled(feed.message.price, source), Scaled(feed.message.confidence, source), source),
      confidence |-> Scaled(feed.message.confidence, source),
      delay |-> now - feed.postedSlot] : ok \in {TRUE} \cap {ORACLE_PRECISION > Multiple(source)}}

Validities == {"NonPositive", "TooVolatile", "TooUncertain", "InsufficientDataPoints", "StaleForAMM", "Valid"}

\* oracle_validity.  A price that is not positive makes the division or the cast before the
\* classification fail; messages that are pulled always have enough data points.
OracleValidities(data, twap) ==
    IF data.price <= 0 THEN {}
    ELSE LET volatility == Max2(data.price, twap) \div Max2(1, Min2(data.price, twap))
             confidence == (Max2(1, data.confidence) * BID_ASK_SPREAD_PRECISION) \div data.price
         IN  {IF volatility > GuardRails.tooVolatileRatio THEN "TooVolatile"
              ELSE IF confidence > GuardRails.confidenceMaxSize * tier.confidence THEN "TooUncertain"
              ELSE IF data.delay > GuardRails.slotsBeforeStale THEN "StaleForAMM"
              ELSE "Valid"}

NormalActions == {"TriggerOrder", "FillOrderMatch", "FillOrderAmm", "UpdateTwap", "UpdateAMMCurve", "OracleOrderPrice"}

IsOracleValidForAction(validity, action) ==
    CASE action = "FillOrderAmm"     -> validity = "Valid"
      [] action = "OracleOrderPrice" -> validity \in {"Valid", "StaleForAMM", "InsufficientDataPoints"}
      [] action = "TriggerOrder"     -> validity \notin {"NonPositive", "TooVolatile"}
      [] action = "FillOrderMatch"   -> validity \notin {"NonPositive", "TooVolatile", "TooUncertain"}
      [] OTHER                       -> validity # "NonPositive"

-----------------------------------------------------------------------------
(* Averages *)

\* calculate_weighted_average: the sum is biased away from the smaller of its two terms.
WeightedAverage(new, old, weight1, weight2) ==
    LET bias    == IF weight2 <= 1 THEN 0
                   ELSE IF old * weight2 < new * weight1 THEN -1
                   ELSE IF old * weight2 > new * weight1 THEN 1 ELSE 0
        average == Quotient(new * weight1 + old * weight2, weight1 + weight2)
    IN  CASE weight1 = 0 -> old
          [] weight1 # 0 /\ weight2 = 0 -> new
          [] OTHER -> IF average = 0 /\ bias < 0 THEN 0 ELSE average + bias

NewTwap(price, last, lastTs, period) ==
    LET since == Max2(0, now - lastTs)
    IN  WeightedAverage(price, last, since, Max2(1, period - since))

\* sanitize_new_price: the band is a part of the average that the tier allows.
Sanitized(price) ==
    LET band == AbsOf(history.twap) \div tier.clamp
    IN  IF history.twap = 0 THEN price ELSE Max2(history.twap - band, Min2(price, history.twap + band))

\* The oracle's part of update_synth_market_twap_stats
Recorded(data) ==
    LET sanitized == Sanitized(data.price)
    IN  [price |-> data.price, confidence |-> data.confidence, delay |-> data.delay, ts |-> now,
         twap |-> NewTwap(sanitized, history.twap, history.ts, ONE_HOUR),
         twap5min |-> NewTwap(sanitized, history.twap5min, history.ts, FIVE_MINUTE)]

Widened(price) == [low |-> Min2(seen.low, price), high |-> Max2(seen.high, price)]

OracleInit ==
    /\ feed = [message |-> FirstMessage, postedSlot |-> 0]
    /\ delivered = {FirstMessage} /\ now = 0
    /\ source \in Sources /\ mark \in Marks /\ tier \in SyntheticTiers
    /\ \E data \in OraclePrices :
          /\ history = [price |-> data.price, confidence |-> data.confidence, delay |-> data.delay,
                        ts |-> 0, twap |-> data.price, twap5min |-> data.price]
          /\ seen = [low |-> data.price, high |-> data.price]

-----------------------------------------------------------------------------
(* Calls *)

\* A mistake: the last message wins.
PostAnyUpdate(m) ==
    /\ delivered' = delivered \cup {m}
    /\ feed' = [message |-> m, postedSlot |-> now]
    /\ UNCHANGED <<history, seen, source, tier, mark, now>>

\* update_pyth_pull_oracle and its two variants: "Pushing a stale price suceeds without changing
\* the on-chain state."
PostUpdate(m) ==
    /\ delivered' = delivered \cup {m}
    /\ feed' = IF m.time > feed.message.time THEN [message |-> m, postedSlot |-> now] ELSE feed
    /\ UNCHANGED <<history, seen, source, tier, mark, now>>

\* Every call that brings the interest of the market up to date
UpdateMarket ==
    /\ \E data \in OraclePrices :
          /\ history' = Recorded(data)
          /\ seen' = Widened(data.price)
    /\ UNCHANGED <<feed, delivered, source, tier, mark, now>>

\* update_spot_market_and_check_validity: the price is judged by an average it is part of.
UpdateMarketAndCheckValidity(action) ==
    /\ \E data \in OraclePrices : \E recorded \in {Recorded(data)} :
          /\ \E validity \in OracleValidities(data, recorded.twap) : IsOracleValidForAction(validity, action)
          /\ history' = recorded
          /\ seen' = Widened(data.price)
    /\ UNCHANGED <<feed, delivered, source, tier, mark, now>>

\* handle_update_amm_oracle_twap: the service's average replaces ours if it is as near to the
\* mark, and the mark does if it is on the other side of it.
UpdateAmmOracleTwap ==
    LET twap   == Scaled(feed.message.average, source)
        before == mark - history.twap
        after  == mark - twap
        flips  == (after > 0 /\ before < 0) \/ (after < 0 /\ before > 0)
    IN  /\ feed.message.average > Quotient(feed.message.price, 10)
        /\ flips \/ AbsOf(after) <= AbsOf(before)
        /\ history' = [history EXCEPT !.twap = IF flips THEN mark ELSE twap, !.ts = now]
        /\ seen' = Widened(history'.twap)
        /\ UNCHANGED <<feed, delivered, source, tier, mark, now>>

\* handle_reset_amm_oracle_twap; the mark's average is of any time.
ResetAmmOracleTwap(markTs) ==
    /\ markTs <= now
    /\ history' = [history EXCEPT !.twap = mark, !.ts = markTs]
    /\ seen' = Widened(mark)
    /\ UNCHANGED <<feed, delivered, source, tier, mark, now>>

Tick == now < MAX_NOW /\ now' = now + 1 /\ UNCHANGED <<feed, delivered, history, seen, source, tier, mark>>

OracleNext ==
    \/ \E m \in Messages : PostUpdate(m)
    \/ UpdateMarket
    \/ \E action \in NormalActions : UpdateMarketAndCheckValidity(action)
    \/ UpdateAmmOracleTwap
    \/ \E ts \in 0 .. MAX_NOW : ResetAmmOracleTwap(ts)
    \/ Tick

-----------------------------------------------------------------------------
(* Properties *)

\* Whatever the order in which messages arrive, and however often, the feed holds the newest.
FeedIsNewest == feed.message \in delivered /\ \A m \in delivered : m.time <= feed.message.time

\* The averages stay among the prices that were seen, up to the bias that each update adds.
AveragesInRange ==
    \A average \in {history.twap, history.twap5min} : average \in (seen.low - 3) .. (seen.high + 1)

\* "ordered by severity": what may use a price may use one with a milder verdict.
Milder(v) == CASE v = "NonPositive" -> "TooVolatile" [] v = "TooVolatile" -> "TooUncertain"
               [] v = "TooUncertain" -> "InsufficientDataPoints"
               [] v = "InsufficientDataPoints" -> "StaleForAMM" [] OTHER -> "Valid"
SeverityOrdered ==
    \A action \in NormalActions, v \in Validities :
        IsOracleValidForAction(v, action) => IsOracleValidForAction(Milder(v), action)

\* The feed, the averages and the verdicts can be relied on.
OraclesSound == FeedIsNewest /\ AveragesInRange /\ SeverityOrdered
=============================================================================
