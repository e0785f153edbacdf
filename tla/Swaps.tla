--------------------------------- MODULE Swaps ---------------------------------
(***************************************************************************)
(* A swap in a market's pool: the tick arrays it may look at, the search   *)
(* for the next initialized tick in them, and the loop that moves the      *)
(* price from tick to tick until the amount is used up or the limit is     *)
(* reached, crossing each tick on the way.                                 *)
(***************************************************************************)
EXTENDS LiquidityPool, SequencesExt

TICKS_IN_ARRAY == TICK_ARRAY_SIZE * TICK_SPACING

\* check_is_valid_start_tick
IsValidStart(start) == MIN_TICK_INDEX - TICKS_IN_ARRAY < start /\ start <= MAX_TICK_INDEX

\* get_start_tick_indexes.  The arrays that are not valid are the last ones.
StartTickIndexes(toQuote) ==
    LET base    == (amm.tick \div TICKS_IN_ARRAY) * TICKS_IN_ARRAY
        shifted == amm.tick + TICK_SPACING >= base + TICKS_IN_ARRAY
        start(i) == base + TICKS_IN_ARRAY *
                        (IF toQuote THEN 1 - i ELSE IF shifted THEN i ELSE i - 1)
        valid   == {i \in 1..3 : IsValidStart(start(i))}
    IN  [i \in 1..Cardinality(valid) |-> start(i)]

\* tick_offset
Offset(t, start) == (t - start) \div TICK_SPACING

\* in_search_range
InSearchRange(t, start, shifted) ==
    t - start + (IF shifted THEN TICK_SPACING ELSE 0) \in 0..(TICKS_IN_ARRAY - 1)

\* get_next_init_tick_index of one array: to the left the search includes the
\* tick it starts from, to the right it does not.
InitializedAhead(all, start, t, toQuote) ==
    {i \in DOMAIN all : /\ all[i].initialized /\ i \in start..(start + TICKS_IN_ARRAY - 1)
                        /\ IF toQuote THEN i <= t ELSE i > t}

NotFound == [array |-> 0, index |-> 0]

\* get_next_initialized_tick_index: the first array from this one on that has an
\* initialized tick ahead or that the search cannot leave.
NextInitializedTick(all, starts, array, t, toQuote) ==
    LET last(a) == starts[a] + TICKS_IN_ARRAY - 1
        from(a) == IF a = array THEN t
                   ELSE IF toQuote THEN starts[a - 1] - 1 ELSE last(a - 1)
        ahead(a) == InitializedAhead(all, starts[a], from(a), toQuote)
        isEnd(a) == IF toQuote THEN starts[a] <= MIN_TICK_INDEX ELSE last(a) >= MAX_TICK_INDEX
        stops == {a \in array..Len(starts) : ahead(a) # {} \/ isEnd(a) \/ a = Len(starts)}
        a == Min(stops)
        index == IF ahead(a) # {} THEN IF toQuote THEN Max(ahead(a)) ELSE Min(ahead(a))
                 ELSE IF isEnd(a) THEN IF toQuote THEN MIN_TICK_INDEX ELSE MAX_TICK_INDEX
                 ELSE IF toQuote THEN starts[a] ELSE last(a)
    IN  IF stops = {} \/ \E b \in array..a : ~InSearchRange(from(b), starts[b], ~toQuote)
        THEN NotFound
        ELSE [array |-> a, index |-> index]

-----------------------------------------------------------------------------

\* Iterations of the loop: one per tick and one to the limit or the last token.
MaxSteps == Cardinality(TickIndexes) + 2

Failed(s) == [s EXCEPT !.ok = FALSE]

\* The array after the one the price has left.
ArrayAfter(array, start, t, toQuote) ==
    IF Offset(t, start) = (IF toQuote THEN 0 ELSE TICK_ARRAY_SIZE - 1) THEN array + 1 ELSE array

\* calculate_update, update_tick and the move to the other side of the tick
CrossAndStayInside(s, starts, next, toQuote) ==
    LET initialized == next.index \in DOMAIN s.ticks /\ s.ticks[next.index].initialized
        net == IF toQuote THEN -s.ticks[next.index].net ELSE s.ticks[next.index].net
        moved == [s EXCEPT !.tick = next.index,
                           !.array = ArrayAfter(next.array, starts[next.array], next.index, toQuote)]
    IN  IF ~initialized THEN moved
        ELSE IF s.liquidity + net < 0 THEN Failed(s)
        ELSE [moved EXCEPT !.liquidity = @ + net,
                           !.ticks[next.index] = Crossed(@, s.growth)]
Cross(s, starts, next, toQuote) ==
    LET initialized == next.index \in DOMAIN s.ticks /\ s.ticks[next.index].initialized
        net == IF toQuote THEN -s.ticks[next.index].net ELSE s.ticks[next.index].net
        moved == [s EXCEPT !.tick = IF toQuote THEN next.index - 1 ELSE next.index,
                           !.array = ArrayAfter(next.array, starts[next.array], next.index, toQuote)]
    IN  IF ~initialized THEN moved
        ELSE IF s.liquidity + net < 0 THEN Failed(s)
        ELSE [moved EXCEPT !.liquidity = @ + net,
                           !.ticks[next.index] = Crossed(@, s.growth)]

\* calculate_fees
FeesTaken(s, fee, input) ==
    LET protocolFee == (fee * amm.protocolFeeRate) \div PROTOCOL_FEE_RATE_MUL_VALUE
        grown == IF s.liquidity = 0 THEN 0 ELSE ((fee - protocolFee) * ONE) \div s.liquidity
    IN  [s EXCEPT !.protocolFee = @ + protocolFee,
                  !.growth[input] = WrappingAdd(@, grown % WORD),
                  !.earned = Earning(@, s.tick, input, grown % WORD)]

\* One iteration of the loop of swap.
SwapStep(s, starts, limit, exactIn, toQuote) ==
    LET next   == NextInitializedTick(s.ticks, starts, s.array, s.tick, toQuote)
        target == IF toQuote THEN Max({limit, TickPrice[next.index]})
                             ELSE Min({limit, TickPrice[next.index]})
        step   == ComputeSwap(s.remaining, amm.feeRate, s.liquidity, s.price, target, exactIn, toQuote)
        remaining  == s.remaining - (IF exactIn THEN step.in + step.fee ELSE step.out)
        calculated == s.calculated + (IF exactIn THEN step.out ELSE step.in + step.fee)
        paid   == [FeesTaken(s, step.fee, IF toQuote THEN "synthetic" ELSE "quote")
                       EXCEPT !.remaining = remaining, !.calculated = calculated,
                              !.price = step.price]
    IN  IF next = NotFound \/ ~step.ok \/ remaining < 0 \/ calculated > U64_MAX THEN Failed(s)
        ELSE IF step.price = TickPrice[next.index] THEN Cross(paid, starts, next, toQuote)
        ELSE IF step.price # s.price THEN [paid EXCEPT !.tick = TickAt(step.price)]
        ELSE paid

SwapStart(amount) ==
    [ok |-> TRUE, remaining |-> amount, calculated |-> 0, price |-> amm.sqrtPrice,
     tick |-> amm.tick, liquidity |-> amm.liquidity, protocolFee |-> 0, growth |-> GrowthNow,
     ticks |-> ticks, array |-> 1, earned |-> EarnedNow]

\* The loop goes on while there is an amount left and the price is not at the limit.
SwapLoop(s, starts, limit, exactIn, toQuote) ==
    IF s.ok /\ s.remaining > 0 /\ s.price # limit
    THEN SwapStep(s, starts, limit, exactIn, toQuote) ELSE s

SwapResult(amount, starts, limit, exactIn, toQuote) ==
    LET run[k \in 0..MaxSteps] ==
            IF k = 0 THEN SwapStart(amount)
            ELSE SwapLoop(run[k - 1], starts, limit, exactIn, toQuote)
    IN  run[MaxSteps]

\* handle_swap, given this many of the tick arrays that it could use.  It fails
\* when the growth of the input's fees wraps around on the way.
Swap(amount, priceLimit, exactIn, toQuote, arrays) ==
    LET starts == SubSeq(StartTickIndexes(toQuote), 1, arrays)
        limit  == IF priceLimit # NoLimit THEN priceLimit
                  ELSE IF toQuote THEN MIN_SQRT_PRICE ELSE MAX_SQRT_PRICE
        input  == IF toQuote THEN "synthetic" ELSE "quote"
        output == IF toQuote THEN "quote" ELSE "synthetic"
    IN  /\ arrays <= Len(StartTickIndexes(toQuote))
        /\ amount > 0
        /\ IF toQuote THEN limit <= amm.sqrtPrice ELSE limit >= amm.sqrtPrice
        /\ \E r \in {SwapResult(amount, starts, limit, exactIn, toQuote)} :
             LET used == amount - r.remaining IN
             /\ r.ok /\ (r.remaining = 0 \/ r.price = limit)
             /\ r.remaining = 0 \/ exactIn \/ priceLimit # NoLimit
             /\ r.growth[input] >= amm.growth[input]
             /\ amm.protocolFeeOwed[input] + r.protocolFee <= U64_MAX
             /\ amm' = [amm EXCEPT !.tick = r.tick, !.sqrtPrice = r.price, !.liquidity = r.liquidity,
                                   !.growth = r.growth, !.rewardsUpdatedAt = now,
                                   !.protocolFeeOwed[input] = @ + r.protocolFee]
             /\ ticks' = r.ticks
             /\ vault' = [vault EXCEPT ![input]  = @ + (IF exactIn THEN used ELSE r.calculated),
                                       ![output] = @ - (IF exactIn THEN r.calculated ELSE used)]
             /\ vault'[input] <= MAX_VAULT /\ vault'[output] >= 0
             /\ earned' = r.earned
        /\ UNCHANGED <<now, positions, rewardVault>>
=============================================================================
