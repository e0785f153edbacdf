----------------------------- MODULE MCFoundations ----------------------------
(***************************************************************************)
(* The instance of Foundations, and beside it the wide arithmetic of the    *)
(* pool: every dividend, counted up from zero, with every divisor of        *)
(* U256Muldiv.                                                              *)
(***************************************************************************)
EXTENDS Foundations, U256Muldiv

VARIABLES dividend, divisor
operands == <<dividend, divisor>>
allVars  == <<foundationVars, operands>>

CONSTANTS r1, r2
ACommunityAndACouncilRecord == {<<r1, "community">>, <<r2, "council">>}

MCInit ==
    /\ FoundationsInit
    /\ dividend = Zero
    /\ divisor \in IF part = "words" THEN U256 \ {Zero} ELSE {Zero}

CountUp == dividend' = Add(dividend, WordsOf(1)) /\ UNCHANGED divisor

MCNext ==
    \/ FoundationsNext /\ UNCHANGED operands
    \/ part = "words" /\ CountUp /\ UNCHANGED foundationVars

MCSpec == MCInit /\ [][MCNext]_allVars

-----------------------------------------------------------------------------

MODULUS == BASE ^ NUM_WORDS
n == ValueOf(dividend)
d == ValueOf(divisor)

\* Long division by words agrees with the division of the numbers, whichever of
\* its cases is taken.  It returns unless a dividend of four words is divided by three or four.
DivisionIsExact ==
    LET result == Div(dividend, divisor)
    IN  divisor # Zero =>
            \/ result = [quotient |-> WordsOf(n \div d), remainder |-> WordsOf(n % d)]
            \/ result = Panic /\ NumWords(dividend) = NUM_WORDS /\ NumWords(divisor) >= 3

\* Products, sums, differences and shifts by words are those of the numbers,
\* modulo what four words hold.
RingIsExact ==
    LET amount == d % (U64_RESOLUTION * NUM_WORDS + 1)
        v      == n % DOUBLE
        w      == d % DOUBLE
    IN  /\ Mul(dividend, divisor) = WordsOf((n * d) % MODULUS)
        /\ MulU256(v, w) = WordsOf(v * w)
        /\ Add(dividend, divisor) = WordsOf((n + d) % MODULUS)
        /\ Sub(dividend, divisor) = WordsOf((n - d) % MODULUS)
        /\ Add(dividend, AddInverse(dividend)) = Zero
        /\ ShiftLeft(dividend, amount) = WordsOf((n * 2 ^ amount) % MODULUS)
        /\ ShiftRight(dividend, amount) = WordsOf(n \div 2 ^ amount)
        /\ Lt(dividend, divisor) <=> n < d

\* The wide arithmetic of the pool (u256_math.rs) computes what its callers in
\* token_math.rs take it for.
WideArithmeticIsExact == part = "words" => DivisionIsExact /\ RingIsExact
=============================================================================
