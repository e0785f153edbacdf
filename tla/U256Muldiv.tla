------------------------------ MODULE U256Muldiv ------------------------------
(***************************************************************************)
(* The 256-bit numbers in which the pool multiplies and divides its prices *)
(* and liquidity: four words, the lowest first, in math/amm/u256_math.rs.   *)
(* The width of a word is a parameter, everything else is as in the code.   *)
(*                                                                         *)
(* A u64 of the code is a Word here and a u128 a number below DOUBLE.  An   *)
(* operation that would panic has the result Panic.                        *)
(***************************************************************************)
EXTENDS Integers, FiniteSetsExt, SequencesExt

CONSTANT U64_RESOLUTION   \* the bits of a word: 64 in the code
ASSUME ResolutionAssumption == U64_RESOLUTION \in Nat \ {0}

NUM_WORDS == 4
BASE == 2 ^ U64_RESOLUTION
DOUBLE == BASE * BASE

Indexes == 0..(NUM_WORDS - 1)
Words == 0..(BASE - 1)
U256 == [Indexes -> Words]

Panic == [quotient |-> <<>>, remainder |-> <<>>]

\* The number that the words stand for, and the words of a number.
ValueOf(n) == SumFunction([i \in Indexes |-> n[i] * BASE ^ i])
WordsOf(v) == [i \in Indexes |-> (v \div BASE ^ i) % BASE]
Zero == WordsOf(0)

\* LoHi for u128, hi_lo
Lo(x) == x % BASE
Hi(x) == (x \div BASE) % BASE
HiLo(hi, lo) == hi * BASE + lo

\* num_words: the highest word that is not zero counts.
NumWords(n) == Max({0} \cup {i + 1 : i \in {j \in Indexes : n[j] # 0}})

\* u64::leading_zeros
LeadingZeros(w) == Max({z \in 0..U64_RESOLUTION : w * 2 ^ z < BASE})

\* The indexes 0, ..., k - 1 in the order of the loops, and in reverse.
Up(k) == [i \in 1..k |-> i - 1]
Down(k) == Reverse(Up(k))

-----------------------------------------------------------------------------
(* Shifts and comparison *)

ShiftWordLeft(n) == [i \in Indexes |-> IF i = 0 THEN 0 ELSE n[i - 1]]
ShiftWordRight(n) == [i \in Indexes |-> IF i = NUM_WORDS - 1 THEN 0 ELSE n[i + 1]]

\* Whole words first, then the bits that are left.
ShiftLeft(n, amount) ==
    LET words == amount \div U64_RESOLUTION
        bits  == amount % U64_RESOLUTION
        moved == FoldLeft(LAMBDA r, i : ShiftWordLeft(r), n, Up(words))
    IN  IF amount >= U64_RESOLUTION * NUM_WORDS THEN Zero
        ELSE [i \in Indexes |-> Lo(moved[i] * 2 ^ bits)
                 + IF i = 0 \/ bits = 0 THEN 0
                   ELSE moved[i - 1] \div 2 ^ (U64_RESOLUTION - bits)]

ShiftRight(n, amount) ==
    LET words == amount \div U64_RESOLUTION
        bits  == amount % U64_RESOLUTION
        moved == FoldLeft(LAMBDA r, i : ShiftWordRight(r), n, Up(words))
    IN  IF amount >= U64_RESOLUTION * NUM_WORDS THEN Zero
        ELSE [i \in Indexes |-> (moved[i] \div 2 ^ bits)
                 + IF i = NUM_WORDS - 1 \/ bits = 0 THEN 0
                   ELSE Lo(moved[i + 1] * 2 ^ (U64_RESOLUTION - bits))]

\* lt: the highest word in which they differ decides.
Lt(a, b) ==
    LET differ == {i \in Indexes : a[i] # b[i]}
    IN  differ # {} /\ a[Max(differ)] < b[Max(differ)]

-----------------------------------------------------------------------------
(* Addition, subtraction, multiplication *)

Add(a, b) ==
    LET carry[i \in 0..NUM_WORDS] ==
            IF i = 0 THEN 0 ELSE Hi(a[i - 1] + b[i - 1] + carry[i - 1])
    IN  [i \in Indexes |-> Lo(a[i] + b[i] + carry[i])]

Sub(a, b) ==
    LET borrow[i \in 0..NUM_WORDS] ==
            IF i > 0 /\ a[i - 1] - b[i - 1] - borrow[i - 1] < 0 THEN 1 ELSE 0
    IN  [i \in Indexes |-> (a[i] - b[i] - borrow[i]) % BASE]

\* get_add_inverse: MAX - n + 1
AddInverse(n) ==
    IF n = Zero THEN Zero ELSE Add(Sub([i \in Indexes |-> BASE - 1], n), WordsOf(1))

\* One row of the product: a times word j of b, added to what has been summed.
MulRow(a, b, sum, j) ==
    LET Step(acc, i) ==
            LET t == a[i] * b[j] + acc.sum[i + j] + acc.k
            IN  IF i + j < NUM_WORDS
                THEN [sum |-> [acc.sum EXCEPT ![i + j] = Lo(t)], k |-> Hi(t)]
                ELSE acc
        row  == FoldLeft(Step, [sum |-> sum, k |-> 0], Up(NumWords(a)))
        last == j + NumWords(a)
    IN  IF last < NUM_WORDS THEN [row.sum EXCEPT ![last] = row.k] ELSE row.sum

Mul(a, b) == FoldLeft(LAMBDA sum, j : MulRow(a, b, sum, j), Zero, Up(NumWords(b)))

\* mul_u256: four products of words, the carry of the middle ones collected in c1.
MulU256(v, n) ==
    LET a0 == Lo(v) * Lo(n)
        a1 == Lo(v) * Hi(n)
        b0 == Hi(v) * Lo(n)
        c1 == Hi(a0) + Lo(a1) + Lo(b0)
        high == Hi(v) * Hi(n) + Hi(c1) + Hi(a1) + Hi(b0)
    IN  [i \in Indexes |-> <<Lo(a0), Lo(c1), Lo(high), Hi(high)>>[i + 1]]

-----------------------------------------------------------------------------
(* Division *)

\* The loop on qhat, which the two highest words estimate and the next ones
\* correct: as long as it does not fit a word or is too large, it is decremented,
\* until the rest rhat no longer fits.
RECURSIVE Corrected(_, _, _, _)
CorrectedOnce(estimate, d1, d1Next, d0Next) ==
    IF Hi(estimate.qhat) # 0 \/ estimate.qhat * d1Next > HiLo(Lo(estimate.rhat), d0Next)
    THEN [qhat |-> estimate.qhat - 1, rhat |-> estimate.rhat + d1]
    ELSE estimate
Corrected(estimate, d1, d1Next, d0Next) ==
    LET next == CorrectedOnce(estimate, d1, d1Next, d0Next)
    IN  IF next = estimate \/ Hi(next.rhat) # 0 THEN next
        ELSE Corrected(next, d1, d1Next, d0Next)

\* qhat times the divisor is subtracted from the words of the dividend from
\* index on; k is what is still to be taken from the head.
Subtracted(qhat, divisor, len, dividend, index) ==
    LET Step(acc, i) ==
            LET p == qhat * divisor[i]
                t == (acc.words[index + i] - acc.k - Lo(p)) % DOUBLE
            IN  [words |-> [acc.words EXCEPT ![index + i] = Lo(t)],
                 k |-> (Hi(p) - Hi(t)) % BASE]
    IN  FoldLeft(Step, [words |-> dividend, k |-> 0], Up(len))

\* The divisor is added back when qhat was one too large.
AddedBack(divisor, len, dividend, index) ==
    LET Step(acc, i) ==
            LET t == acc.words[index + i] + divisor[i] + acc.k
            IN  [words |-> [acc.words EXCEPT ![index + i] = Lo(t)], k |-> Hi(t)]
    IN  FoldLeft(Step, [words |-> dividend, k |-> 0], Up(len))

\* div_loop: one word of the quotient.  The head of the dividend is the word
\* above those of the divisor; above the highest word it is the carry space.  When
\* the divisor is added back the code reads the head from the array in both
\* cases, and panics in the second.
DivLoop(state, index, divisor, len) ==
    LET useCarry == index + len = NUM_WORDS
        head     == IF useCarry THEN state.carry ELSE state.dividend[index + len]
        d0       == HiLo(head, state.dividend[index + len - 1])
        d1       == divisor[len - 1]
        qhat     == Corrected([qhat |-> d0 \div d1, rhat |-> d0 % d1], d1, divisor[len - 2],
                              state.dividend[index + len - 2]).qhat
        less     == Subtracted(qhat, divisor, len, state.dividend, index)
        rest     == (head - less.k) % BASE
        tooLarge == less.k > head
        back     == AddedBack(divisor, len, less.words, index)
        words    == IF tooLarge THEN back.words ELSE less.words
        newHead  == IF tooLarge THEN Lo(rest + back.k) ELSE rest
    IN  [failed   |-> state.failed \/ (tooLarge /\ useCarry),
         carry    |-> IF useCarry THEN newHead ELSE state.carry,
         dividend |-> IF useCarry THEN words ELSE [words EXCEPT ![index + len] = newHead],
         quotient |-> [state.quotient EXCEPT ![index] = Lo(IF tooLarge THEN qhat - 1 ELSE qhat)]]

\* Case 3: a divisor of one word, k is the rest so far.
DivByWord(n, w) ==
    LET Step(acc, j) ==
            LET d1 == HiLo(Lo(acc.k), n[j])
            IN  [quotient |-> [acc.quotient EXCEPT ![j] = Lo(d1 \div w)], k |-> d1 % w]
        done == FoldLeft(Step, [quotient |-> Zero, k |-> 0], Down(NumWords(n)))
    IN  [quotient |-> done.quotient, remainder |-> WordsOf(done.k)]

\* Divisor and dividend are shifted so that the divisor's highest bit is set.
DivNormalized(n, d) ==
    LET s     == LeadingZeros(d[NumWords(d) - 1])
        carry == IF NumWords(n) = NUM_WORDS /\ LeadingZeros(n[NUM_WORDS - 1]) < s
                 THEN n[NUM_WORDS - 1] \div 2 ^ (U64_RESOLUTION - s) ELSE 0
        start == [failed |-> FALSE, carry |-> carry, dividend |-> ShiftLeft(n, s),
                  quotient |-> Zero]
        done  == FoldLeft(LAMBDA st, j : DivLoop(st, j, ShiftLeft(d, s), NumWords(d)),
                          start, Down(NumWords(n) - NumWords(d) + 1))
    IN  IF done.failed THEN Panic
        ELSE [quotient |-> done.quotient, remainder |-> ShiftRight(done.dividend, s)]

\* div with its cases: zero, too short, short enough for u128, one word, the rest.
Div(n, d) ==
    IF NumWords(d) = 0 THEN Panic
    ELSE IF NumWords(n) < NumWords(d) THEN [quotient |-> Zero, remainder |-> n]
    ELSE IF NumWords(n) < 3 THEN [quotient |-> WordsOf(ValueOf(n) \div ValueOf(d)),
                                  remainder |-> WordsOf(ValueOf(n) % ValueOf(d))]
    ELSE IF NumWords(d) = 1 THEN DivByWord(n, d[0])
    ELSE DivNormalized(n, d)
=============================================================================
