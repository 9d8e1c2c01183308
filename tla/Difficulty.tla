----------------------------- MODULE Difficulty ------------------------------
(***************************************************************************)
(* The difficulty estimator (src/src/cryptonote_basic/difficulty.cpp):     *)
(* the proof-of-work check and the two retargeting variants, as pure      *)
(* operators.  Machine words are WordBits wide (64 in the code): every    *)
(* uint64_t operation is taken modulo 2^WordBits.  The LWMA variant's     *)
(* doubles are computed as exact rationals; the code's double rounding    *)
(* only differs within an ulp of a rounding boundary.                      *)
(***************************************************************************)
EXTENDS Integers, Sequences, SequencesExt, TLC

CONSTANTS
    WordBits,               \* width of uint64_t (even)
    DIFFICULTY_WINDOW_V2,   \* cryptonote_config.h, 60
    DIFFICULTY_CUT,         \* trim at each end of the sorted window
    MaxDifficulty,          \* max128bit, the ceiling of next_difficulty
    Target                  \* target_seconds, DIFFICULTY_TARGET_V2 = 120

ASSUME WordBits % 2 = 0 /\ DIFFICULTY_WINDOW_V2 >= 2
ASSUME 2 * DIFFICULTY_CUT <= DIFFICULTY_WINDOW_V2 - 2   \* the static_assert

Word == 2^WordBits
Half == 2^(WordBits \div 2)

(***************************************************************************)
(* check_hash                                                             *)
(***************************************************************************)
\* mul (portable variant): the product from four half-word products.  The
\* x86-64 build uses mul128, which returns the exact product as well.
\* `(r << 32) | lowRes1` joins disjoint bits, so it is a sum here.
mul(a, b) ==
    LET aLow == a % Half   aHigh == a \div Half
        bLow == b % Half   bHigh == b \div Half
        res1 == (aLow * bLow) % Word
        lowRes1 == res1 % Half
        res2 == ((aHigh * bLow) + (res1 \div Half)) % Word
        res3 == (aLow * bHigh) % Word
        lowRes2 == res3 % Half
        res4 == ((aHigh * bHigh) + (res3 \div Half)) % Word
        r1 == ((res2 % Half) + lowRes2) % Word
        r2 == ((res2 \div Half) + (res4 % Half) + (r1 \div Half)) % Word
        r3 == ((res4 \div Half) + (r2 \div Half)) % Word
    IN  [low  |-> (((r1 * Half) % Word) + lowRes1) % Word,
         high |-> ((r2 % Half) + ((r3 * Half) % Word)) % Word]

cadd(a, b) == ((a + b) % Word) < a

\* Seeded fault (mutation testing): the carry-in case dropped.
cadcNoCarryIn(a, b, c) == ((a + b) % Word) < a

cadc(a, b, c) == ((a + b) % Word) < a \/ (c /\ ((a + b) % Word) = Word - 1)

\* hash is the four little-endian words, hash[1] the lowest.
check_hash(hash, difficulty) ==
    LET m3 == mul(hash[4], difficulty)
        m0 == mul(hash[1], difficulty)
        m1 == mul(hash[2], difficulty)
        m2 == mul(hash[3], difficulty)
        carry1 == cadd(m0.high, m1.low)
        carry2 == cadc(m1.high, m2.low, carry1)
        carry3 == cadc(m2.high, m3.low, carry2)
    IN  m3.high = 0 /\ ~carry3

\* check_hash_128 with FORCE_FULL_128_BITS: the whole hash as one number.
check_hash_128(hash, difficulty) ==
    LET hashVal == FoldLeft(LAMBDA acc, w : acc * Word + w, 0, Reverse(hash))
    IN  hashVal * difficulty <= Word^4 - 1

(***************************************************************************)
(* next_difficulty_v2 (LWMA)                                               *)
(***************************************************************************)
SumSeqOf(s) == FoldLeft(+, 0, s)
ProductOf(s) == FoldLeft(LAMBDA a, b : a * b, 1, s)

\* sispop::round, half away from zero, of num / den (den > 0).
RoundDiv(num, den) ==
    IF num >= 0 THEN (2 * num + den) \div (2 * den)
    ELSE -((2 * (-num) + den) \div (2 * den))

\* The window the loop reads: with fewer than N + 1 samples N shrinks,
\* otherwise resize(N + 1) keeps the FIRST N + 1.
LwmaWindow(timestamps) ==
    IF Len(timestamps) - 1 < DIFFICULTY_WINDOW_V2 - 1 THEN Len(timestamps) - 1
    ELSE DIFFICULTY_WINDOW_V2 - 1

\* Seeded fault (mutation testing): the "keep LWMA sane" clamp dropped.
LwmaOfUnclamped(timestamps, T, use_old_lwma, N) ==
    LET k  == (N * (N + 1)) \div 2
        st(i) == LET raw == timestamps[i + 1] - timestamps[i]
                     lo  == IF use_old_lwma /\ raw < -7 * T THEN -7 * T ELSE raw
                 IN  IF lo > 7 * T THEN 7 * T ELSE lo
    IN  [num |-> SumSeqOf([i \in 1..N |-> st(i) * i]), den |-> k]

\* The clamped LWMA as a fraction [num, den]; sane when num > 0.
LwmaOf(timestamps, T, use_old_lwma, N) ==
    LET k  == (N * (N + 1)) \div 2
        st(i) == LET raw == timestamps[i + 1] - timestamps[i]
                     lo  == IF use_old_lwma /\ raw < -7 * T THEN -7 * T ELSE raw
                 IN  IF lo > 7 * T THEN 7 * T ELSE lo
        S  == SumSeqOf([i \in 1..N |-> st(i) * i])
    IN  IF RoundDiv(S, k) < T \div 20 THEN [num |-> T \div 20, den |-> 1]
        ELSE [num |-> S, den |-> k]

\* Sentinel of a cast from a non-finite or negative double (undefined).
UndefinedCast == -1

next_difficulty_v2(timestamps, cumulative_difficulties, T, use_old_lwma) ==
    IF Len(timestamps) < 4 THEN 1
    ELSE LET N  == LwmaWindow(timestamps)
             d  == [i \in 1..N |-> cumulative_difficulties[i + 1] - cumulative_difficulties[i]]
             lw == LwmaOf(timestamps, T, use_old_lwma, N)
             Q  == ProductOf(d)
             P  == SumSeqOf([i \in 1..N |-> IF d[i] = 0 THEN 0 ELSE Q \div d[i]])
             \* 1/0 is +inf, so the harmonic mean, and the result, are 0
             next == IF \E i \in 1..N : d[i] = 0 THEN 0
                     ELSE (N * Q * T * lw.den * 499) \div (P * lw.num * 500)
             v1 == IF next = 0 THEN 1 ELSE next
         IN  IF lw.num <= 0 THEN UndefinedCast
             ELSE IF v1 < 100000 * T THEN v1 ELSE 100000 * T

(***************************************************************************)
(* next_difficulty (windowed median cut)                                   *)
(***************************************************************************)
CutLen == DIFFICULTY_WINDOW_V2 - 2 * DIFFICULTY_CUT

\* Seeded fault (mutation testing): cut_begin without the halving.
CutWindowUnhalved(length) ==
    IF length <= CutLen THEN [begin |-> 0, end |-> length]
    ELSE [begin |-> length - CutLen + 1, end |-> length - CutLen + 1 + CutLen]

\* cut_begin and cut_end (0-based, end exclusive).
CutWindow(length) ==
    IF length <= CutLen THEN [begin |-> 0, end |-> length]
    ELSE LET b == (length - CutLen + 1) \div 2 IN [begin |-> b, end |-> b + CutLen]

FirstN(s, n) == IF Len(s) > n THEN SubSeq(s, 1, n) ELSE s

\* Seeded fault (mutation testing): the bootstrap case taken for two samples.
next_difficulty_bootstrap_two(timestamps, cumulative_difficulties, target_seconds) ==
    LET ts == FirstN(timestamps, DIFFICULTY_WINDOW_V2)
        cd == FirstN(cumulative_difficulties, DIFFICULTY_WINDOW_V2)
        length == Len(ts)
        sorted == SortSeq(ts, <)
        cut == CutWindow(length)
        span0 == sorted[cut.end] - sorted[cut.begin + 1]
        time_span == IF span0 = 0 THEN 1 ELSE span0
        total_work == cd[cut.end] - cd[cut.begin + 1]
        res == (total_work * target_seconds + time_span - 1) \div time_span
    IN  IF length <= 2 THEN 1
        ELSE IF res > MaxDifficulty THEN 0 ELSE res

next_difficulty(timestamps, cumulative_difficulties, target_seconds) ==
    LET ts == FirstN(timestamps, DIFFICULTY_WINDOW_V2)
        cd == FirstN(cumulative_difficulties, DIFFICULTY_WINDOW_V2)
        length == Len(ts)
        sorted == SortSeq(ts, <)
        cut == CutWindow(length)
        span0 == sorted[cut.end] - sorted[cut.begin + 1]
        time_span == IF span0 = 0 THEN 1 ELSE span0
        total_work == cd[cut.end] - cd[cut.begin + 1]
        res == (total_work * target_seconds + time_span - 1) \div time_span
    IN  IF length <= 1 THEN 1
        ELSE IF res > MaxDifficulty THEN 0 ELSE res

(***************************************************************************)
(* The query machines: a state is one input, every step poses another.    *)
(***************************************************************************)
CONSTANTS
    MaxSamples,      \* longest window posed (callers pass DIFFICULTY_BLOCKS_COUNT_V2)
    TimestampSteps,  \* differences between consecutive timestamps
    DifficultySteps  \* per-block difficulties (cumulative differences)

VARIABLE q

Words == 0..(Word - 1)
HashQueries == [hash : [1..4 -> Words], difficulty : Words]

\* Windows from a base timestamp and a base cumulative difficulty.
Accumulate(base, steps) ==
    [i \in 1..(Len(steps) + 1) |-> base + SumSeqOf(SubSeq(steps, 1, i - 1))]

\* A window of 1 .. MaxSamples samples is posed by its steps: timestamps
\* from 7 * Target on, and cumulative difficulties from 0 on.
WindowQueries ==
    UNION {[tsteps : [1..n -> TimestampSteps], dsteps : [1..n -> DifficultySteps],
            old : BOOLEAN] : n \in 0..(MaxSamples - 1)}

\* A query is either a hash check or a retargeting window.
IsHashQuery   == "hash" \in DOMAIN q
IsWindowQuery == "tsteps" \in DOMAIN q

\* Every step changes one word of the hash, or the difficulty.
PoseHash ==
    /\ IsHashQuery
    /\ \/ \E i \in 1..4, w \in Words : q' = [q EXCEPT !.hash[i] = w]
       \/ \E d \in Words : q' = [q EXCEPT !.difficulty = d]

\* Every step changes one timestamp step, one difficulty step or the
\* use_old_lwma flag.
PoseWindow ==
    /\ IsWindowQuery
    /\ \/ \E i \in DOMAIN q.tsteps, x \in TimestampSteps : q' = [q EXCEPT !.tsteps[i] = x]
       \/ \E i \in DOMAIN q.dsteps, x \in DifficultySteps : q' = [q EXCEPT !.dsteps[i] = x]
       \/ q' = [q EXCEPT !.old = ~@]

Spec == q \in HashQueries \cup WindowQueries /\ [][PoseHash \/ PoseWindow]_q
WindowSpec == q \in WindowQueries /\ [][PoseWindow]_q

\* The window of the current query.
Timestamps == Accumulate(7 * Target, q.tsteps)
CumulativeDifficulties == Accumulate(0, q.dsteps)

(***************************************************************************)
(* Properties                                                             *)
(***************************************************************************)
\* check_hash, the word-by-word carry chain, accepts exactly the hashes the
\* full-width check_hash_128 accepts: hash * difficulty fits in four words
\* (spec 4.1, hash_meets_difficulty).
CheckHashMatchesWideCheck ==
    IsHashQuery => check_hash(q.hash, q.difficulty) = check_hash_128(q.hash, q.difficulty)

\* next_difficulty's assert: for every window of two or more samples the
\* trimmed range has at least two samples and lies inside the window.
CutWindowWithinSamples ==
    IsWindowQuery =>
    LET length == Len(FirstN(Timestamps, DIFFICULTY_WINDOW_V2))
        cut == CutWindow(length)
    IN  length >= 2 => cut.begin + 2 <= cut.end /\ cut.end <= length

\* Spec 7: timestamps spaced exactly target_seconds apart and a constant
\* per-block difficulty D make next_difficulty return D.
SteadyStateFixedPoint ==
    IsWindowQuery =>
    LET n == Len(Timestamps)
    IN  \A D \in DifficultySteps \ {0} :
           /\ n >= 2
           /\ \A i \in 1..(n - 1) : Timestamps[i + 1] - Timestamps[i] = Target
           /\ \A i \in 1..(n - 1) : CumulativeDifficulties[i + 1] - CumulativeDifficulties[i] = D
           => next_difficulty(Timestamps, CumulativeDifficulties, Target) = D

\* Spec 4.1 B and 7: whatever the timestamps (equal, decreasing, far
\* apart) and per-block difficulties, next_difficulty_v2 never divides by
\* a non-positive LWMA and returns a value in 1 .. 100000 * target_seconds.
V2ResultDefined ==
    IsWindowQuery => next_difficulty_v2(Timestamps, CumulativeDifficulties, Target, q.old) \in 1..(100000 * Target)

\* Spec 4.1 B step 2: next_difficulty_v2 uses the most recent N + 1
\* samples, so a longer window gives the result of its last N + 1.
LwmaUsesMostRecentWindow ==
    LET n == Len(Timestamps)
        keep == DIFFICULTY_WINDOW_V2
    IN  n > keep =>
            next_difficulty_v2(Timestamps, CumulativeDifficulties, Target, q.old) =
            next_difficulty_v2(SubSeq(Timestamps, n - keep + 1, n), SubSeq(CumulativeDifficulties, n - keep + 1, n),
                               Target, q.old)

=============================================================================
