--------------------------- MODULE PhiloxRngProofs ---------------------------
(***************************************************************************)
(* Proofs about PhiloxRng for any number of generators and events and any   *)
(* width of the counter: no word is used twice before the counter wraps,    *)
(* streams of different events are disjoint, and a number of 53 bits comes  *)
(* from one block.                                                         *)
(*                                                                         *)
(* What holds of a generator r that was constructed for event e and has used *)
(* the words ws is GenInv(r, ws, e).  It is kept by the two things a draw is *)
(* made of: refilling the buffer and taking a word.                        *)
(***************************************************************************)
EXTENDS PhiloxRng, TLAPS

\* A word comes from an earlier block, or from the part of the buffered block
\* that has been handed out.
Before(w, r) ==
    \/ w.ctr0 + 1 < r.blocks
    \/ w.ctr0 + 1 = r.blocks /\ w.lane < r.idx

\* Before the wrap the counter is the number of blocks.
Unwrapped(r, ws) ==
    /\ r.blocks < CounterRange => r.ctr0 = r.blocks
    /\ r.idx < 4 => r.buf0 + 1 = r.blocks
    /\ \A i \in DOMAIN ws : Before(ws[i], r)
    /\ \A i, j \in DOMAIN ws : ws[i] = ws[j] => i = j

GenInv(r, ws, e) ==
    /\ r \in Rng
    /\ ws \in Seq(Word)
    /\ r.ctr1 = e
    /\ r.idx < 4 => r.buf1 = e
    /\ \A i \in DOMAIN ws : ws[i].ctr1 = e
    /\ r.blocks <= CounterRange => Unwrapped(r, ws)

LEMMA NewGen ==
    ASSUME NEW e \in CounterWord
    PROVE  GenInv(New(e), << >>, e)
    BY RangeAssumption DEF New, GenInv, Rng, Unwrapped, CounterWord

LEMMA WordsTyped ==
    ASSUME NEW ws \in Seq(Word), NEW i \in DOMAIN ws
    PROVE  ws[i].ctr0 \in Nat /\ ws[i].lane \in Nat
<1>1. ws[i] \in Word
    OBVIOUS
<1>2. ws[i].ctr0 \in CounterWord /\ ws[i].lane \in Lanes
    BY <1>1 DEF Word
<1>. QED
    BY <1>2 DEF CounterWord, Lanes

LEMMA RefillGen ==
    ASSUME NEW r, NEW ws, NEW e, GenInv(r, ws, e)
    PROVE  GenInv(Refilled(r), ws, e) /\ Refilled(r).idx = 0
<1>. DEFINE q == Refilled(r)
<1>1. /\ q \in Rng
      /\ q.buf0 = r.ctr0 /\ q.buf1 = r.ctr1 /\ q.ctr0 = Successor(r.ctr0) /\ q.ctr1 = r.ctr1
      /\ q.idx = 0 /\ q.blocks = r.blocks + 1
    <2>1. r \in Rng /\ r.ctr0 \in CounterWord /\ r.blocks + 1 \in Nat
        BY DEF GenInv, Rng
    <2>2. Successor(r.ctr0) \in CounterWord /\ 0 \in CounterWord
        BY <2>1, RangeAssumption DEF Successor, CounterWord
    <2>3. q = [ctr0 |-> Successor(r.ctr0), ctr1 |-> r.ctr1, buf0 |-> r.ctr0,
               buf1 |-> r.ctr1, idx |-> 0, blocks |-> r.blocks + 1]
        BY DEF Refilled
    <2>. HIDE DEF q
    <2>4. r.ctr1 \in CounterWord
        BY <2>1 DEF Rng
    <2>. QED
        BY <2>1, <2>2, <2>3, <2>4 DEF Rng
<1>. HIDE DEF q
<1>2. ASSUME q.blocks <= CounterRange
      PROVE  Unwrapped(q, ws)
    <2>1. /\ r.blocks \in Nat /\ r.blocks < CounterRange
          /\ r.ctr0 = r.blocks /\ Unwrapped(r, ws)
        BY <1>1, <1>2, RangeAssumption DEF GenInv, Unwrapped, Rng
    <2>2. \A i \in DOMAIN ws : Before(ws[i], q)
        <3>. SUFFICES ASSUME NEW i \in DOMAIN ws
                      PROVE  Before(ws[i], q)
            OBVIOUS
        <3>1. ws[i].ctr0 \in Nat /\ Before(ws[i], r)
            BY <2>1, WordsTyped DEF GenInv, Unwrapped
        <3>. QED
            BY <1>1, <2>1, <3>1 DEF Before
    <2>3. q.blocks < CounterRange => q.ctr0 = q.blocks
        BY <1>1, <2>1, RangeAssumption DEF Successor
    <2>. QED
        BY <1>1, <2>1, <2>2, <2>3 DEF Unwrapped
<1>3. GenInv(q, ws, e)
    BY <1>1, <1>2 DEF GenInv
<1>. QED
    BY <1>1, <1>3 DEF q

LEMMA TakeGen ==
    ASSUME NEW r, NEW ws, NEW e, GenInv(r, ws, e), r.idx < 4
    PROVE  /\ WordAt(r) \in Word
           /\ GenInv(Advanced(r), Append(ws, WordAt(r)), e)
           /\ Advanced(r).idx = r.idx + 1
<1>. DEFINE w == WordAt(r)
            q == Advanced(r)
            us == Append(ws, w)
<1>1. /\ q \in Rng
      /\ q.buf0 = r.buf0 /\ q.buf1 = r.buf1 /\ q.ctr0 = r.ctr0 /\ q.ctr1 = r.ctr1
      /\ q.idx = r.idx + 1 /\ q.blocks = r.blocks
    BY DEF GenInv, Rng, Advanced
<1>2. w \in Word /\ w.ctr0 = r.buf0 /\ w.ctr1 = r.buf1 /\ w.lane = r.idx
    BY DEF GenInv, Rng, WordAt, Word, Lanes
<1>. HIDE DEF q, w
<1>3. /\ us \in Seq(Word)
      /\ DOMAIN us = DOMAIN ws \union {Len(ws) + 1}
      /\ us[Len(ws) + 1] = w
      /\ \A i \in DOMAIN ws : us[i] = ws[i]
      /\ Len(ws) + 1 \notin DOMAIN ws
    BY <1>2 DEF GenInv
<1>. HIDE DEF us
<1>4. \A i \in DOMAIN us : us[i].ctr1 = e
    BY <1>2, <1>3 DEF GenInv
<1>5. ASSUME q.blocks <= CounterRange
      PROVE  Unwrapped(q, us)
    <2>1. Unwrapped(r, ws) /\ r.buf0 + 1 = r.blocks
        BY <1>1, <1>5 DEF GenInv, Unwrapped
    <2>2. ASSUME NEW i \in DOMAIN ws
          PROVE  Before(ws[i], q) /\ ws[i] # w
        <3>1. ws[i].ctr0 \in Nat /\ ws[i].lane \in Nat /\ r.idx \in Nat
            BY WordsTyped DEF GenInv, Rng
        <3>2. Before(ws[i], r)
            BY <2>1 DEF Unwrapped
        <3>3. r.buf0 \in Nat /\ r.blocks \in Nat
            BY DEF GenInv, Rng, CounterWord
        <3>. QED
            BY <1>1, <1>2, <2>1, <3>1, <3>2, <3>3 DEF Before
    <2>3. Before(w, q)
        BY <1>1, <1>2, <2>1 DEF Before, GenInv, Rng
    <2>4. \A i \in DOMAIN us : Before(us[i], q)
        BY <1>3, <2>2, <2>3
    <2>5. \A i, j \in DOMAIN us : us[i] = us[j] => i = j
        BY <1>3, <2>1, <2>2 DEF Unwrapped
    <2>. QED
        BY <1>1, <2>1, <2>4, <2>5 DEF Unwrapped
<1>6. GenInv(q, us, e)
    BY <1>1, <1>2, <1>3, <1>4, <1>5 DEF GenInv
<1>. QED
    BY <1>1, <1>2, <1>6 DEF q, w, us

\* The two ways of getting ready leave one word, or two, in the buffer.
LEMMA ReadyGen ==
    ASSUME NEW r, NEW ws, NEW e, GenInv(r, ws, e)
    PROVE  /\ GenInv(ReadyForOne(r), ws, e) /\ ReadyForOne(r).idx < 4
           /\ GenInv(ReadyForTwo(r), ws, e) /\ ReadyForTwo(r).idx < 3
<1>1. r.idx \in 0 .. 4
    BY DEF GenInv, Rng
<1>2. GenInv(Refilled(r), ws, e) /\ Refilled(r).idx = 0
    BY RefillGen
<1>. QED
    BY <1>1, <1>2 DEF ReadyForOne, ReadyForTwo

-------------------------------------------------------------------------------
(* The specification *)

RngInv ==
    /\ event \in [Generators -> Events]
    /\ rng \in [Generators -> Rng]
    /\ words \in [Generators -> Seq(Word)]
    /\ calls \in [Generators -> 0 .. MaxCalls]
    /\ pairs \in [Generators -> SUBSET (Word \X Word)]
    /\ \A g \in Generators : GenInv(rng[g], words[g], event[g])
    /\ PairsOfOneBlock

LEMMA RngInit == Init => RngInv
<1>. SUFFICES ASSUME Init
              PROVE  RngInv
    OBVIOUS
<1>1. \A g \in Generators : event[g] \in CounterWord
    BY RangeAssumption DEF Init, CounterWord
<1>2. \A g \in Generators : GenInv(New(event[g]), << >>, event[g])
    BY <1>1, NewGen
<1>3. \A g \in Generators : New(event[g]) \in Rng
    BY <1>2 DEF GenInv
<1>. QED
    BY <1>2, <1>3, RangeAssumption DEF Init, RngInv, PairsOfOneBlock

\* A draw replaces the state of one generator; what it has to establish.
LEMMA DrawStep ==
    ASSUME RngInv, NEW g \in Generators, NEW r, NEW ws, MayCall(g),
           GenInv(r, ws, event[g]),
           rng' = [rng EXCEPT ![g] = r], words' = [words EXCEPT ![g] = ws],
           calls' = [calls EXCEPT ![g] = @ + 1], event' = event
    PROVE  /\ event' \in [Generators -> Events]
           /\ rng' \in [Generators -> Rng]
           /\ words' \in [Generators -> Seq(Word)]
           /\ calls' \in [Generators -> 0 .. MaxCalls]
           /\ \A h \in Generators : GenInv(rng'[h], words'[h], event'[h])
<1>1. r \in Rng /\ ws \in Seq(Word)
    BY DEF GenInv
<1>2. calls[g] + 1 \in 0 .. MaxCalls
    BY RangeAssumption DEF RngInv, MayCall
<1>3. \A h \in Generators : h # g => rng'[h] = rng[h] /\ words'[h] = words[h]
    BY DEF RngInv
<1>4. rng'[g] = r /\ words'[g] = ws
    BY DEF RngInv
<1>5. \A h \in Generators : GenInv(rng'[h], words'[h], event'[h])
    BY <1>3, <1>4 DEF RngInv
<1>. QED
    BY <1>1, <1>2, <1>5 DEF RngInv

LEMMA RngStep == RngInv /\ [Next]_vars => RngInv'
<1>. SUFFICES ASSUME RngInv, [Next]_vars
              PROVE  RngInv'
    OBVIOUS
<1>1. ASSUME NEW g \in Generators, Uniform(g)
      PROVE  RngInv'
    <2>. DEFINE r == ReadyForOne(rng[g])
    <2>1. GenInv(r, words[g], event[g]) /\ r.idx < 4
        BY ReadyGen DEF RngInv
    <2>2. GenInv(Advanced(r), Append(words[g], WordAt(r)), event[g])
        BY <2>1, TakeGen
    <2>. HIDE DEF r
    <2>3. /\ rng' = [rng EXCEPT ![g] = Advanced(r)]
          /\ words' = [words EXCEPT ![g] = Append(words[g], WordAt(r))]
          /\ calls' = [calls EXCEPT ![g] = @ + 1] /\ MayCall(g)
          /\ event' = event /\ pairs' = pairs
        BY <1>1 DEF Uniform, r
    <2>4. PairsOfOneBlock' /\ pairs' \in [Generators -> SUBSET (Word \X Word)]
        BY <2>3 DEF RngInv, PairsOfOneBlock
    <2>. QED
        BY <2>2, <2>3, <2>4, DrawStep DEF RngInv
<1>2. ASSUME NEW g \in Generators, Gaussian(g)
      PROVE  RngInv'
    <2>. DEFINE r == ReadyForOne(rng[g])
                s == ReadyForOne(Advanced(r))
                ws == Append(words[g], WordAt(r))
    <2>1. GenInv(r, words[g], event[g]) /\ r.idx < 4
        BY ReadyGen DEF RngInv
    <2>2. GenInv(Advanced(r), ws, event[g])
        BY <2>1, TakeGen
    <2>3. GenInv(s, ws, event[g]) /\ s.idx < 4
        BY <2>2, ReadyGen
    <2>4. GenInv(Advanced(s), Append(ws, WordAt(s)), event[g])
        BY <2>3, TakeGen
    <2>. HIDE DEF r, s
    <2>5. /\ rng' = [rng EXCEPT ![g] = Advanced(s)]
          /\ words' = [words EXCEPT ![g] = Append(ws, WordAt(s))]
          /\ calls' = [calls EXCEPT ![g] = @ + 1] /\ MayCall(g)
          /\ event' = event /\ pairs' = pairs
        BY <1>2 DEF Gaussian, r, s
    <2>. HIDE DEF ws
    <2>6. PairsOfOneBlock' /\ pairs' \in [Generators -> SUBSET (Word \X Word)]
        BY <2>5 DEF RngInv, PairsOfOneBlock
    <2>. QED
        BY <2>4, <2>5, <2>6, DrawStep DEF RngInv
<1>3. ASSUME NEW g \in Generators, Uniform53(g)
      PROVE  RngInv'
    <2>. DEFINE r == ReadyForTwo(rng[g])
                s == Advanced(r)
                ws == Append(words[g], WordAt(r))
                p == <<WordAt(r), WordAt(s)>>
    <2>1. /\ GenInv(r, words[g], event[g]) /\ r.idx < 3
          /\ r \in Rng
        <3>1. GenInv(r, words[g], event[g]) /\ r.idx < 3
            BY ReadyGen DEF RngInv
        <3>. QED
            BY <3>1 DEF GenInv
    <2>2. /\ GenInv(s, ws, event[g]) /\ s.idx = r.idx + 1
          /\ WordAt(r) \in Word
        BY <2>1, TakeGen DEF Rng
    <2>3. s.idx < 4
        BY <2>1, <2>2 DEF Rng
    <2>4. /\ GenInv(Advanced(s), Append(ws, WordAt(s)), event[g])
          /\ WordAt(s) \in Word
        BY <2>2, <2>3, TakeGen
    <2>5. /\ p[1].ctr0 = p[2].ctr0 /\ p[1].ctr1 = p[2].ctr1
          /\ p[2].lane = p[1].lane + 1
        BY <2>1 DEF WordAt, Advanced, Rng
    <2>6. p \in Word \X Word
        BY <2>2, <2>4
    <2>. HIDE DEF r, s, p
    <2>7. /\ rng' = [rng EXCEPT ![g] = Advanced(s)]
          /\ words' = [words EXCEPT ![g] = Append(ws, WordAt(s))]
          /\ calls' = [calls EXCEPT ![g] = @ + 1] /\ MayCall(g)
          /\ pairs' = [pairs EXCEPT ![g] = @ \union {p}]
          /\ event' = event
        BY <1>3 DEF Uniform53, r, s, p
    <2>. HIDE DEF ws
    <2>8. pairs' \in [Generators -> SUBSET (Word \X Word)]
        BY <2>6, <2>7 DEF RngInv
    <2>9. PairsOfOneBlock'
        <3>. SUFFICES ASSUME NEW h \in Generators, NEW q \in pairs'[h]
                      PROVE  /\ q[1].ctr0 = q[2].ctr0 /\ q[1].ctr1 = q[2].ctr1
                             /\ q[2].lane = q[1].lane + 1
            BY DEF PairsOfOneBlock
        <3>1. q \in pairs[h] \/ q = p
            BY <2>7 DEF RngInv
        <3>. QED
            BY <2>5, <3>1 DEF RngInv, PairsOfOneBlock
    <2>. QED
        BY <2>4, <2>7, <2>8, <2>9, DrawStep DEF RngInv
<1>4. CASE Finished \/ UNCHANGED vars
    BY <1>4 DEF Finished, vars, RngInv, PairsOfOneBlock
<1>. QED
    BY <1>1, <1>2, <1>3, <1>4 DEF Next

\* Every behaviour keeps the generator invariant.
THEOREM RngCorrect == Spec => []RngInv
    BY RngInit, RngStep, PTL DEF Spec

\* The index of the buffer never leaves it, whatever the order of the draws.
THEOREM RngTypeCorrect == Spec => []TypeOK
<1>1. RngInv => TypeOK
    BY DEF RngInv, TypeOK
<1>. QED
    BY <1>1, RngCorrect, PTL

\* philox_rng.hpp 11-13: the counter advances with every block, so that words
\* are fresh until it wraps.
THEOREM FreshWords == Spec => []WordsAreFresh
<1>1. RngInv => WordsAreFresh
    BY DEF RngInv, GenInv, Unwrapped, WordsAreFresh
<1>. QED
    BY <1>1, RngCorrect, PTL

\* philox_rng.hpp 26-31: each event has a disjoint range of counters.
THEOREM DisjointStreams == Spec => []StreamsAreDisjoint
<1>1. ASSUME RngInv
      PROVE  StreamsAreDisjoint
    <2>1. \A g \in Generators : \A i \in DOMAIN words[g] : words[g][i].ctr1 = event[g]
        BY <1>1 DEF RngInv, GenInv
    <2>. QED
        BY <2>1 DEF StreamsAreDisjoint
<1>. QED
    BY <1>1, RngCorrect, PTL

\* philox_rng.hpp 53-61: both halves of a number of 53 bits are of one block.
THEOREM PairsAreOfOneBlock == Spec => []PairsOfOneBlock
<1>1. RngInv => PairsOfOneBlock
    BY DEF RngInv
<1>. QED
    BY <1>1, RngCorrect, PTL
===============================================================================
