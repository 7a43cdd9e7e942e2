------------------------------ MODULE PhiloxRng ------------------------------
(***************************************************************************)
(* PhiloxRng: random numbers from a counter.  The generator turns a counter *)
(* of two varying words (of four) into a block of four words, buffers the   *)
(* block and hands out its words one or two at a time.                      *)
(*                                                                         *)
(* Philox is a bijection of counters under one key, so a word is identified  *)
(* by the counter of its block and its place in the block.  All generators   *)
(* here have one key, as in make_test_input: they differ in the second word  *)
(* of the counter, the number of the event.                                *)
(***************************************************************************)
EXTENDS Integers, Sequences, FiniteSets

CONSTANTS Generators,   \* instances, used independently of one another
          Events,       \* values of ctr1
          CounterRange, \* number of values of a counter word, 2^32
          MaxCalls      \* bound: draws of a generator

ASSUME RangeAssumption ==
    /\ CounterRange \in Nat \ {0}
    /\ Events \subseteq 0 .. CounterRange - 1
    /\ MaxCalls \in Nat

CounterWord == 0 .. CounterRange - 1
Lanes == 0 .. 3
Word == [ctr0 : CounterWord, ctr1 : CounterWord, lane : Lanes]

VARIABLES
    event, \* event[g]: the ctr1 that g was constructed with
    rng,   \* rng[g]: counter, counter of the buffered block, next word of it,
           \* and the number of blocks so far
    words, \* words[g]: the words g has used, in order
    pairs, \* pairs[g]: the pairs of words that made numbers of 53 bits
    calls  \* calls[g]: number of draws of g so far

vars == <<event, rng, words, pairs, calls>>

Rng == [ctr0 : CounterWord, ctr1 : CounterWord,
        buf0 : CounterWord, buf1 : CounterWord, idx : 0 .. 4, blocks : Nat]

TypeOK ==
    /\ event \in [Generators -> Events]
    /\ rng \in [Generators -> Rng]
    /\ words \in [Generators -> Seq(Word)]
    /\ pairs \in [Generators -> SUBSET (Word \X Word)]
    /\ calls \in [Generators -> 0 .. MaxCalls]

New(ctr1) == [ctr0 |-> 0, ctr1 |-> ctr1, buf0 |-> 0, buf1 |-> 0, idx |-> 4, blocks |-> 0]

Init ==
    /\ event \in [Generators -> Events]
    /\ rng = [g \in Generators |-> New(event[g])]
    /\ words = [g \in Generators |-> << >>]
    /\ pairs = [g \in Generators |-> {}]
    /\ calls = [g \in Generators |-> 0]

-------------------------------------------------------------------------------

\* A counter word after one more block: it wraps.
Successor(n) == IF n = CounterRange - 1 THEN 0 ELSE n + 1

\* The counter stays where it is.
Refilled_SameCounter(r) ==
    [r EXCEPT !.buf0 = r.ctr0, !.buf1 = r.ctr1, !.idx = 0, !.blocks = @ + 1]

\* The counter is one number of two words, with a carry.
Refilled_Carries(r) ==
    [r EXCEPT !.buf0 = r.ctr0, !.buf1 = r.ctr1, !.ctr0 = Successor(r.ctr0),
              !.ctr1 = IF r.ctr0 = CounterRange - 1 THEN Successor(@) ELSE @,
              !.idx = 0, !.blocks = @ + 1]

\* buf_ = rng_(ctr_, key_); ctr_[0]++; idx_ = 0
Refilled(r) ==
    [ctr0 |-> Successor(r.ctr0), ctr1 |-> r.ctr1,
     buf0 |-> r.ctr0, buf1 |-> r.ctr1, idx |-> 0, blocks |-> r.blocks + 1]

\* buf_[idx_++]: the word, and the generator after it.
WordAt(r) == [ctr0 |-> r.buf0, ctr1 |-> r.buf1, lane |-> r.idx]
Advanced(r) == [r EXCEPT !.idx = @ + 1]

\* The generator when a number of one word, or of two, is about to be taken.
ReadyForOne(r) == IF r.idx >= 4 THEN Refilled(r) ELSE r

\* The test of the other draw.
ReadyForTwo_OneLeft(r) == IF r.idx >= 4 THEN Refilled(r) ELSE r

ReadyForTwo(r) == IF r.idx > 2 THEN Refilled(r) ELSE r

MayCall(g) == calls[g] < MaxCalls

Uniform(g) ==
    /\ MayCall(g)
    /\ LET r == ReadyForOne(rng[g])
       IN  /\ rng' = [rng EXCEPT ![g] = Advanced(r)]
           /\ words' = [words EXCEPT ![g] = Append(@, WordAt(r))]
    /\ calls' = [calls EXCEPT ![g] = @ + 1]
    /\ UNCHANGED <<event, pairs>>

\* Two draws of one word each, which may be of different blocks.
Uniform53_TwoUniforms(g) ==
    /\ MayCall(g)
    /\ LET r == ReadyForOne(rng[g])
           s == ReadyForOne(Advanced(r))
       IN  /\ rng' = [rng EXCEPT ![g] = Advanced(s)]
           /\ words' = [words EXCEPT ![g] = Append(Append(@, WordAt(r)), WordAt(s))]
           /\ pairs' = [pairs EXCEPT ![g] = @ \union {<<WordAt(r), WordAt(s)>>}]
    /\ calls' = [calls EXCEPT ![g] = @ + 1]
    /\ UNCHANGED event

Uniform53(g) ==
    /\ MayCall(g)
    /\ LET r == ReadyForTwo(rng[g])
           s == Advanced(r)
       IN  /\ rng' = [rng EXCEPT ![g] = Advanced(s)]
           /\ words' = [words EXCEPT ![g] = Append(Append(@, WordAt(r)), WordAt(s))]
           /\ pairs' = [pairs EXCEPT ![g] = @ \union {<<WordAt(r), WordAt(s)>>}]
    /\ calls' = [calls EXCEPT ![g] = @ + 1]
    /\ UNCHANGED event

\* Two uniforms, of one block or of two.
Gaussian(g) ==
    /\ MayCall(g)
    /\ LET r == ReadyForOne(rng[g])
           s == ReadyForOne(Advanced(r))
       IN  /\ rng' = [rng EXCEPT ![g] = Advanced(s)]
           /\ words' = [words EXCEPT ![g] = Append(Append(@, WordAt(r)), WordAt(s))]
    /\ calls' = [calls EXCEPT ![g] = @ + 1]
    /\ UNCHANGED <<event, pairs>>

Finished == (\A g \in Generators : ~MayCall(g)) /\ UNCHANGED vars

Next ==
    \/ \E g \in Generators : Uniform(g) \/ Uniform53(g) \/ Gaussian(g)
    \/ Finished

Spec == Init /\ [][Next]_vars

-------------------------------------------------------------------------------
(* Properties *)

\* Until the low counter word has wrapped, a generator uses no word twice.
WordsAreFresh ==
    \A g \in Generators : rng[g].blocks <= CounterRange =>
        \A i, j \in DOMAIN words[g] : words[g][i] = words[g][j] => i = j

\* Generators of different events never share a word, not even after a wrap.
StreamsAreDisjoint ==
    \A g, h \in Generators : event[g] # event[h] =>
        \A i \in DOMAIN words[g] : \A j \in DOMAIN words[h] : words[g][i] # words[h][j]

\* A number of 53 bits is made of two neighbouring words of one block.
PairsOfOneBlock ==
    \A g \in Generators : \A p \in pairs[g] :
        /\ p[1].ctr0 = p[2].ctr0 /\ p[1].ctr1 = p[2].ctr1
        /\ p[2].lane = p[1].lane + 1
===============================================================================
