--------------------------- MODULE PaperAssembly ---------------------------
(***************************************************************************)
(* A candidate's paper: items drawn from the bank by a deterministic       *)
(* stream (centre/src/prng.ts, centre/src/assemble.ts), and the bank's     *)
(* validation and split at the authority (authority/src/bank.ts).          *)
(*                                                                         *)
(* A stream is the sequence of the words it will yield, of which so many   *)
(* have been used.  The code's words have 32 bits; here they are           *)
(* 0..(Words - 1).  A stream that ends in the middle of a draw gives Dry:  *)
(* the code's never ends, the model's are cut off.  How far the numbers of *)
(* a shuffle or a sample reach depends on its round only, so they are      *)
(* drawn first and used afterwards.                                        *)
(* Items are [id, slot, options]: slot stands for subject and difficulty,  *)
(* options for their number; bodies and titles are left out.               *)
(***************************************************************************)
EXTENDS Integers, Sequences, FiniteSets, SequencesExt

CONSTANT Words  \* the code's is 2^32

ASSUME WordsAssumption == Words \in Nat \ {0}

Dry == [out |-> "dry"]

\* The next words from which a number below n is taken: those at and above
\* the last multiple of n are rejected.
Accepted(stream, used, n) ==
  {i \in (used + 1)..Len(stream) : stream[i] < (Words \div n) * n}

\* The words used with the next of these; past the end when there is none.
NextBelow(stream, used, n) ==
  IF n = 1 THEN used
  ELSE CHOOSE i \in Accepted(stream, used, n) \union {Len(stream) + 1} :
         \A j \in Accepted(stream, used, n) : i <= j

\* The words used after each of the draws below bounds.
Uses(stream, used, bounds) ==
  LET after[r \in 0..Len(bounds)] ==
        IF r = 0 THEN used ELSE NextBelow(stream, after[r - 1], bounds[r])
  IN after

Draws(stream, used, bounds) ==
  LET uses == Uses(stream, used, bounds)
  IN IF uses[Len(bounds)] > Len(stream) THEN Dry
     ELSE [out  |-> [r \in 1..Len(bounds) |->
                       IF bounds[r] = 1 THEN 0 ELSE stream[uses[r]] % bounds[r]],
           used |-> uses[Len(bounds)]]

\* The bounds of k rounds, each with one thing less than the one before.
Falling(n, k) == [r \in 1..k |-> n + 1 - r]

Swap(s, i, j) == [s EXCEPT ![i] = s[j], ![j] = s[i]]

\* The loop of shuffle, from the last place down to the second.
Shuffled(items, numbers) ==
  LET after[r \in 0..Len(numbers)] ==
        IF r = 0 THEN items ELSE Swap(after[r - 1], Len(items) + 1 - r, numbers[r] + 1)
  IN after[Len(numbers)]

\* Fisher-Yates.
Shuffle(stream, used, items) ==
  LET drawn == Draws(stream, used, Falling(Len(items), Len(items) - 1))
  IN IF drawn = Dry THEN Dry
     ELSE [out |-> Shuffled(items, drawn.out), used |-> drawn.used]

\* The pool of sample after each round.
Pools(items, numbers) ==
  LET after[r \in 0..Len(numbers)] ==
        IF r = 0 THEN items ELSE RemoveAt(after[r - 1], numbers[r] + 1)
  IN after

Sampled(items, numbers) ==
  [r \in 1..Len(numbers) |-> Pools(items, numbers)[r - 1][numbers[r] + 1]]

\* Defined for k <= Len(items).
Sample(stream, used, items, k) ==
  LET drawn == Draws(stream, used, Falling(Len(items), k))
  IN IF drawn = Dry THEN Dry
     ELSE [out |-> Sampled(items, drawn.out), used |-> drawn.used]

-----------------------------------------------------------------------------
\* validateBank, as far as items have fields here: problems stop ingestion.
ValidBank(items, slots) ==
  /\ items # <<>> /\ slots # <<>>
  /\ \A i, j \in DOMAIN items : items[i].id = items[j].id => i = j
  /\ \A i \in DOMAIN items : items[i].options >= 2 /\ items[i].correct \in 0..(items[i].options - 1)
  /\ \A i \in DOMAIN slots :
       /\ slots[i].count > 0
       /\ Cardinality({j \in DOMAIN items : items[j].slot = slots[i].slot}) >= slots[i].count

\* splitBank: the paper's content has no answers, the answers go by item.
PaperContent(items, slots) ==
  [slots |-> slots, items |-> [i \in DOMAIN items |->
     [id |-> items[i].id, slot |-> items[i].slot, options |-> items[i].options]]]

AnswerContent(items) ==
  [i \in DOMAIN items |-> [id |-> items[i].id, correct |-> items[i].correct]]

Places(content, slot) ==
  {i \in DOMAIN content.items : content.items[i].slot = slot}

\* Mutant: the pool keeps the order of the bank.
PoolAsStored(content, slot) ==
  LET its == Places(content, slot)
  IN [k \in 1..Cardinality(its) |->
        content.items[CHOOSE i \in its : Cardinality({j \in its : j < i}) = k - 1]]

Rank(ids, id) == Cardinality({x \in ids : x < id})

\* The items of a slot, sorted by id before anything is drawn: the k-th has
\* k - 1 ids below its own.
Pool(content, slot) ==
  LET its == Places(content, slot)
      ids == {content.items[i].id : i \in its}
  IN [k \in 1..Cardinality(its) |->
        content.items[CHOOSE i \in its : Rank(ids, content.items[i].id) = k - 1]]

\* A question more: the item, and the order of its options.
AddQuestion(stream, paper, item) ==
  IF paper = Dry THEN Dry
  ELSE LET order == Shuffle(stream, paper.used, [i \in 1..item.options |-> i - 1])
       IN IF order = Dry THEN Dry
          ELSE [out  |-> Append(paper.out, [item |-> item.id, order |-> order.out]),
                used |-> order.used]

AddQuestions(stream, paper, items) ==
  LET after[i \in 0..Len(items)] ==
        IF i = 0 THEN paper ELSE AddQuestion(stream, after[i - 1], items[i])
  IN after[Len(items)]

\* A slot more; no paper when its pool has too few items.
NoPaper == [out |-> "no paper"]

AddSlot(stream, paper, pool, count) ==
  IF paper \in {Dry, NoPaper} THEN paper
  ELSE IF Len(pool) < count THEN NoPaper
  ELSE LET drawn == Sample(stream, paper.used, pool, count)
       IN IF drawn = Dry THEN Dry
          ELSE AddQuestions(stream, [out |-> paper.out, used |-> drawn.used], drawn.out)

AddSlots(stream, slots, pools) ==
  LET after[i \in 0..Len(slots)] ==
        IF i = 0 THEN [out |-> <<>>, used |-> 0]
        ELSE AddSlot(stream, after[i - 1], pools[i], slots[i].count)
  IN after[Len(slots)]

\* assemblePaper: the questions, for the stream of the candidate's seed, with
\* the slots in the blueprint's order.
Assemble(stream, content) ==
  AddSlots(stream, content.slots,
           [i \in DOMAIN content.slots |-> Pool(content, content.slots[i].slot)])

-----------------------------------------------------------------------------
Streams(m) == [1..m -> 0..(Words - 1)]

Orders(n) == {p \in [1..n -> 1..n] : IsInjective(p)}

Picks(n, k) == {p \in [1..k -> 1..n] : IsInjective(p)}

\* The streams from which these k out of n are drawn, and this order of n.
SampledBy(n, k, m, picks) ==
  {s \in Streams(m) : LET drawn == Sample(s, 0, [i \in 1..n |-> i], k)
                      IN drawn # Dry /\ drawn.out = picks}

ShuffledBy(n, m, order) ==
  {s \in Streams(m) : LET drawn == Shuffle(s, 0, [i \in 1..n |-> i])
                      IN drawn # Dry /\ drawn.out = order}

(* Every choice of k out of n comes from equally many streams of m words,  *)
(* and so does every order of n.                                           *)
DrawsAreUniform(n, k, m) ==
  /\ \A a, b \in Picks(n, k) :
       /\ SampledBy(n, k, m, a) # {}
       /\ Cardinality(SampledBy(n, k, m, a)) = Cardinality(SampledBy(n, k, m, b))
  /\ \A a, b \in Orders(n) :
       /\ ShuffledBy(n, m, a) # {}
       /\ Cardinality(ShuffledBy(n, m, a)) = Cardinality(ShuffledBy(n, m, b))

(* The order in which the bank holds its items has no part in a paper.     *)
StorageHasNoPart(items, slots, m) ==
  \A stream \in Streams(m), p \in Orders(Len(items)) :
    Assemble(stream, PaperContent([i \in DOMAIN items |-> items[p[i]]], slots)) =
    Assemble(stream, PaperContent(items, slots))

\* A paper is assembled; no question comes twice unless the blueprint has a
\* slot twice; and every printed option is one authored option, so that the
\* answers can be found again.
GivesPaper(items, slots, stream) ==
  LET paper   == Assemble(stream, PaperContent(items, slots))
      answers == AnswerContent(items)
  IN /\ paper \notin {NoPaper, Dry}
     /\ \/ \A i, j \in DOMAIN paper.out : paper.out[i].item = paper.out[j].item => i = j
        \/ \E i, j \in DOMAIN slots : i # j /\ slots[i].slot = slots[j].slot
     /\ \A i \in DOMAIN paper.out : \E a \in DOMAIN answers :
          /\ answers[a].id = paper.out[i].item
          /\ Cardinality({k \in DOMAIN paper.out[i].order :
                           paper.out[i].order[k] = answers[a].correct}) = 1

(* A bank the authority accepted gives a paper.                            *)
AcceptedBanksGivePapers(banks, blueprints, stream) ==
  \A items \in banks, slots \in blueprints :
    ValidBank(items, slots) => GivesPaper(items, slots, stream)

=============================================================================
