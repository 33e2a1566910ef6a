------------------------- MODULE DapiStakingProofs --------------------------
(***************************************************************************)
(* What DapiStaking guarantees for every set of accounts and providers,    *)
(* every configuration, every amount and any number of eras.               *)
(***************************************************************************)
EXTENDS DapiStaking, LedgerLemmas, SequenceTheorems

----------------------------------------------------------------------------
(* Natural numbers                                                         *)

(* The fixed-width and Perbill operators return natural numbers.           *)
LEMMA ArithmeticType ==
  ASSUME NEW x \in Nat, NEW y \in Nat
  PROVE  /\ SatAdd(x, y) \in Nat
         /\ SatSub(x, y) \in Nat
         /\ WrapAdd(x, y) \in Nat
BY CurrencyAssumption DEF SatAdd, SatSub, WrapAdd

----------------------------------------------------------------------------
(* Unlocking chunks                                                        *)

(* The partial sums of a chunk list exist: a shortest list of partial sums *)
(* that cannot be built would have a predecessor that can.                 *)
LEMMA ChunkSumsExist ==
  ASSUME NEW chunks \in Seq(UnlockingChunk)
  PROVE  \E g \in [0..Len(chunks) -> Nat] :
           g = [n \in 0..Len(chunks) |->
                  IF n = 0 THEN 0 ELSE WrapAdd(g[n - 1], chunks[n].amount)]
<1> DEFINE Sums(k, g) ==
             /\ g \in [0..k -> Nat]
             /\ g[0] = 0
             /\ \A n \in 1..k : g[n] = WrapAdd(g[n - 1], chunks[n].amount)
           Bad == {k \in 0..Len(chunks) : ~ \E g : Sums(k, g)}
<1>0. Len(chunks) \in Nat
  BY LenProperties
<1>1. SUFFICES ASSUME Bad # {} PROVE FALSE
  <2>1. Len(chunks) \notin Bad
    BY <1>1
  <2>2. PICK g : Sums(Len(chunks), g)
    BY <2>1, <1>0
  <2>3. g = [n \in 0..Len(chunks) |->
               IF n = 0 THEN 0 ELSE WrapAdd(g[n - 1], chunks[n].amount)]
    BY <2>2, <1>0
  <2> QED
    BY <2>2, <2>3
<1>2. PICK k \in Bad : \A m \in Bad : k <= m
  <2>1. Bad \subseteq Nat
    BY <1>0
  <2> HIDE DEF Bad
  <2> QED
    BY <2>1, <1>1, LeastNatural
<1>3. k \in 0..Len(chunks) /\ k \in Nat
  BY <1>2, <1>0
<1>4. k # 0
  <2>1. Sums(0, [n \in 0..0 |-> 0])
    BY ArithmeticType
  <2> QED
    BY <2>1, <1>2
<1>5. k - 1 \in 0..Len(chunks) /\ k - 1 \notin Bad
  <2> HIDE DEF Bad
  <2> QED
    BY <1>2, <1>3, <1>4, <1>0
<1>6. PICK g : Sums(k - 1, g)
  BY <1>5
<1> DEFINE h == [n \in 0..k |-> IF n = k THEN WrapAdd(g[k - 1], chunks[k].amount)
                                         ELSE g[n]]
<1>7. chunks[k].amount \in Nat
  <2>1. k \in 1..Len(chunks)
    BY <1>3, <1>4, <1>0
  <2>2. chunks[k] \in UnlockingChunk
    BY <2>1, ElementOfSeq
  <2> QED
    BY <2>2 DEF UnlockingChunk
<1>8. g[k - 1] \in Nat
  BY <1>6, <1>3, <1>4
<1>9. WrapAdd(g[k - 1], chunks[k].amount) \in Nat
  BY <1>7, <1>8, ArithmeticType
<1>10. h \in [0..k -> Nat] /\ h[0] = 0
  BY <1>9, <1>6, <1>3, <1>4
<1>11. \A n \in 1..k : h[n] = WrapAdd(h[n - 1], chunks[n].amount)
  <2> TAKE n \in 1..k
  <2>1. CASE n = k
    BY <2>1, <1>3, <1>4
  <2>2. CASE n # k
    <3>1. n \in 1..(k - 1) /\ n \in 0..k /\ n - 1 \in 0..k /\ n - 1 # k
      BY <2>2, <1>3, <1>4
    <3>2. h[n] = g[n] /\ h[n - 1] = g[n - 1]
      BY <3>1, <2>2
    <3> QED
      BY <3>1, <3>2, <1>6
  <2> QED
    BY <2>1, <2>2
<1> QED
  BY <1>10, <1>11, <1>2

(* The sum of a chunk list is a natural number.                            *)
LEMMA ChunkSumType ==
  ASSUME NEW chunks \in Seq(UnlockingChunk)
  PROVE  ChunkSum(chunks) \in Nat
<1> DEFINE Body(g) == [n \in 0..Len(chunks) |->
             IF n = 0 THEN 0 ELSE WrapAdd(g[n - 1], chunks[n].amount)]
           Sum == CHOOSE g : g = Body(g)
<1>1. PICK f \in [0..Len(chunks) -> Nat] : f = Body(f)
  BY ChunkSumsExist
<1>2. Sum = Body(Sum)
  BY <1>1
<1>3. ChunkSum(chunks) = Sum[Len(chunks)]
  BY DEF ChunkSum
<1> HIDE DEF Sum
<1> DEFINE Bad == {n \in 0..Len(chunks) : Sum[n] \notin Nat}
<1>4. Len(chunks) \in Nat
  BY LenProperties
<1>5. SUFFICES ASSUME Bad # {} PROVE FALSE
  BY <1>3, <1>4
<1>6. PICK n \in Bad : \A m \in Bad : n <= m
  <2>1. Bad \subseteq Nat
    BY <1>4
  <2> HIDE DEF Bad
  <2> QED
    BY <2>1, <1>5, LeastNatural
<1>7. n \in 0..Len(chunks) /\ n \in Nat /\ Sum[n] \notin Nat
  BY <1>6, <1>4
<1>8. Sum[n] = IF n = 0 THEN 0 ELSE WrapAdd(Sum[n - 1], chunks[n].amount)
  BY <1>2, <1>7
<1>9. n # 0
  BY <1>7, <1>8
<1>10. Sum[n - 1] \in Nat
  BY <1>6, <1>7, <1>9, <1>4
<1>11. chunks[n].amount \in Nat
  <2>1. n \in 1..Len(chunks)
    BY <1>7, <1>9, <1>4
  <2>2. chunks[n] \in UnlockingChunk
    BY <2>1, ElementOfSeq
  <2> QED
    BY <2>2 DEF UnlockingChunk
<1> QED
  BY <1>7, <1>8, <1>9, <1>10, <1>11, ArithmeticType

(* The fields of the chunks of a list.                                     *)
LEMMA ChunkFields ==
  ASSUME NEW chunks \in Seq(UnlockingChunk)
  PROVE  /\ Len(chunks) \in Nat
         /\ DOMAIN chunks = 1..Len(chunks)
         /\ \A i \in 1..Len(chunks) : /\ chunks[i] \in UnlockingChunk
                                      /\ chunks[i].unlock_era \in Nat
                                      /\ chunks[i].amount \in Nat
<1>1. Len(chunks) \in Nat /\ DOMAIN chunks = 1..Len(chunks)
      /\ chunks \in [1..Len(chunks) -> UnlockingChunk]
  BY LenProperties
<1>2. \A c \in UnlockingChunk : c.unlock_era \in Nat /\ c.amount \in Nat
  BY DEF UnlockingChunk
<1> QED
  BY <1>1, <1>2

(* On a sorted list the search finds the place where the chunks before the *)
(* era end and the others begin.                                           *)
LEMMA SearchEraProperties ==
  ASSUME NEW chunks \in Seq(UnlockingChunk), ChunksOrdered(chunks),
         NEW e \in Nat
  PROVE  LET k == SearchEra(chunks, e)
         IN  /\ k \in 1..(Len(chunks) + 1)
             /\ \A i \in 1..(k - 1) : chunks[i].unlock_era < e
             /\ \A i \in k..Len(chunks) : chunks[i].unlock_era >= e
<1> DEFINE T == {k \in 1..(Len(chunks) + 1) :
                   k <= Len(chunks) => chunks[k].unlock_era >= e}
           Split(k) == /\ \A i \in 1..(k - 1) : chunks[i].unlock_era < e
                       /\ \A i \in k..Len(chunks) : chunks[i].unlock_era >= e
<1>1. Len(chunks) \in Nat /\ DOMAIN chunks = 1..Len(chunks)
  BY LenProperties
<1>2. \A i \in 1..Len(chunks) : chunks[i].unlock_era \in Nat
  BY ChunkFields
<1>3. T \subseteq Nat /\ T # {}
  <2>1. Len(chunks) + 1 \in T
    BY <1>1
  <2> QED
    BY <2>1, <1>1
<1>4. PICK k \in T : \A m \in T : k <= m
  <2> HIDE DEF T
  <2> QED
    BY <1>3, LeastNatural
<1>5. k \in 1..(Len(chunks) + 1)
  BY <1>4
<1>6. ASSUME NEW i \in 1..(k - 1) PROVE chunks[i].unlock_era < e
  <2>1. i \in 1..Len(chunks) /\ i < k
    BY <1>1, <1>5
  <2>2. i \notin T
    <3> HIDE DEF T
    <3> QED
      BY <2>1, <1>4, <1>5
  <2> QED
    BY <2>1, <2>2, <1>1, <1>2
<1>7. ASSUME NEW i \in k..Len(chunks) PROVE chunks[i].unlock_era >= e
  <2>1. k \in 1..Len(chunks) /\ i \in 1..Len(chunks) /\ k <= i
    BY <1>1, <1>5
  <2>2. chunks[k].unlock_era >= e
    BY <2>1, <1>4
  <2>3. k < i => chunks[k].unlock_era < chunks[i].unlock_era
    BY <2>1, <1>1 DEF ChunksOrdered
  <2>4. k = i \/ k < i
    BY <2>1, <1>1
  <2> QED
    BY <2>1, <2>2, <2>3, <2>4, <1>2
<1>8. Split(k)
  BY <1>6, <1>7
<1>9. SearchEra(chunks, e) = CHOOSE j \in 1..(Len(chunks) + 1) : Split(j)
  BY DEF SearchEra
<1> HIDE DEF Split
<1>10. \E j \in 1..(Len(chunks) + 1) : Split(j)
  BY <1>5, <1>8
<1>11. /\ SearchEra(chunks, e) \in 1..(Len(chunks) + 1)
       /\ Split(SearchEra(chunks, e))
  BY <1>9, <1>10
<1> QED
  BY <1>11 DEF Split

(* The amount joins the chunk of its era or becomes the last chunk.        *)
AmountAdded(chunks, result, amount) ==
  \/ /\ Len(result) = Len(chunks)
     /\ \E k \in 1..Len(chunks) : \A i \in 1..Len(chunks) :
          result[i].amount = IF i = k THEN WrapAdd(chunks[k].amount, amount)
                                      ELSE chunks[i].amount
  \/ /\ Len(result) = Len(chunks) + 1
     /\ \A i \in 1..Len(chunks) : result[i].amount = chunks[i].amount
     /\ result[Len(chunks) + 1].amount = amount

(* The same with the eras: the other chunks stay as they are.              *)
ChunkAdded(chunks, result, amount, e) ==
  \/ /\ Len(result) = Len(chunks)
     /\ \E k \in 1..Len(chunks) :
          /\ chunks[k].unlock_era = e
          /\ result[k] = NewChunk(WrapAdd(chunks[k].amount, amount), e)
          /\ \A i \in 1..Len(chunks) : i # k => result[i] = chunks[i]
  \/ /\ Len(result) = Len(chunks) + 1
     /\ \A i \in 1..Len(chunks) : chunks[i].unlock_era < e /\ result[i] = chunks[i]
     /\ result[Len(chunks) + 1] = NewChunk(amount, e)

(* add keeps the chunks sorted, with one per era, and none unlocks later   *)
(* than the chunks that were there and the new one.                        *)
LEMMA AddChunkProperties ==
  ASSUME NEW chunks \in Seq(UnlockingChunk), ChunksOrdered(chunks),
         NEW amount \in Nat, NEW e \in Nat,
         \A i \in DOMAIN chunks : chunks[i].unlock_era <= e
  PROVE  LET result == AddChunk(chunks, NewChunk(amount, e))
         IN  /\ result \in Seq(UnlockingChunk)
             /\ ChunksOrdered(result)
             /\ \A i \in DOMAIN result : result[i].unlock_era <= e
             /\ AmountAdded(chunks, result, amount)
             /\ ChunkAdded(chunks, result, amount, e)
<1> DEFINE pos == SearchEra(chunks, e)
           merged == [chunks EXCEPT ![pos] =
                        NewChunk(WrapAdd(@.amount, amount), @.unlock_era)]
           inserted == [i \in 1..(Len(chunks) + 1) |->
                          CASE i < pos -> chunks[i]
                            [] i = pos -> NewChunk(amount, e)
                            [] i > pos -> chunks[i - 1]]
           Good(r) == /\ r \in Seq(UnlockingChunk)
                      /\ ChunksOrdered(r)
                      /\ \A i \in DOMAIN r : r[i].unlock_era <= e
                      /\ AmountAdded(chunks, r, amount)
                      /\ ChunkAdded(chunks, r, amount, e)
<1>1. Len(chunks) \in Nat /\ DOMAIN chunks = 1..Len(chunks)
  BY LenProperties
<1>2. \A i \in 1..Len(chunks) : /\ chunks[i] \in UnlockingChunk
                                /\ chunks[i].unlock_era \in Nat
                                /\ chunks[i].amount \in Nat
  BY ChunkFields
<1>3. /\ NewChunk(amount, e) \in UnlockingChunk
      /\ NewChunk(amount, e).unlock_era = e
      /\ NewChunk(amount, e).amount = amount
  BY DEF NewChunk, UnlockingChunk
<1>4. /\ pos \in 1..(Len(chunks) + 1)
      /\ \A i \in 1..(pos - 1) : chunks[i].unlock_era < e
      /\ \A i \in pos..Len(chunks) : chunks[i].unlock_era >= e
  BY SearchEraProperties
<1> HIDE DEF pos
<1>5. ASSUME pos <= Len(chunks), chunks[pos].unlock_era = e PROVE Good(merged)
  <2>1. pos \in 1..Len(chunks)
    BY <1>5, <1>4, <1>1
  <2> DEFINE new == NewChunk(WrapAdd(chunks[pos].amount, amount),
                             chunks[pos].unlock_era)
  <2>2. WrapAdd(chunks[pos].amount, amount) \in Nat
    BY <2>1, <1>2, ArithmeticType
  <2>3. /\ new \in UnlockingChunk /\ new.unlock_era = e
        /\ new.amount = WrapAdd(chunks[pos].amount, amount)
    BY <2>1, <2>2, <1>2, <1>5 DEF NewChunk, UnlockingChunk
  <2>4. merged = [chunks EXCEPT ![pos] = new]
    OBVIOUS
  <2> HIDE DEF new, merged
  <2>5. /\ merged \in Seq(UnlockingChunk)
        /\ Len(merged) = Len(chunks)
        /\ \A j \in 1..Len(chunks) : merged[j] = IF j = pos THEN new ELSE chunks[j]
    BY <2>1, <2>3, <2>4, ExceptSeq
  <2>6. DOMAIN merged = 1..Len(chunks)
    BY <2>5, LenProperties
  <2>7. \A j \in 1..Len(chunks) : merged[j].unlock_era = chunks[j].unlock_era
    BY <2>3, <2>5, <1>5
  <2>8. AmountAdded(chunks, merged, amount)
    BY <2>1, <2>3, <2>5 DEF AmountAdded
  <2>9. ChunkAdded(chunks, merged, amount, e)
    <3>1. new = NewChunk(WrapAdd(chunks[pos].amount, amount), e)
      BY <1>5 DEF new
    <3> QED
      BY <2>1, <2>5, <3>1, <1>5 DEF ChunkAdded
  <2> QED
    BY <2>5, <2>6, <2>7, <2>8, <2>9, <1>1 DEF ChunksOrdered
<1>6. ASSUME ~(pos <= Len(chunks) /\ chunks[pos].unlock_era = e) PROVE Good(inserted)
  <2>1. pos = Len(chunks) + 1
    <3>1. ASSUME pos <= Len(chunks) PROVE FALSE
      <4>1. pos \in 1..Len(chunks) /\ pos \in pos..Len(chunks)
        BY <3>1, <1>4, <1>1
      <4>2. chunks[pos].unlock_era >= e /\ chunks[pos].unlock_era <= e
        BY <4>1, <1>4, <1>1
      <4> QED
        BY <4>1, <4>2, <1>2, <1>6
    <3> QED
      BY <3>1, <1>4, <1>1
  <2>2. inserted = [i \in 1..(Len(chunks) + 1) |->
                      IF i = Len(chunks) + 1 THEN NewChunk(amount, e)
                                             ELSE chunks[i]]
    BY <2>1, <1>1
  <2> HIDE DEF inserted
  <2>3. \A i \in 1..(Len(chunks) + 1) :
          inserted[i] = IF i = Len(chunks) + 1 THEN NewChunk(amount, e) ELSE chunks[i]
    BY <2>2
  <2>4. inserted \in [1..(Len(chunks) + 1) -> UnlockingChunk]
    BY <2>2, <1>1, <1>2, <1>3
  <2>5. inserted \in Seq(UnlockingChunk)
    BY <2>4, <1>1, SeqDef
  <2>6. DOMAIN inserted = 1..(Len(chunks) + 1)
    BY <2>2
  <2>7. ChunksOrdered(inserted)
    <3>1. ASSUME NEW i \in 1..(Len(chunks) + 1), NEW j \in 1..(Len(chunks) + 1), i < j
          PROVE  inserted[i].unlock_era < inserted[j].unlock_era
      <4>1. i \in 1..Len(chunks) /\ i \in 1..(pos - 1) /\ inserted[i] = chunks[i]
        BY <3>1, <2>1, <2>3, <1>1
      <4>2. CASE j = Len(chunks) + 1
        BY <4>1, <4>2, <2>3, <1>3, <1>4
      <4>3. CASE j # Len(chunks) + 1
        <5>1. j \in 1..Len(chunks) /\ inserted[j] = chunks[j]
          BY <4>3, <2>3, <1>1
        <5> QED
          BY <5>1, <4>1, <3>1, <1>1 DEF ChunksOrdered
      <4> QED
        BY <4>2, <4>3
    <3> QED
      BY <3>1, <2>6 DEF ChunksOrdered
  <2>8. ASSUME NEW i \in DOMAIN inserted PROVE inserted[i].unlock_era <= e
    <3>1. CASE i = Len(chunks) + 1
      BY <3>1, <2>3, <2>6, <1>3
    <3>2. CASE i # Len(chunks) + 1
      <4>1. i \in 1..Len(chunks) /\ inserted[i] = chunks[i]
        BY <3>2, <2>3, <2>6, <1>1
      <4> QED
        BY <4>1, <1>1
    <3> QED
      BY <3>1, <3>2
  <2>9. AmountAdded(chunks, inserted, amount)
    <3>1. Len(inserted) = Len(chunks) + 1
      BY <2>5, <2>6, <1>1, LenProperties
    <3>2. /\ \A i \in 1..Len(chunks) : inserted[i].amount = chunks[i].amount
          /\ inserted[Len(chunks) + 1].amount = amount
      BY <2>3, <1>1, <1>3
    <3> QED
      BY <3>1, <3>2 DEF AmountAdded
  <2>10. ChunkAdded(chunks, inserted, amount, e)
    <3>1. Len(inserted) = Len(chunks) + 1
      BY <2>5, <2>6, <1>1, LenProperties
    <3>2. /\ \A i \in 1..Len(chunks) : chunks[i].unlock_era < e /\ inserted[i] = chunks[i]
          /\ inserted[Len(chunks) + 1] = NewChunk(amount, e)
      BY <2>1, <2>3, <1>1, <1>4
    <3> QED
      BY <3>1, <3>2 DEF ChunkAdded
  <2> QED
    BY <2>5, <2>7, <2>8, <2>9, <2>10
<1>7. AddChunk(chunks, NewChunk(amount, e)) =
        IF pos <= Len(chunks) /\ chunks[pos].unlock_era = e THEN merged ELSE inserted
  BY <1>3 DEF AddChunk, pos
<1> HIDE DEF merged, inserted
<1> QED
  BY <1>5, <1>6, <1>7

(* partition keeps the chunks that are not due, in their order.            *)
LEMMA PartitionProperties ==
  ASSUME NEW chunks \in Seq(UnlockingChunk), ChunksOrdered(chunks),
         NEW e \in Nat, NEW bound \in Nat,
         \A i \in DOMAIN chunks : chunks[i].unlock_era <= bound
  PROVE  /\ ValidChunks(chunks, e) \in Seq(UnlockingChunk)
         /\ FutureChunks(chunks, e) \in Seq(UnlockingChunk)
         /\ Len(FutureChunks(chunks, e)) <= Len(chunks)
         /\ ChunksOrdered(FutureChunks(chunks, e))
         /\ \A i \in DOMAIN FutureChunks(chunks, e) :
              FutureChunks(chunks, e)[i].unlock_era <= bound
<1> DEFINE k == SearchEra(chunks, e + 1)
           future == SubSeq(chunks, k, Len(chunks))
<1>1. /\ Len(chunks) \in Nat /\ DOMAIN chunks = 1..Len(chunks)
      /\ \A i \in 1..Len(chunks) : chunks[i] \in UnlockingChunk
  BY ChunkFields
<1>2. k \in 1..(Len(chunks) + 1)
  <2>1. e + 1 \in Nat
    OBVIOUS
  <2> QED
    BY <2>1, SearchEraProperties
<1> HIDE DEF k
<1>3. SubSeq(chunks, 1, k - 1) \in Seq(UnlockingChunk)
  <2>1. \A i \in 1..(k - 1) : chunks[i] \in UnlockingChunk
    BY <1>1, <1>2
  <2>2. k - 1 \in Int /\ 1 \in Int
    BY <1>2, <1>1
  <2> QED
    BY <2>1, <2>2, SubSeqProperties
<1>4. /\ future \in Seq(UnlockingChunk)
      /\ Len(future) = IF k <= Len(chunks) THEN Len(chunks) - k + 1 ELSE 0
      /\ \A i \in 1..(Len(chunks) - k + 1) : future[i] = chunks[k + i - 1]
  <2>1. \A i \in k..Len(chunks) : chunks[i] \in UnlockingChunk
    BY <1>1, <1>2
  <2>2. k \in Int /\ Len(chunks) \in Int
    BY <1>2, <1>1
  <2> QED
    BY <2>1, <2>2, SubSeqProperties
<1> HIDE DEF future
<1>5. Len(future) = Len(chunks) - k + 1 /\ DOMAIN future = 1..(Len(chunks) - k + 1)
  <2>1. Len(future) = Len(chunks) - k + 1
    BY <1>4, <1>2, <1>1
  <2> QED
    BY <2>1, <1>4, LenProperties
<1>6. \A i \in DOMAIN future : k + i - 1 \in DOMAIN chunks /\ future[i] = chunks[k + i - 1]
  BY <1>5, <1>4, <1>2, <1>1
<1>7. ChunksOrdered(future)
  <2>1. ASSUME NEW i \in DOMAIN future, NEW j \in DOMAIN future, i < j
        PROVE  future[i].unlock_era < future[j].unlock_era
    <3>1. k + i - 1 < k + j - 1
      BY <2>1, <1>5, <1>2, <1>1
    <3> QED
      BY <3>1, <1>6 DEF ChunksOrdered
  <2> QED
    BY <2>1 DEF ChunksOrdered
<1>8. \A i \in DOMAIN future : future[i].unlock_era <= bound
  BY <1>6
<1>9. Len(future) <= Len(chunks)
  BY <1>5, <1>2, <1>1
<1>10. ValidChunks(chunks, e) = SubSeq(chunks, 1, k - 1)
       /\ FutureChunks(chunks, e) = future
  BY DEF ValidChunks, FutureChunks, k, future
<1> QED
  BY <1>3, <1>4, <1>7, <1>8, <1>9, <1>10

----------------------------------------------------------------------------
(* What a list of chunks adds up to.  ChunkSum is the sum that the pallet  *)
(* computes, which wraps around; ChunkTotal is the one it means.           *)

ChunkAmounts(chunks) == [i \in 1..Len(chunks) |-> chunks[i].amount]

ChunkTotal(chunks) == SumFunctionOnSet(ChunkAmounts(chunks), 1..Len(chunks))

LEMMA ChunkTotalType ==
  ASSUME NEW chunks \in Seq(UnlockingChunk)
  PROVE  /\ ChunkTotal(chunks) \in Nat
         /\ \A i \in 1..Len(chunks) : /\ ChunkAmounts(chunks)[i] = chunks[i].amount
                                      /\ ChunkAmounts(chunks)[i] \in Nat
                                      /\ ChunkAmounts(chunks)[i] <= ChunkTotal(chunks)
         /\ \A n \in 0..Len(chunks) :
              /\ SumFunctionOnSet(ChunkAmounts(chunks), 1..n) \in Nat
              /\ SumFunctionOnSet(ChunkAmounts(chunks), 1..n) <= ChunkTotal(chunks)
<1> DEFINE f == ChunkAmounts(chunks)
           S == 1..Len(chunks)
<1>1. \A i \in S : f[i] = chunks[i].amount /\ f[i] \in Nat
  BY ChunkFields DEF ChunkAmounts
<1>2. Len(chunks) \in Nat /\ IsFiniteSet(S)
  BY ChunkFields, FS_Interval
<1>3. ChunkTotal(chunks) = SumFunctionOnSet(f, S)
  BY DEF ChunkTotal
<1>4. \A n \in 0..Len(chunks) : 1..n \in SUBSET S
  BY <1>2
<1> HIDE DEF f, S
<1>5. SumFunctionOnSet(f, S) \in Nat /\ \A i \in S : f[i] <= SumFunctionOnSet(f, S)
  BY <1>1, <1>2, SumNat
<1>6. ASSUME NEW T \in SUBSET S
      PROVE  SumFunctionOnSet(f, T) \in Nat /\ SumFunctionOnSet(f, T) <= SumFunctionOnSet(f, S)
  <2>1. IsFiniteSet(T) /\ \A i \in T : f[i] \in Nat
    BY <1>1, <1>2, FS_Subset
  <2> QED
    BY <2>1, <1>1, <1>2, SumNat, SumSubset
<1> QED
  BY <1>1, <1>3, <1>4, <1>5, <1>6 DEF f, S

(* Without an overflow the pallet's sum is the total.                      *)
LEMMA ChunkSumTotal ==
  ASSUME NEW chunks \in Seq(UnlockingChunk), ChunkTotal(chunks) <= MaxBalance
  PROVE  ChunkSum(chunks) = ChunkTotal(chunks)
<1> DEFINE N == Len(chunks)
           f == ChunkAmounts(chunks)
           Body(g) == [n \in 0..N |->
             IF n = 0 THEN 0 ELSE WrapAdd(g[n - 1], chunks[n].amount)]
           Sum == CHOOSE g : g = Body(g)
           Good == {n \in 0..N : Sum[n] = SumFunctionOnSet(f, 1..n)}
<1>1. \E g \in [0..N -> Nat] : g = Body(g)
  BY ChunkSumsExist
<1>2. Sum = Body(Sum)
  BY <1>1
<1>3. ChunkSum(chunks) = Sum[N]
  BY DEF ChunkSum
<1> HIDE DEF Sum
<1>4. N \in Nat
  BY LenProperties
<1>5. \A n \in 0..N : Sum[n] = IF n = 0 THEN 0 ELSE WrapAdd(Sum[n - 1], chunks[n].amount)
  BY <1>2
<1>6. 0 \in Good
  <2>1. 1..0 = {}
    OBVIOUS
  <2>2. SumFunctionOnSet(f, 1..0) = 0
    BY <2>1, SumEmpty
  <2> QED
    BY <2>2, <1>4, <1>5
<1>7. ASSUME NEW n \in 0..(N - 1), n \in Good PROVE n + 1 \in Good
  <2>1. n \in Nat /\ n + 1 \in 0..N /\ n + 1 \in 1..N /\ n \in 0..N
    BY <1>4
  <2>2. \A i \in 1..N : f[i] = chunks[i].amount /\ f[i] \in Nat
    BY ChunkTotalType
  <2>3. SumFunctionOnSet(f, 1..(n + 1)) = SumFunctionOnSet(f, 1..n) + f[n + 1]
    <3>1. \A i \in 1..(n + 1) : f[i] \in Int
      BY <2>1, <2>2, <1>4
    <3> HIDE DEF f
    <3> QED
      BY <2>1, <3>1, SumUpTo
  <2>4. /\ SumFunctionOnSet(f, 1..(n + 1)) \in Nat
        /\ SumFunctionOnSet(f, 1..(n + 1)) <= ChunkTotal(chunks)
        /\ SumFunctionOnSet(f, 1..n) \in Nat /\ ChunkTotal(chunks) \in Nat
    BY <2>1, ChunkTotalType
  <2>5. Sum[n + 1] = WrapAdd(SumFunctionOnSet(f, 1..n), f[n + 1])
    <3>1. Sum[n + 1] = WrapAdd(Sum[(n + 1) - 1], chunks[n + 1].amount)
      BY <2>1, <1>5
    <3>2. (n + 1) - 1 = n
      BY <2>1
    <3>3. Sum[n] = SumFunctionOnSet(f, 1..n)
      BY <1>7
    <3>4. chunks[n + 1].amount = f[n + 1]
      BY <2>1, <2>2
    <3> QED
      BY <3>1, <3>2, <3>3, <3>4
  <2>6. WrapAdd(SumFunctionOnSet(f, 1..n), f[n + 1]) = SumFunctionOnSet(f, 1..(n + 1))
    <3> DEFINE t == SumFunctionOnSet(f, 1..(n + 1))
    <3>1. t \in Nat /\ t <= MaxBalance
      BY <2>4, CurrencyAssumption
    <3>2. t % (MaxBalance + 1) = t
      <4> HIDE DEF t
      <4> QED
        BY <3>1, CurrencyAssumption
    <3> QED
      BY <3>2, <2>3 DEF WrapAdd
  <2> QED
    BY <2>1, <2>5, <2>6
<1>8. N \in Good
  <2> HIDE DEF Good, N
  <2>1. \A n \in 0..(N - 1) : n \in Good => n + 1 \in Good
    BY <1>7
  <2>2. \A n \in 0..N : n \in Good
    BY <1>4, <1>6, <2>1, UpToInduction
  <2> QED
    BY <2>2, <1>4
<1> QED
  BY <1>3, <1>8 DEF ChunkTotal

(* Adding an amount adds it to the total.                                  *)
LEMMA ChunkTotalAdded ==
  ASSUME NEW chunks \in Seq(UnlockingChunk), NEW result \in Seq(UnlockingChunk),
         NEW amount \in Nat, AmountAdded(chunks, result, amount),
         ChunkTotal(chunks) + amount <= MaxBalance
  PROVE  ChunkTotal(result) = ChunkTotal(chunks) + amount
<1> DEFINE N == Len(chunks)
           f == ChunkAmounts(chunks)
           g == ChunkAmounts(result)
<1>1. N \in Nat /\ IsFiniteSet(1..N)
  BY LenProperties, FS_Interval
<1>2. /\ ChunkTotal(chunks) = SumFunctionOnSet(f, 1..N)
      /\ ChunkTotal(result) = SumFunctionOnSet(g, 1..Len(result))
      /\ ChunkTotal(chunks) \in Nat
  BY ChunkTotalType DEF ChunkTotal
<1>3. /\ \A i \in 1..N : f[i] = chunks[i].amount /\ f[i] \in Nat /\ f[i] <= ChunkTotal(chunks)
      /\ \A i \in 1..Len(result) : g[i] = result[i].amount /\ g[i] \in Nat
  BY ChunkTotalType
<1> HIDE DEF f, g, N
<1>4. ASSUME Len(result) = N, NEW k \in 1..N,
             \A i \in 1..N : result[i].amount = IF i = k THEN WrapAdd(chunks[k].amount, amount)
                                                         ELSE chunks[i].amount
      PROVE  ChunkTotal(result) = ChunkTotal(chunks) + amount
  <2>1. g[k] = WrapAdd(f[k], amount)
    BY <1>3, <1>4
  <2>2. WrapAdd(f[k], amount) = f[k] + amount
    <3>1. f[k] + amount \in Nat /\ f[k] + amount <= MaxBalance
      BY <1>2, <1>3, CurrencyAssumption
    <3> DEFINE t == f[k] + amount
    <3>2. t % (MaxBalance + 1) = t
      <4> HIDE DEF t
      <4>1. t \in Nat /\ t <= MaxBalance
        BY <3>1 DEF t
      <4> QED
        BY <4>1, CurrencyAssumption
    <3> QED
      BY <3>2 DEF WrapAdd
  <2>3. \A i \in 1..N : i # k => g[i] = f[i]
    BY <1>3, <1>4
  <2>4. f[k] \in Nat /\ g[k] \in Int /\ \A i \in 1..N : f[i] \in Int
    BY <1>3, <1>4
  <2>5. SumFunctionOnSet(g, 1..N) = SumFunctionOnSet(f, 1..N) - f[k] + g[k]
    BY <1>1, <2>3, <2>4, SumChange
  <2> QED
    BY <2>1, <2>2, <2>4, <2>5, <1>2, <1>4
<1>5. ASSUME Len(result) = N + 1,
             \A i \in 1..N : result[i].amount = chunks[i].amount,
             result[N + 1].amount = amount
      PROVE  ChunkTotal(result) = ChunkTotal(chunks) + amount
  <2>0. \A i \in 1..(N + 1) : g[i] = result[i].amount /\ g[i] \in Nat
    BY <1>3, <1>5
  <2>1. /\ \A i \in 1..N : g[i] = f[i]
        /\ g[N + 1] = amount
        /\ \A i \in 1..(N + 1) : g[i] \in Int
    BY <2>0, <1>1, <1>3, <1>5
  <2>2. SumFunctionOnSet(g, 1..(N + 1)) = SumFunctionOnSet(g, 1..N) + g[N + 1]
    BY <1>1, <2>1, SumUpTo
  <2>3. SumFunctionOnSet(g, 1..N) = SumFunctionOnSet(f, 1..N)
    BY <1>1, <2>1, SumEqual
  <2> QED
    BY <2>1, <2>2, <2>3, <1>2, <1>5
<1> QED
  BY <1>4, <1>5 DEF AmountAdded, N

(* partition divides the total.                                            *)
LEMMA ChunkTotalSplit ==
  ASSUME NEW chunks \in Seq(UnlockingChunk), NEW k \in 1..(Len(chunks) + 1)
  PROVE  ChunkTotal(chunks) = ChunkTotal(SubSeq(chunks, 1, k - 1))
                                + ChunkTotal(SubSeq(chunks, k, Len(chunks)))
<1> DEFINE N == Len(chunks)
           M == N - k + 1
           first == SubSeq(chunks, 1, k - 1)
           rest == SubSeq(chunks, k, N)
           f == ChunkAmounts(chunks)
           g == ChunkAmounts(first)
           h == ChunkAmounts(rest)
           Good == {n \in 0..M : SumFunctionOnSet(f, 1..((k - 1) + n)) =
                      SumFunctionOnSet(f, 1..(k - 1)) + SumFunctionOnSet(h, 1..n)}
<1>1. /\ N \in Nat /\ M \in Nat /\ k - 1 \in 0..N /\ k \in Nat /\ k >= 1
      /\ \A i \in 1..N : chunks[i] \in UnlockingChunk
  BY ChunkFields
<1>2. /\ first \in Seq(UnlockingChunk) /\ Len(first) = k - 1
      /\ \A i \in 1..(k - 1) : first[i] = chunks[i]
  <2>1. \A i \in 1..(k - 1) : chunks[i] \in UnlockingChunk
    BY <1>1
  <2>2. k - 1 \in Int /\ 1 \in Int
    BY <1>1
  <2>3. /\ first \in Seq(UnlockingChunk)
        /\ Len(first) = IF 1 <= k - 1 THEN (k - 1) - 1 + 1 ELSE 0
        /\ \A i \in 1..((k - 1) - 1 + 1) : first[i] = chunks[1 + i - 1]
    BY <2>1, <2>2, SubSeqProperties
  <2> HIDE DEF first
  <2> QED
    BY <2>3, <1>1
<1>3. /\ rest \in Seq(UnlockingChunk) /\ Len(rest) = M
      /\ \A i \in 1..M : rest[i] = chunks[(k - 1) + i]
  <2>1. \A i \in k..N : chunks[i] \in UnlockingChunk
    BY <1>1
  <2>2. k \in Int /\ N \in Int
    BY <1>1
  <2>3. /\ rest \in Seq(UnlockingChunk)
        /\ Len(rest) = IF k <= N THEN N - k + 1 ELSE 0
        /\ \A i \in 1..(N - k + 1) : rest[i] = chunks[k + i - 1]
    BY <2>1, <2>2, SubSeqProperties
  <2> HIDE DEF rest, N
  <2> QED
    BY <2>3, <1>1
<1>4. /\ \A i \in 1..N : f[i] = chunks[i].amount /\ f[i] \in Nat
      /\ \A i \in 1..(k - 1) : g[i] = first[i].amount /\ g[i] \in Nat
      /\ \A i \in 1..M : h[i] = rest[i].amount /\ h[i] \in Nat
  <2> HIDE DEF first, rest
  <2> QED
    BY <1>2, <1>3, ChunkTotalType
<1>5. /\ ChunkTotal(chunks) = SumFunctionOnSet(f, 1..N)
      /\ ChunkTotal(first) = SumFunctionOnSet(g, 1..(k - 1))
      /\ ChunkTotal(rest) = SumFunctionOnSet(h, 1..M)
  <2> HIDE DEF first, rest
  <2> QED
    BY <1>2, <1>3 DEF ChunkTotal
<1> HIDE DEF first, rest, f, g, h, N, M
<1>6. SumFunctionOnSet(g, 1..(k - 1)) = SumFunctionOnSet(f, 1..(k - 1))
  <2>1. \A i \in 1..(k - 1) : g[i] = f[i]
    BY <1>1, <1>2, <1>4
  <2>2. IsFiniteSet(1..(k - 1))
    BY <1>1, FS_Interval
  <2> QED
    BY <2>1, <2>2, SumEqual
<1>7. SumFunctionOnSet(f, 1..(k - 1)) \in Int
  <2>1. \A i \in 1..(k - 1) : f[i] \in Int
    BY <1>1, <1>4
  <2>2. IsFiniteSet(1..(k - 1))
    BY <1>1, FS_Interval
  <2> QED
    BY <2>1, <2>2, SumType
<1>8. 0 \in Good
  <2>1. 1..0 = {} /\ (k - 1) + 0 = k - 1
    BY <1>1
  <2>2. SumFunctionOnSet(h, 1..0) = 0
    BY <2>1, SumEmpty
  <2> QED
    BY <2>1, <2>2, <1>1, <1>7
<1>9. ASSUME NEW n \in 0..(M - 1), n \in Good PROVE n + 1 \in Good
  <2> DEFINE j == (k - 1) + n
  <2>1. /\ n \in Nat /\ n + 1 \in 0..M /\ n + 1 \in 1..M
        /\ j \in Nat /\ j + 1 \in 1..N /\ j + 1 = (k - 1) + (n + 1)
    BY <1>1 DEF M
  <2>2. f[j + 1] = h[n + 1] /\ h[n + 1] \in Nat
    <3>1. f[j + 1] = chunks[j + 1].amount
      BY <2>1, <1>4
    <3>2. h[n + 1] = chunks[(k - 1) + (n + 1)].amount /\ h[n + 1] \in Nat
      BY <2>1, <1>3, <1>4
    <3> HIDE DEF j
    <3> QED
      BY <2>1, <3>1, <3>2
  <2>3. SumFunctionOnSet(f, 1..j) = SumFunctionOnSet(f, 1..(k - 1)) + SumFunctionOnSet(h, 1..n)
    BY <1>9
  <2> HIDE DEF j
  <2>4. SumFunctionOnSet(f, 1..(j + 1)) = SumFunctionOnSet(f, 1..j) + f[j + 1]
    <3>1. \A i \in 1..(j + 1) : f[i] \in Int
      BY <2>1, <1>1, <1>4
    <3> QED
      BY <2>1, <3>1, SumUpTo
  <2>5. SumFunctionOnSet(h, 1..(n + 1)) = SumFunctionOnSet(h, 1..n) + h[n + 1]
    <3>1. \A i \in 1..(n + 1) : h[i] \in Int
      BY <2>1, <1>1, <1>4
    <3> QED
      BY <2>1, <3>1, SumUpTo
  <2>6. SumFunctionOnSet(h, 1..n) \in Int
    <3>1. \A i \in 1..n : h[i] \in Int
      BY <2>1, <1>1, <1>4
    <3>2. IsFiniteSet(1..n)
      BY <2>1, FS_Interval
    <3> QED
      BY <3>1, <3>2, SumType
  <2>7. SumFunctionOnSet(f, 1..((k - 1) + (n + 1))) =
          SumFunctionOnSet(f, 1..(k - 1)) + SumFunctionOnSet(h, 1..(n + 1))
    BY <2>1, <2>2, <2>3, <2>4, <2>5, <2>6, <1>7, SMTT(30)
  <2> QED
    BY <2>1, <2>7
<1>10. M \in Good
  <2> HIDE DEF Good
  <2>1. \A n \in 0..(M - 1) : n \in Good => n + 1 \in Good
    BY <1>9
  <2>2. \A n \in 0..M : n \in Good
    BY <1>1, <1>8, <2>1, UpToInduction
  <2> QED
    BY <2>2, <1>1
<1>11. (k - 1) + M = N
  BY <1>1 DEF M
<1>12. ChunkTotal(chunks) = ChunkTotal(first) + ChunkTotal(rest)
  BY <1>5, <1>6, <1>10, <1>11
<1> QED
  BY <1>12 DEF first, rest, N

----------------------------------------------------------------------------
(* Delegation vectors                                                      *)

(* The fields of the entries of a vector.                                  *)
LEMMA StakeFields ==
  ASSUME NEW stakes \in Seq(EraStake)
  PROVE  /\ Len(stakes) \in Nat
         /\ DOMAIN stakes = 1..Len(stakes)
         /\ \A i \in 1..Len(stakes) : /\ stakes[i] \in EraStake
                                      /\ stakes[i].era \in Nat
                                      /\ stakes[i].amount \in Nat
         /\ stakes # <<>> => Len(stakes) >= 1
         /\ LatestStakedValue(stakes) \in Nat
<1>1. Len(stakes) \in Nat /\ DOMAIN stakes = 1..Len(stakes)
      /\ stakes \in [1..Len(stakes) -> EraStake]
  BY LenProperties
<1>2. \A c \in EraStake : c.era \in Nat /\ c.amount \in Nat
  BY DEF EraStake
<1>3. stakes # <<>> => Len(stakes) >= 1
  <2>1. stakes # <<>> => Len(stakes) \in Nat \ {0}
    BY EmptySeq
  <2> QED
    BY <2>1
<1>4. LatestStakedValue(stakes) \in Nat
  <2>1. CASE stakes = <<>>
    BY <2>1 DEF LatestStakedValue
  <2>2. CASE stakes # <<>>
    <3>1. Len(stakes) \in 1..Len(stakes)
      BY <2>2, <1>3, <1>1
    <3> QED
      BY <3>1, <2>2, <1>1, <1>2 DEF LatestStakedValue
  <2> QED
    BY <2>1, <2>2
<1> QED
  BY <1>1, <1>2, <1>3, <1>4

(* Recording a stake for the current era keeps the entries in order.       *)
LEMMA SetLatestProperties ==
  ASSUME NEW stakes \in Seq(EraStake), stakes # <<>>,
         NEW e \in Nat, NEW amount \in Nat, EntriesOrdered(stakes, e)
  PROVE  LET result == SetLatest(stakes, e, amount)
         IN  /\ result \in Seq(EraStake)
             /\ result # <<>>
             /\ EntriesOrdered(result, e)
<1> DEFINE n == Len(stakes)
           new == NewEraStake(amount, e)
           replaced == [stakes EXCEPT ![n] = new]
           appended == Append(stakes, new)
<1>1. /\ n \in Nat /\ n >= 1 /\ n \in 1..n /\ DOMAIN stakes = 1..n
      /\ \A i \in 1..n : stakes[i] \in EraStake /\ stakes[i].era \in Nat
  BY StakeFields
<1>2. new \in EraStake /\ new.era = e
  BY DEF NewEraStake, EraStake
<1>3. /\ \A i, j \in 1..n : i < j => stakes[i].era < stakes[j].era
      /\ \A i \in 1..n : stakes[i].era <= e
  BY <1>1 DEF EntriesOrdered
<1> HIDE DEF new
<1>4. ASSUME stakes[n].era = e
      PROVE  replaced \in Seq(EraStake) /\ replaced # <<>> /\ EntriesOrdered(replaced, e)
  <2>1. /\ replaced \in Seq(EraStake) /\ Len(replaced) = n
        /\ \A j \in 1..n : replaced[j] = IF j = n THEN new ELSE stakes[j]
    BY <1>1, <1>2, ExceptSeq
  <2> HIDE DEF replaced
  <2>2. DOMAIN replaced = 1..n
    BY <2>1, LenProperties
  <2>3. \A j \in 1..n : replaced[j].era = stakes[j].era
    BY <2>1, <1>2, <1>4
  <2>4. replaced # <<>>
    BY <2>1, <1>1, EmptySeq
  <2> QED
    BY <2>1, <2>2, <2>3, <2>4, <1>3 DEF EntriesOrdered
<1>5. ASSUME stakes[n].era # e
      PROVE  appended \in Seq(EraStake) /\ appended # <<>> /\ EntriesOrdered(appended, e)
  <2>1. /\ appended \in Seq(EraStake) /\ appended # <<>>
        /\ Len(appended) = n + 1
        /\ \A j \in 1..n : appended[j] = stakes[j]
        /\ appended[n + 1] = new
    BY <1>2, AppendProperties
  <2> HIDE DEF appended
  <2>2. DOMAIN appended = 1..(n + 1)
    BY <2>1, LenProperties
  <2>3. \A j \in 1..n : stakes[j].era < e
    <3>1. stakes[n].era < e
      BY <1>1, <1>3, <1>5
    <3> TAKE j \in 1..n
    <3>2. j = n \/ j < n
      <4> HIDE DEF n
      <4> QED
        BY <1>1
    <3>3. j < n => stakes[j].era < stakes[n].era
      BY <1>1, <1>3
    <3>4. stakes[j].era \in Nat /\ stakes[n].era \in Nat
      BY <1>1
    <3> QED
      BY <3>1, <3>2, <3>3, <3>4
  <2>4. ASSUME NEW i \in 1..(n + 1), NEW j \in 1..(n + 1), i < j
        PROVE  appended[i].era < appended[j].era
    <3>1. i \in 1..n /\ (j \in 1..n \/ j = n + 1)
      BY <2>4, <1>1
    <3> QED
      BY <3>1, <2>1, <2>3, <2>4, <1>2, <1>3
  <2>5. ASSUME NEW i \in 1..(n + 1) PROVE appended[i].era <= e
    <3>1. i \in 1..n \/ i = n + 1
      BY <1>1
    <3> QED
      BY <3>1, <2>1, <1>2, <1>3
  <2> QED
    BY <2>1, <2>2, <2>4, <2>5 DEF EntriesOrdered
<1>6. SetLatest(stakes, e, amount) = IF stakes[n].era = e THEN replaced ELSE appended
  BY DEF SetLatest, new
<1> HIDE DEF replaced, appended
<1> QED
  BY <1>4, <1>5, <1>6

(* Removing the oldest entry keeps the others in order.                    *)
LEMMA TailProperties ==
  ASSUME NEW stakes \in Seq(EraStake), stakes # <<>>,
         NEW e \in Nat, EntriesOrdered(stakes, e)
  PROVE  /\ Tail(stakes) \in Seq(EraStake)
         /\ Len(Tail(stakes)) <= Len(stakes)
         /\ EntriesOrdered(Tail(stakes), e)
<1> DEFINE tail == Tail(stakes)
<1>1. Len(stakes) \in Nat /\ DOMAIN stakes = 1..Len(stakes)
  BY StakeFields
<1>2. /\ tail \in Seq(EraStake)
      /\ Len(tail) = Len(stakes) - 1
      /\ \A i \in 1..Len(tail) : tail[i] = stakes[i + 1]
  BY HeadTailProperties
<1>3. DOMAIN tail = 1..Len(tail)
  BY <1>2, LenProperties
<1> HIDE DEF tail
<1>4. \A i \in DOMAIN tail : i + 1 \in DOMAIN stakes /\ tail[i] = stakes[i + 1]
  BY <1>1, <1>2, <1>3
<1>5. ASSUME NEW i \in DOMAIN tail, NEW j \in DOMAIN tail, i < j
      PROVE  tail[i].era < tail[j].era
  <2>1. i + 1 < j + 1
    BY <1>5, <1>3, <1>2, <1>1
  <2> QED
    BY <2>1, <1>4 DEF EntriesOrdered
<1>6. \A i \in DOMAIN tail : tail[i].era <= e
  BY <1>4 DEF EntriesOrdered
<1>7. EntriesOrdered(tail, e)
  BY <1>5, <1>6 DEF EntriesOrdered
<1>8. Len(tail) <= Len(stakes)
  BY <1>1, <1>2
<1> QED
  BY <1>2, <1>7, <1>8 DEF tail

LEMMA DropUnstakedHeadProperties ==
  ASSUME NEW stakes \in Seq(EraStake), NEW e \in Nat, EntriesOrdered(stakes, e)
  PROVE  LET result == DropUnstakedHead(stakes)
         IN  /\ result \in Seq(EraStake)
             /\ Len(result) <= Len(stakes)
             /\ EntriesOrdered(result, e)
<1>1. Len(stakes) <= Len(stakes)
  BY StakeFields
<1> QED
  BY <1>1, TailProperties DEF DropUnstakedHead

(* stake and unstake in the current era keep the entries in order.         *)
LEMMA StakeProperties ==
  ASSUME NEW stakes \in Seq(EraStake), NEW e \in Nat, NEW amount \in Nat,
         EntriesOrdered(stakes, e)
  PROVE  /\ Stake(stakes, e, amount) \in Seq(EraStake)
         /\ EntriesOrdered(Stake(stakes, e, amount), e)
<1>1. CASE stakes = <<>>
  <2> DEFINE new == NewEraStake(amount, e)
  <2>1. new \in EraStake /\ new.era = e
    BY DEF NewEraStake, EraStake
  <2> HIDE DEF new
  <2>2. <<new>> \in Seq(EraStake) /\ DOMAIN <<new>> = {1} /\ <<new>>[1] = new
    BY <2>1
  <2>3. EntriesOrdered(<<new>>, e)
    BY <2>1, <2>2 DEF EntriesOrdered
  <2> QED
    BY <1>1, <2>2, <2>3 DEF Stake, new
<1>2. CASE stakes # <<>>
  <2>1. SatAdd(LatestStakedValue(stakes), amount) \in Nat
    BY StakeFields, ArithmeticType
  <2> QED
    BY <1>2, <2>1, SetLatestProperties DEF Stake
<1> QED
  BY <1>1, <1>2

LEMMA UnstakeProperties ==
  ASSUME NEW stakes \in Seq(EraStake), NEW e \in Nat, NEW amount \in Nat,
         EntriesOrdered(stakes, e)
  PROVE  /\ Unstake(stakes, e, amount) \in Seq(EraStake)
         /\ EntriesOrdered(Unstake(stakes, e, amount), e)
<1>1. CASE stakes = <<>>
  BY <1>1 DEF Unstake
<1>2. CASE stakes # <<>>
  <2> DEFINE set == SetLatest(stakes, e, SatSub(LatestStakedValue(stakes), amount))
  <2>1. SatSub(LatestStakedValue(stakes), amount) \in Nat
    BY StakeFields, ArithmeticType
  <2>2. set \in Seq(EraStake) /\ EntriesOrdered(set, e)
    BY <1>2, <2>1, SetLatestProperties
  <2>3. Unstake(stakes, e, amount) = DropUnstakedHead(set)
    BY <1>2 DEF Unstake
  <2> HIDE DEF set
  <2> QED
    BY <2>2, <2>3, DropUnstakedHeadProperties
<1> QED
  BY <1>1, <1>2

(* Claiming a finished era keeps the entries in order, adds none and does  *)
(* not go beyond the current era.                                          *)
LEMMA ClaimProperties ==
  ASSUME NEW stakes \in Seq(EraStake), NEW e \in Nat,
         EntriesOrdered(stakes, e),
         stakes # <<>>, stakes[1].era < e
  PROVE  /\ Claim(stakes) \in Seq(EraStake)
         /\ Len(Claim(stakes)) <= Len(stakes)
         /\ EntriesOrdered(Claim(stakes), e)
<1> DEFINE n == Len(stakes)
           moved == [stakes EXCEPT ![1] = NewEraStake(@.amount, @.era + 1)]
           new == NewEraStake(stakes[1].amount, stakes[1].era + 1)
<1>1. /\ n \in Nat /\ n >= 1 /\ 1 \in 1..n /\ DOMAIN stakes = 1..n
      /\ \A i \in 1..n : /\ stakes[i].era \in Nat
                         /\ stakes[i].amount \in Nat
                         /\ stakes[i].era <= e
      /\ \A i, j \in 1..n : i < j => stakes[i].era < stakes[j].era
  BY StakeFields DEF EntriesOrdered
<1>2. new \in EraStake /\ new.era = stakes[1].era + 1
  BY <1>1 DEF NewEraStake, EraStake
<1>3. ASSUME n = 1 \/ stakes[2].era > stakes[1].era + 1
      PROVE  moved \in Seq(EraStake) /\ Len(moved) = n /\ EntriesOrdered(moved, e)
  <2>1. moved = [stakes EXCEPT ![1] = new]
    OBVIOUS
  <2> HIDE DEF moved, new
  <2>2. /\ moved \in Seq(EraStake) /\ Len(moved) = n
        /\ \A j \in 1..n : moved[j] = IF j = 1 THEN new ELSE stakes[j]
    BY <2>1, <1>1, <1>2, ExceptSeq
  <2>3. DOMAIN moved = 1..n
    BY <2>2, LenProperties
  <2> HIDE DEF n
  <2>4. ASSUME NEW i \in 1..n, NEW j \in 1..n, i < j
        PROVE  moved[i].era < moved[j].era
    <3>1. j # 1 /\ moved[j] = stakes[j] /\ 2 \in 1..n /\ n # 1
      BY <2>4, <2>2, <1>1
    <3>2. CASE i # 1
      BY <3>1, <3>2, <2>4, <2>2, <1>1
    <3>3. CASE i = 1
      <4>1. moved[i].era = stakes[1].era + 1
        BY <3>3, <2>2, <1>2, <1>1
      <4>2. stakes[2].era > stakes[1].era + 1
        BY <3>1, <1>3
      <4>3. j = 2 \/ 2 < j
        BY <3>1, <1>1
      <4>4. stakes[2].era <= stakes[j].era
        BY <4>3, <3>1, <1>1
      <4> QED
        BY <4>1, <4>2, <4>4, <3>1, <1>1
    <3> QED
      BY <3>2, <3>3
  <2>5. \A i \in 1..n : moved[i].era <= e
    BY <2>2, <1>1, <1>2
  <2> QED
    BY <2>2, <2>3, <2>4, <2>5 DEF EntriesOrdered
<1>4. /\ Tail(stakes) \in Seq(EraStake)
      /\ Len(Tail(stakes)) <= n
      /\ EntriesOrdered(Tail(stakes), e)
  BY TailProperties
<1>5. Claim(stakes) =
        DropUnstakedHead(IF n = 1 \/ stakes[2].era > stakes[1].era + 1
                         THEN moved ELSE Tail(stakes))
  BY DEF Claim
<1> HIDE DEF moved
<1> DEFINE rest == IF n = 1 \/ stakes[2].era > stakes[1].era + 1
                   THEN moved ELSE Tail(stakes)
<1>6. rest \in Seq(EraStake) /\ Len(rest) <= n /\ EntriesOrdered(rest, e)
  <2>1. n <= n
    BY <1>1
  <2> QED
    BY <1>3, <1>4, <2>1
<1>7. Claim(stakes) = DropUnstakedHead(rest)
  BY <1>5
<1> HIDE DEF rest
<1>8. /\ Claim(stakes) \in Seq(EraStake)
      /\ Len(Claim(stakes)) <= Len(rest)
      /\ EntriesOrdered(Claim(stakes), e)
  BY <1>6, <1>7, DropUnstakedHeadProperties
<1>9. Len(Claim(stakes)) \in Nat /\ Len(rest) \in Nat
  BY <1>6, <1>8, StakeFields
<1> QED
  BY <1>1, <1>6, <1>8, <1>9

----------------------------------------------------------------------------
(* What a vector says was staked in an era                                 *)

(* Entry i is the one that holds for era e.                                *)
Covers(stakes, i, e) ==
  /\ stakes[i].era <= e
  /\ \A j \in DOMAIN stakes : j > i => stakes[j].era > e

(* The stake of an era is that of the entry that holds for it.             *)
LEMMA StakedAtEntry ==
  ASSUME NEW stakes \in Seq(EraStake), NEW e \in Nat,
         NEW i \in DOMAIN stakes, Covers(stakes, i, e)
  PROVE  StakedAt(stakes, e) = stakes[i].amount
<1> DEFINE covering == {k \in DOMAIN stakes : stakes[k].era <= e}
<1>1. /\ DOMAIN stakes = 1..Len(stakes) /\ Len(stakes) \in Nat
      /\ \A k \in DOMAIN stakes : stakes[k].era \in Nat
  BY StakeFields
<1>2. i \in covering /\ \A j \in covering : j <= i
  BY <1>1 DEF Covers
<1>3. \A k \in covering : (\A j \in covering : j <= k) => k = i
  BY <1>1, <1>2
<1>4. (CHOOSE k \in covering : \A j \in covering : j <= k) = i
  <2> HIDE DEF covering
  <2> QED
    BY <1>2, <1>3
<1> QED
  BY <1>2, <1>4 DEF StakedAt

(* Nothing was staked before the oldest entry.                             *)
LEMMA StakedAtNone ==
  ASSUME NEW stakes \in Seq(EraStake), NEW e \in Nat,
         \A i \in DOMAIN stakes : stakes[i].era > e
  PROVE  StakedAt(stakes, e) = 0
<1>1. \A i \in DOMAIN stakes : stakes[i].era \in Nat
  BY StakeFields
<1>2. {k \in DOMAIN stakes : stakes[k].era <= e} = {}
  BY <1>1
<1> QED
  BY <1>2 DEF StakedAt

(* Either the era is before the oldest entry or an entry holds for it.     *)
LEMMA CoveringEntry ==
  ASSUME NEW stakes \in Seq(EraStake), NEW c \in Nat, EntriesOrdered(stakes, c),
         NEW e \in Nat
  PROVE  \/ \A i \in DOMAIN stakes : stakes[i].era > e
         \/ \E i \in DOMAIN stakes : Covers(stakes, i, e)
<1> DEFINE n == Len(stakes)
           T == {k \in 1..(n + 1) : k <= n => stakes[k].era > e}
<1>1. /\ DOMAIN stakes = 1..n /\ n \in Nat
      /\ \A k \in 1..n : stakes[k].era \in Nat
      /\ \A i, j \in 1..n : i < j => stakes[i].era < stakes[j].era
  BY StakeFields DEF EntriesOrdered
<1> HIDE DEF n
<1>2. T \subseteq Nat /\ T # {}
  <2>1. n + 1 \in T
    BY <1>1
  <2> QED
    BY <2>1, <1>1
<1>3. PICK k \in T : \A m \in T : k <= m
  <2> HIDE DEF T
  <2> QED
    BY <1>2, LeastNatural
<1>4. k \in 1..(n + 1) /\ \A j \in 1..n : j >= k => stakes[j].era > e
  <2>1. k \in 1..(n + 1) /\ (k <= n => stakes[k].era > e)
    BY <1>3
  <2>2. ASSUME NEW j \in 1..n, j >= k PROVE stakes[j].era > e
    <3>1. k \in 1..n /\ (j = k \/ k < j)
      BY <2>1, <2>2, <1>1
    <3> QED
      BY <3>1, <2>1, <2>2, <1>1
  <2> QED
    BY <2>1, <2>2
<1>5. CASE k = 1
  BY <1>1, <1>4, <1>5
<1>6. CASE k # 1
  <2>1. k - 1 \in 1..n
    BY <1>1, <1>4, <1>6
  <2>2. k - 1 \notin T
    <3> HIDE DEF T
    <3> QED
      BY <1>3, <1>4, <1>1, <2>1
  <2>3. stakes[k - 1].era <= e
    BY <2>1, <2>2, <1>1
  <2>4. Covers(stakes, k - 1, e)
    BY <2>1, <2>3, <1>1, <1>4 DEF Covers
  <2> QED
    BY <2>1, <2>4, <1>1
<1> QED
  BY <1>5, <1>6

(* From the current era on it is the latest stake.                         *)
LEMMA StakedAtLatest ==
  ASSUME NEW stakes \in Seq(EraStake), NEW c \in Nat, EntriesOrdered(stakes, c),
         NEW e \in Nat, e >= c
  PROVE  StakedAt(stakes, e) = LatestStakedValue(stakes)
<1> DEFINE n == Len(stakes)
<1>1. /\ DOMAIN stakes = 1..n /\ n \in Nat /\ (stakes # <<>> => n >= 1)
      /\ \A k \in 1..n : stakes[k].era \in Nat /\ stakes[k].era <= c
  BY StakeFields DEF EntriesOrdered
<1>2. CASE stakes = <<>>
  <2>1. \A i \in DOMAIN stakes : stakes[i].era > e
    BY <1>2
  <2> QED
    BY <1>2, <2>1, StakedAtNone DEF LatestStakedValue
<1>3. CASE stakes # <<>>
  <2>1. n \in DOMAIN stakes /\ Covers(stakes, n, e)
    <3> HIDE DEF n
    <3> QED
      BY <1>1, <1>3 DEF Covers
  <2> QED
    BY <1>3, <2>1, StakedAtEntry DEF LatestStakedValue
<1> QED
  BY <1>2, <1>3

(* A stake recorded for the current era holds from then on and leaves the  *)
(* eras before it alone.                                                   *)
LEMMA StakedAtSetLatest ==
  ASSUME NEW stakes \in Seq(EraStake), stakes # <<>>,
         NEW c \in Nat, NEW amount \in Nat, EntriesOrdered(stakes, c), NEW e \in Nat
  PROVE  StakedAt(SetLatest(stakes, c, amount), e) =
           IF e >= c THEN amount ELSE StakedAt(stakes, e)
<1> DEFINE n == Len(stakes)
           new == NewEraStake(amount, c)
           set == SetLatest(stakes, c, amount)
<1>1. /\ DOMAIN stakes = 1..n /\ n \in Nat /\ n >= 1
      /\ \A k \in 1..n : /\ stakes[k].era \in Nat /\ stakes[k].era <= c
                         /\ stakes[k] \in EraStake
      /\ \A i, j \in 1..n : i < j => stakes[i].era < stakes[j].era
  BY StakeFields DEF EntriesOrdered
<1>2. new \in EraStake /\ new.era = c /\ new.amount = amount
  BY DEF NewEraStake, EraStake
<1>3. set \in Seq(EraStake) /\ EntriesOrdered(set, c)
  BY SetLatestProperties
<1> HIDE DEF new
<1> DEFINE m == IF stakes[n].era = c THEN n ELSE n + 1
<1>4. /\ m \in {n, n + 1} /\ Len(set) = m /\ DOMAIN set = 1..m
      /\ set[m] = new
      /\ \A j \in 1..(m - 1) : j \in 1..n /\ set[j] = stakes[j]
  <2>1. CASE stakes[n].era = c
    <3>1. set = [stakes EXCEPT ![n] = new]
      BY <2>1 DEF SetLatest, new
    <3>2. /\ Len(set) = n
          /\ \A j \in 1..n : set[j] = IF j = n THEN new ELSE stakes[j]
      BY <3>1, <1>1, <1>2, ExceptSeq
    <3>3. DOMAIN set = 1..Len(set)
      BY <1>3, LenProperties
    <3> HIDE DEF n, set
    <3> QED
      BY <2>1, <3>2, <3>3, <1>1
  <2>2. CASE stakes[n].era # c
    <3>1. set = Append(stakes, new)
      BY <2>2 DEF SetLatest, new
    <3>2. /\ Len(set) = n + 1
          /\ \A j \in 1..n : set[j] = stakes[j]
          /\ set[n + 1] = new
      BY <3>1, <1>2, AppendProperties
    <3>3. DOMAIN set = 1..Len(set)
      BY <1>3, LenProperties
    <3> HIDE DEF n, set
    <3> QED
      BY <2>2, <3>2, <3>3, <1>1
  <2> QED
    BY <2>1, <2>2
<1>5. \A j \in 1..n : stakes[j].era < c => j \in 1..(m - 1)
  <2> HIDE DEF n
  <2> QED
    BY <1>1
<1> HIDE DEF set, m
<1>6. CASE e >= c
  <2>1. m \in DOMAIN set /\ Covers(set, m, e)
    <3>1. m \in Nat /\ m >= 1
      <4> HIDE DEF n
      <4> QED
        BY <1>1, <1>4
    <3> QED
      BY <3>1, <1>2, <1>4, <1>6 DEF Covers
  <2>2. StakedAt(set, e) = new.amount
    BY <2>1, <1>3, <1>4, StakedAtEntry
  <2> QED
    BY <2>2, <1>2, <1>6 DEF set
<1>7. CASE e < c
  <2> HIDE DEF n
  <2>1. CASE \A i \in DOMAIN stakes : stakes[i].era > e
    <3>1. \A i \in DOMAIN set : set[i].era > e
      <4> TAKE i \in DOMAIN set
      <4>1. i = m \/ i \in 1..(m - 1)
        BY <1>1, <1>4
      <4> QED
        BY <4>1, <2>1, <1>1, <1>2, <1>4, <1>7
    <3> QED
      BY <3>1, <2>1, <1>3, <1>7, StakedAtNone DEF set
  <2>2. CASE \E i \in DOMAIN stakes : Covers(stakes, i, e)
    <3>1. PICK i \in DOMAIN stakes : Covers(stakes, i, e)
      BY <2>2
    <3>2. stakes[i].era < c /\ i \in 1..(m - 1)
      BY <3>1, <1>1, <1>5, <1>7 DEF Covers
    <3>3. i \in DOMAIN set /\ set[i] = stakes[i]
      BY <3>2, <1>1, <1>4
    <3>4. Covers(set, i, e)
      <4>1. set[i].era <= e
        BY <3>1, <3>3 DEF Covers
      <4>2. ASSUME NEW j \in DOMAIN set, j > i PROVE set[j].era > e
        <5>1. j = m \/ j \in 1..(m - 1)
          BY <1>1, <1>4
        <5> QED
          BY <5>1, <4>2, <3>1, <1>1, <1>2, <1>4, <1>7 DEF Covers
      <4> QED
        BY <4>1, <4>2 DEF Covers
    <3>5. StakedAt(set, e) = set[i].amount /\ StakedAt(stakes, e) = stakes[i].amount
      BY <3>1, <3>3, <3>4, <1>3, StakedAtEntry
    <3>6. ~(e >= c)
      BY <1>7
    <3> QED
      BY <3>3, <3>5, <3>6 DEF set
  <2> QED
    BY <2>1, <2>2, CoveringEntry
<1> QED
  BY <1>6, <1>7

(* The entry that DropUnstakedHead removes stands for nothing.             *)
LEMMA StakedAtTail ==
  ASSUME NEW stakes \in Seq(EraStake), stakes # <<>>,
         NEW c \in Nat, EntriesOrdered(stakes, c), NEW e \in Nat
  PROVE  StakedAt(Tail(stakes), e) =
           IF Covers(stakes, 1, e) THEN 0 ELSE StakedAt(stakes, e)
<1> DEFINE n == Len(stakes)
           tail == Tail(stakes)
<1>1. /\ DOMAIN stakes = 1..n /\ n \in Nat /\ n >= 1
      /\ \A k \in 1..n : stakes[k].era \in Nat
      /\ \A i, j \in 1..n : i < j => stakes[i].era < stakes[j].era
  BY StakeFields DEF EntriesOrdered
<1>2. /\ tail \in Seq(EraStake) /\ Len(tail) = n - 1
      /\ \A i \in 1..Len(tail) : tail[i] = stakes[i + 1]
  BY HeadTailProperties
<1>3. DOMAIN tail = 1..(n - 1) /\ \A i \in 1..(n - 1) : tail[i] = stakes[i + 1]
  BY <1>2, LenProperties
<1> HIDE DEF tail, n
<1>4. CASE Covers(stakes, 1, e)
  <2>1. ASSUME NEW i \in DOMAIN tail PROVE tail[i].era > e
    <3>1. i + 1 \in DOMAIN stakes /\ i + 1 > 1 /\ tail[i] = stakes[i + 1]
      BY <1>1, <1>3
    <3> QED
      BY <3>1, <1>4 DEF Covers
  <2> QED
    BY <2>1, <1>2, <1>4, StakedAtNone DEF tail
<1>5. CASE \A i \in DOMAIN stakes : stakes[i].era > e
  <2>1. \A i \in DOMAIN tail : tail[i].era > e
    BY <1>1, <1>3, <1>5, SMTT(30)
  <2>2. ~Covers(stakes, 1, e)
    BY <1>1, <1>5 DEF Covers
  <2> QED
    BY <2>1, <2>2, <1>2, <1>5, StakedAtNone DEF tail
<1>6. CASE \E i \in DOMAIN stakes : i # 1 /\ Covers(stakes, i, e)
  <2>1. PICK i \in DOMAIN stakes : i # 1 /\ Covers(stakes, i, e)
    BY <1>6
  <2>2. i - 1 \in DOMAIN tail /\ tail[i - 1] = stakes[i]
    BY <2>1, <1>1, <1>3
  <2>3. Covers(tail, i - 1, e)
    <3>1. ASSUME NEW j \in DOMAIN tail, j > i - 1 PROVE tail[j].era > e
      <4>1. j + 1 \in DOMAIN stakes /\ j + 1 > i /\ tail[j] = stakes[j + 1]
        BY <3>1, <2>1, <1>1, <1>3
      <4> QED
        BY <4>1, <2>1 DEF Covers
    <3> QED
      BY <3>1, <2>1, <2>2 DEF Covers
  <2>4. StakedAt(tail, e) = stakes[i].amount /\ StakedAt(stakes, e) = stakes[i].amount
    BY <2>1, <2>2, <2>3, <1>2, StakedAtEntry
  <2>5. ~Covers(stakes, 1, e)
    BY <2>1, <1>1 DEF Covers
  <2> QED
    BY <2>4, <2>5 DEF tail
<1> QED
  BY <1>4, <1>5, <1>6, CoveringEntry

LEMMA StakedAtDropUnstakedHead ==
  ASSUME NEW stakes \in Seq(EraStake), NEW c \in Nat, EntriesOrdered(stakes, c),
         NEW e \in Nat
  PROVE  StakedAt(DropUnstakedHead(stakes), e) = StakedAt(stakes, e)
<1>1. CASE stakes # <<>> /\ stakes[1].amount = 0
  <2>1. 1 \in DOMAIN stakes
    BY <1>1, StakeFields
  <2>2. Covers(stakes, 1, e) => StakedAt(stakes, e) = 0
    BY <2>1, <1>1, StakedAtEntry
  <2> QED
    BY <2>2, <1>1, StakedAtTail DEF DropUnstakedHead
<1>2. CASE ~(stakes # <<>> /\ stakes[1].amount = 0)
  BY <1>2 DEF DropUnstakedHead
<1> QED
  BY <1>1, <1>2

(* stake adds to the stake of the current era, unstake takes from it, and  *)
(* neither touches the eras before.                                        *)
LEMMA StakedAtStake ==
  ASSUME NEW stakes \in Seq(EraStake), NEW c \in Nat, EntriesOrdered(stakes, c),
         NEW amount \in Nat, LatestStakedValue(stakes) + amount <= MaxBalance,
         NEW e \in Nat
  PROVE  StakedAt(Stake(stakes, c, amount), e) =
           IF e >= c THEN LatestStakedValue(stakes) + amount ELSE StakedAt(stakes, e)
<1>1. CASE stakes = <<>>
  <2> DEFINE new == NewEraStake(amount, c)
             set == <<new>>
  <2>1. new \in EraStake /\ new.era = c /\ new.amount = amount
    BY DEF NewEraStake, EraStake
  <2> HIDE DEF new
  <2>2. set \in Seq(EraStake) /\ DOMAIN set = {1} /\ set[1] = new
    BY <2>1
  <2>3. Stake(stakes, c, amount) = set /\ LatestStakedValue(stakes) = 0
    BY <1>1 DEF Stake, new, LatestStakedValue
  <2>4. StakedAt(stakes, e) = 0
    <3>1. \A i \in DOMAIN stakes : stakes[i].era > e
      BY <1>1
    <3> QED
      BY <3>1, StakedAtNone
  <2> HIDE DEF set
  <2>5. e >= c => StakedAt(set, e) = amount
    <3>1. e >= c => 1 \in DOMAIN set /\ Covers(set, 1, e)
      BY <2>1, <2>2 DEF Covers
    <3> QED
      BY <3>1, <2>1, <2>2, StakedAtEntry
  <2>6. e < c => StakedAt(set, e) = 0
    <3>1. e < c => \A i \in DOMAIN set : set[i].era > e
      BY <2>1, <2>2
    <3> QED
      BY <3>1, <2>2, StakedAtNone
  <2> QED
    BY <2>3, <2>4, <2>5, <2>6
<1>2. CASE stakes # <<>>
  <2>1. /\ LatestStakedValue(stakes) \in Nat
        /\ SatAdd(LatestStakedValue(stakes), amount) = LatestStakedValue(stakes) + amount
    BY StakeFields, CurrencyAssumption DEF SatAdd
  <2> QED
    BY <1>2, <2>1, StakedAtSetLatest DEF Stake
<1> QED
  BY <1>1, <1>2

LEMMA StakedAtUnstake ==
  ASSUME NEW stakes \in Seq(EraStake), NEW c \in Nat, EntriesOrdered(stakes, c),
         NEW amount \in Nat, amount <= LatestStakedValue(stakes),
         NEW e \in Nat
  PROVE  StakedAt(Unstake(stakes, c, amount), e) =
           IF e >= c THEN LatestStakedValue(stakes) - amount ELSE StakedAt(stakes, e)
<1>1. CASE stakes = <<>>
  <2>1. LatestStakedValue(stakes) = 0 /\ Unstake(stakes, c, amount) = stakes
    BY <1>1 DEF LatestStakedValue, Unstake
  <2>2. e >= c => StakedAt(stakes, e) = 0
    BY <2>1, StakedAtLatest
  <2> QED
    BY <2>1, <2>2
<1>2. CASE stakes # <<>>
  <2> DEFINE left == LatestStakedValue(stakes) - amount
             set == SetLatest(stakes, c, left)
  <2>1. left \in Nat /\ SatSub(LatestStakedValue(stakes), amount) = left
    BY StakeFields DEF SatSub
  <2>2. Unstake(stakes, c, amount) = DropUnstakedHead(set)
    BY <1>2, <2>1 DEF Unstake
  <2> HIDE DEF left
  <2>3. set \in Seq(EraStake) /\ EntriesOrdered(set, c)
    BY <1>2, <2>1, SetLatestProperties
  <2>4. StakedAt(set, e) = IF e >= c THEN left ELSE StakedAt(stakes, e)
    BY <1>2, <2>1, StakedAtSetLatest
  <2> HIDE DEF set
  <2>5. StakedAt(DropUnstakedHead(set), e) = StakedAt(set, e)
    BY <2>3, StakedAtDropUnstakedHead
  <2> QED
    BY <2>2, <2>4, <2>5 DEF left
<1> QED
  BY <1>1, <1>2

(* claim forgets the era of the oldest entry and no other.                 *)
LEMMA StakedAtClaim ==
  ASSUME NEW stakes \in Seq(EraStake), NEW c \in Nat, EntriesOrdered(stakes, c),
         stakes # <<>>, stakes[1].era < c, NEW e \in Nat
  PROVE  StakedAt(Claim(stakes), e) =
           IF e = stakes[1].era THEN 0 ELSE StakedAt(stakes, e)
<1> DEFINE n == Len(stakes)
           f == stakes[1].era
           new == NewEraStake(stakes[1].amount, f + 1)
           moved == [stakes EXCEPT ![1] = new]
           one == n = 1 \/ stakes[2].era > f + 1
<1>1. /\ DOMAIN stakes = 1..n /\ n \in Nat /\ n >= 1 /\ 1 \in 1..n
      /\ \A k \in 1..n : /\ stakes[k].era \in Nat /\ stakes[k].era <= c
                         /\ stakes[k].amount \in Nat
      /\ \A i, j \in 1..n : i < j => stakes[i].era < stakes[j].era
  BY StakeFields DEF EntriesOrdered
<1>2. /\ new \in EraStake /\ new.era = f + 1 /\ new.amount = stakes[1].amount
      /\ f \in Nat
  BY <1>1 DEF NewEraStake, EraStake
<1>3. Claim(stakes) = IF one THEN DropUnstakedHead(moved)
                             ELSE DropUnstakedHead(Tail(stakes))
  BY DEF Claim
<1>4. ASSUME NEW i \in 1..n, i # 1
      PROVE  stakes[i].era > f /\ (one => stakes[i].era > f + 1)
  <2> HIDE DEF n
  <2>1. stakes[i].era > f
    BY <1>1, <1>4
  <2>2. 2 \in 1..n /\ n # 1 /\ (i = 2 \/ 2 < i)
    BY <1>1, <1>4
  <2>3. stakes[2].era <= stakes[i].era
    BY <2>2, <1>1, <1>4
  <2> QED
    BY <2>1, <2>2, <2>3, <1>1, <1>2
<1>5. ASSUME one PROVE moved \in Seq(EraStake) /\ EntriesOrdered(moved, c) /\
                       StakedAt(moved, e) = IF e = f THEN 0 ELSE StakedAt(stakes, e)
  <2>1. /\ moved \in Seq(EraStake) /\ Len(moved) = n
        /\ \A j \in 1..n : moved[j] = IF j = 1 THEN new ELSE stakes[j]
    <3> HIDE DEF new
    <3> QED
      BY <1>1, <1>2, ExceptSeq
  <2>2. DOMAIN moved = 1..n
    BY <2>1, LenProperties
  <2> HIDE DEF moved, new, n
  <2>3. EntriesOrdered(moved, c)
    <3>1. ASSUME NEW i \in 1..n, NEW j \in 1..n, i < j
          PROVE  moved[i].era < moved[j].era
      <4>1. j # 1
        BY <3>1, <1>1
      <4> QED
        BY <3>1, <4>1, <1>1, <1>2, <1>4, <1>5, <2>1
    <3>2. \A i \in 1..n : moved[i].era <= c
      BY <2>1, <1>1, <1>2
    <3> QED
      BY <3>1, <3>2, <2>2 DEF EntriesOrdered
  <2>4. CASE \A i \in DOMAIN stakes : stakes[i].era > e
    <3>1. \A i \in DOMAIN moved : moved[i].era > e
      BY <2>1, <2>2, <2>4, <1>1, <1>2
    <3>2. StakedAt(moved, e) = 0 /\ StakedAt(stakes, e) = 0
      BY <3>1, <2>1, <2>4, StakedAtNone
    <3> QED
      BY <3>2, <2>1, <2>3
  <2>5. CASE \E i \in DOMAIN stakes : Covers(stakes, i, e)
    <3>1. PICK i \in DOMAIN stakes : Covers(stakes, i, e)
      BY <2>5
    <3>2. StakedAt(stakes, e) = stakes[i].amount
      BY <3>1, StakedAtEntry
    <3>3. CASE e = f
      <4>1. \A j \in DOMAIN moved : moved[j].era > e
        BY <2>1, <2>2, <3>3, <1>1, <1>2, <1>4
      <4> QED
        BY <4>1, <3>3, <2>1, <2>3, StakedAtNone
    <3>4. CASE e # f
      <4>1. stakes[i].era <= e /\ f <= stakes[i].era /\ e >= f + 1
        BY <3>1, <3>4, <1>1, <1>2 DEF Covers
      <4>2. moved[i].era <= e /\ moved[i].amount = stakes[i].amount
        BY <4>1, <2>1, <1>1, <1>2
      <4>3. \A j \in DOMAIN moved : j > i => moved[j].era > e
        BY <3>1, <2>1, <2>2, <1>1 DEF Covers
      <4>4. i \in DOMAIN moved /\ Covers(moved, i, e)
        BY <4>2, <4>3, <2>2, <1>1 DEF Covers
      <4>5. StakedAt(moved, e) = stakes[i].amount
        BY <4>2, <4>4, <2>1, StakedAtEntry
      <4> QED
        BY <4>5, <3>2, <3>4, <2>1, <2>3
    <3> QED
      BY <3>3, <3>4
  <2> QED
    BY <2>4, <2>5, CoveringEntry
<1>6. ASSUME ~one PROVE Tail(stakes) \in Seq(EraStake) /\ EntriesOrdered(Tail(stakes), c) /\
                        StakedAt(Tail(stakes), e) = IF e = f THEN 0 ELSE StakedAt(stakes, e)
  <2>1. Tail(stakes) \in Seq(EraStake) /\ EntriesOrdered(Tail(stakes), c)
    BY TailProperties
  <2>2. StakedAt(Tail(stakes), e) =
          IF Covers(stakes, 1, e) THEN 0 ELSE StakedAt(stakes, e)
    BY StakedAtTail
  <2> HIDE DEF n
  <2>3. 2 \in 1..n /\ stakes[2].era = f + 1
    <3>1. 2 \in 1..n
      BY <1>1, <1>6
    <3>2. stakes[2].era > f /\ stakes[2].era <= f + 1 /\ stakes[2].era \in Nat
      BY <3>1, <1>1, <1>2, <1>4, <1>6
    <3> QED
      BY <3>1, <3>2, <1>2
  <2>4. Covers(stakes, 1, e) => e = f
    <3>1. Covers(stakes, 1, e) => f <= e /\ stakes[2].era > e
      BY <2>3, <1>1 DEF Covers
    <3> QED
      BY <3>1, <2>3, <1>2
  <2>5. e = f => Covers(stakes, 1, e)
    BY <1>1, <1>2, <1>4 DEF Covers
  <2> QED
    BY <2>1, <2>2, <2>4, <2>5
<1> HIDE DEF one, moved, f
<1> QED
  BY <1>3, <1>5, <1>6, StakedAtDropUnstakedHead DEF f

----------------------------------------------------------------------------
(* Types of the operators on the pallet's state                            *)

Ledgers == [Holders -> Account]

EraStates == [Eras -> EraMetadata \cup {None}]

LEMMA LedgerType ==
  ASSUME NEW ledger \in Ledgers, NEW who \in Holders, NEW amount \in Nat
  PROVE  /\ CanReserve(ledger, who, amount) => Reserve(ledger, who, amount) \in Ledgers
         /\ Unreserve(ledger, who, amount) \in Ledgers
         /\ CanWithdraw(ledger, who, amount) =>
              WithdrawAllowDeath(ledger, who, amount) \in Ledgers
         /\ DepositCreating(ledger, who, amount) \in Ledgers
<1>1. ledger[who] \in Account /\ ledger[who].free \in Nat /\ ledger[who].reserved \in Nat
  BY DEF Ledgers, Account
<1>2. ASSUME NEW f \in Nat, NEW r \in Nat
      PROVE  [ledger EXCEPT ![who] = [free |-> f, reserved |-> r]] \in Ledgers
  BY DEF Ledgers, Account
<1>3. CanReserve(ledger, who, amount) => Reserve(ledger, who, amount) \in Ledgers
  <2>1. ASSUME CanReserve(ledger, who, amount)
        PROVE  /\ ledger[who].free - amount \in Nat
               /\ ledger[who].reserved + amount \in Nat
    BY <2>1, <1>1 DEF CanReserve
  <2> QED
    BY <2>1, <1>2 DEF Reserve
<1>4. Unreserve(ledger, who, amount) \in Ledgers
  <2> DEFINE actual == IF amount > ledger[who].reserved THEN ledger[who].reserved
                                                        ELSE amount
  <2>1. ledger[who].free + actual \in Nat /\ ledger[who].reserved - actual \in Nat
    BY <1>1
  <2> QED
    BY <2>1, <1>2 DEF Unreserve
<1>5. CanWithdraw(ledger, who, amount) =>
        WithdrawAllowDeath(ledger, who, amount) \in Ledgers
  <2>1. ASSUME CanWithdraw(ledger, who, amount)
        PROVE  ledger[who].free - amount \in Nat
    BY <2>1, <1>1 DEF CanWithdraw
  <2>2. [ledger EXCEPT ![who] = EmptyAccount] \in Ledgers
    BY <1>2 DEF EmptyAccount
  <2> DEFINE left == ledger[who].free - amount + ledger[who].reserved
  <2>3. ASSUME CanWithdraw(ledger, who, amount)
        PROVE  \/ amount = 0
               \/ amount > 0 /\ left < ExistentialDeposit
               \/ amount > 0 /\ left >= ExistentialDeposit
    BY <2>1, <2>3, <1>1, CurrencyAssumption
  <2>4. ASSUME CanWithdraw(ledger, who, amount)
        PROVE  WithdrawAllowDeath(ledger, who, amount) \in Ledgers
    <3>1. CASE amount = 0
      BY <3>1 DEF WithdrawAllowDeath
    <3>2. CASE amount > 0 /\ left < ExistentialDeposit
      <4>1. left \in Nat
        BY <2>1, <2>4, <1>1
      <4>2. amount # 0 /\ ~(left >= ExistentialDeposit)
        <5> HIDE DEF left
        <5> QED
          BY <3>2, <4>1, CurrencyAssumption
      <4>3. WithdrawAllowDeath(ledger, who, amount) = [ledger EXCEPT ![who] = EmptyAccount]
        BY <3>2, <4>2 DEF WithdrawAllowDeath
      <4> QED
        BY <4>3, <2>2
    <3>3. CASE amount > 0 /\ left >= ExistentialDeposit
      <4>1. ~(left < ExistentialDeposit) /\ amount # 0
        BY <3>3, <2>1, <2>4, <1>1, CurrencyAssumption
      <4>2. WithdrawAllowDeath(ledger, who, amount) =
              [ledger EXCEPT ![who] = [free     |-> ledger[who].free - amount,
                                       reserved |-> ledger[who].reserved]]
        BY <3>3, <4>1 DEF WithdrawAllowDeath
      <4> QED
        BY <4>2, <2>1, <2>4, <1>1, <1>2
    <3> QED
      BY <2>3, <2>4, <3>1, <3>2, <3>3
  <2> QED
    BY <2>4
<1>6. DepositCreating(ledger, who, amount) \in Ledgers
  BY <1>1, <1>2 DEF DepositCreating
<1> QED
  BY <1>3, <1>4, <1>5, <1>6

LEMMA StorageDefaultType ==
  ASSUME TypeOK
  PROVE  /\ \A e \in Eras : EraStateOrDefault(e) \in EraMetadata
         /\ \A p \in Providers, e \in Eras :
              ProviderEraInfoOrDefault(p, e) \in ProviderEraMetadata
<1>1. DefaultEraMetadata \in EraMetadata
  BY DEF DefaultEraMetadata, EraMetadata
<1>2. DefaultProviderEraMetadata \in ProviderEraMetadata
  BY DEF DefaultProviderEraMetadata, ProviderEraMetadata
<1> QED
  BY <1>1, <1>2 DEF TypeOK, EraStateOrDefault, ProviderEraInfoOrDefault

LEMMA UpdateStakedType ==
  ASSUME TypeOK, NEW e \in Eras, NEW staked,
         eraState[e] # None => staked \in Nat
  PROVE  UpdateStaked(e, staked) \in EraStates
<1>1. CASE eraState[e] = None
  BY <1>1 DEF UpdateStaked, TypeOK, EraStates
<1>2. CASE eraState[e] # None
  <2>1. eraState[e] \in EraMetadata
    BY <1>2 DEF TypeOK
  <2>2. [eraState[e] EXCEPT !.staked = staked] \in EraMetadata
    BY <1>2, <2>1 DEF EraMetadata
  <2>3. UpdateStaked(e, staked) =
          [eraState EXCEPT ![e] = [eraState[e] EXCEPT !.staked = staked]]
    BY <1>2 DEF UpdateStaked
  <2> QED
    BY <2>2, <2>3 DEF TypeOK, EraStates
<1> QED
  BY <1>1, <1>2

LEMMA StakedType ==
  ASSUME TypeOK, NEW e \in Eras, eraState[e] # None
  PROVE  eraState[e] \in EraMetadata /\ eraState[e].staked \in Nat
         /\ eraState[e].rewards \in Nat
<1>1. eraState[e] \in EraMetadata
  BY DEF TypeOK
<1> QED
  BY <1>1 DEF EraMetadata

LEMMA ProviderEraUpdateType ==
  ASSUME TypeOK, NEW p \in Providers, NEW e \in Eras,
         NEW info \in ProviderEraMetadata
  PROVE  [providerEraInfo EXCEPT ![p][e] = info] \in
           [Providers -> [Eras -> ProviderEraMetadata \cup {None}]]
BY DEF TypeOK

LEMMA RewardType ==
  ASSUME NEW info \in ProviderEraMetadata, NEW state \in EraMetadata,
         NEW staked \in Nat
  PROVE  /\ ProviderPart(info, state) \in Nat
         /\ DelegatorReward(staked, info, state) \in Nat
<1>1. /\ info.total \in Nat /\ info.bond \in Nat
      /\ state.staked \in Nat /\ state.rewards \in Nat
  BY DEF ProviderEraMetadata, EraMetadata
<1>2. ProviderRewards(info, state) \in Nat
  BY <1>1, FromRationalType, PerbillMulType DEF ProviderRewards
<1>3. ProviderRewardsPercentage \in Nat
  BY StakingAssumption, AccuracyAssumption DEF Parts
<1>4. ProviderPart(info, state) \in Nat
  BY <1>2, <1>3, PerbillMulType DEF ProviderPart
<1>5. DelegatorsPart(info, state) \in Nat
  BY <1>2, <1>4, ArithmeticType DEF DelegatorsPart
<1>6. SatSub(info.total, info.bond) \in Nat
  BY <1>1, ArithmeticType
<1>7. FromRational(staked, SatSub(info.total, info.bond)) \in Nat
  BY <1>6, FromRationalType
<1>8. DelegatorReward(staked, info, state) \in Nat
  BY <1>5, <1>7, PerbillMulType DEF DelegatorReward
<1> QED
  BY <1>4, <1>8

LEMMA PayoutType ==
  ASSUME TypeOK, NEW who \in Accounts, NEW amount \in Nat,
         CanWithdraw(balances, Pot, amount)
  PROVE  Payout(who, amount) \in Ledgers
<1>1. balances \in Ledgers /\ Pot \in Holders /\ who \in Holders
  BY DEF TypeOK, Ledgers, Holders
<1> QED
  BY <1>1, LedgerType DEF Payout

----------------------------------------------------------------------------
(* The inductive invariant.  The types alone are not inductive: add and    *)
(* partition search a chunk list that has to be sorted, and claim may move *)
(* an entry on only if it is not already in the current era.               *)

IndInv == TypeOK /\ DelegationsWellFormed /\ UnbondingWellFormed

LEMMA InitIndInv == Init => IndInv
<1> SUFFICES ASSUME Init PROVE IndInv
  OBVIOUS
<1>1. 0 \in Eras
  BY StakingAssumption DEF Eras
<1>2. TypeOK
  <2>1. balances \in [Holders -> Account]
    BY StakingAssumption DEF Init, EmptyAccount, Account
  <2>2. era \in EraInfo
    BY <1>1 DEF Init, EraInfo
  <2> QED
    BY <2>1, <2>2 DEF Init, TypeOK
<1>3. DelegationsWellFormed
  BY DEF Init, DelegationsWellFormed, EntriesOrdered
<1>4. UnbondingWellFormed
  BY StakingAssumption DEF Init, UnbondingWellFormed, ChunksOrdered
<1> QED
  BY <1>2, <1>3, <1>4 DEF IndInv

(* What the actions that change a bond or a stake have in common.          *)
LEMMA StateTypes ==
  ASSUME TypeOK
  PROVE  /\ era.current \in Eras /\ era.current \in Nat
         /\ era.first_block \in Nat /\ era.length \in Nat
         /\ balances \in Ledgers /\ eraState \in EraStates
         /\ \A p \in Providers : IsRegistered(p) =>
              /\ providerInfo[p] \in ProviderMetadata
              /\ providerInfo[p].owner \in Accounts
              /\ providerInfo[p].status # Active => providerInfo[p].status \in Eras
<1>1. era.current \in Eras /\ era.first_block \in Nat /\ era.length \in Nat
  BY DEF TypeOK, EraInfo
<1>2. era.current \in Nat
  BY <1>1, StakingAssumption DEF Eras
<1>3. \A p \in Providers : IsRegistered(p) => providerInfo[p] \in ProviderMetadata
  BY DEF TypeOK, IsRegistered
<1> QED
  BY <1>1, <1>2, <1>3 DEF TypeOK, Ledgers, EraStates, ProviderMetadata

(* StartUnbonding keeps the chunks of every account well formed.           *)
LEMMA StartUnbondingProperties ==
  ASSUME TypeOK, UnbondingWellFormed,
         NEW who \in Accounts, NEW amount \in Nat,
         StartUnbonding(who, amount), era' = era
  PROVE  /\ unbondingInfo' \in [Accounts -> Seq(UnlockingChunk)]
         /\ UnbondingWellFormed'
<1> DEFINE e == era.current + UnbondingPeriod
           chunks == AddChunk(unbondingInfo[who], NewChunk(amount, e))
<1>1. e \in Nat /\ unbondingInfo[who] \in Seq(UnlockingChunk)
  BY StateTypes, StakingAssumption DEF TypeOK
<1>2. /\ ChunksOrdered(unbondingInfo[who])
      /\ \A i \in DOMAIN unbondingInfo[who] : unbondingInfo[who][i].unlock_era <= e
  BY DEF UnbondingWellFormed
<1> HIDE DEF e
<1>3. /\ chunks \in Seq(UnlockingChunk)
      /\ ChunksOrdered(chunks)
      /\ \A i \in DOMAIN chunks : chunks[i].unlock_era <= e
  BY <1>1, <1>2, AddChunkProperties
<1>4. /\ Len(chunks) <= MaxUnlockingChunks
      /\ unbondingInfo' = [unbondingInfo EXCEPT ![who] = chunks]
  BY DEF StartUnbonding, e
<1> HIDE DEF chunks
<1>5. unbondingInfo' \in [Accounts -> Seq(UnlockingChunk)]
  BY <1>3, <1>4 DEF TypeOK
<1>6. \A a \in Accounts :
        unbondingInfo'[a] = IF a = who THEN chunks ELSE unbondingInfo[a]
  BY <1>4 DEF TypeOK
<1>7. UnbondingWellFormed'
  BY <1>3, <1>4, <1>6 DEF UnbondingWellFormed, e
<1> QED
  BY <1>5, <1>7

(* Replacing the vector of one pair by a well-formed one.                  *)
LEMMA DelegationUpdate ==
  ASSUME TypeOK, DelegationsWellFormed,
         NEW who \in Accounts, NEW p \in Providers,
         NEW stakes \in Seq(EraStake),
         EntriesOrdered(stakes, era.current),
         stakes # <<>> => Len(stakes) < MaxEraStakeValues,
         delegationInfo' = [delegationInfo EXCEPT ![who][p] = stakes],
         era' = era
  PROVE  /\ delegationInfo' \in [Accounts -> [Providers -> Seq(EraStake)]]
         /\ DelegationsWellFormed'
<1>1. delegationInfo' \in [Accounts -> [Providers -> Seq(EraStake)]]
  BY DEF TypeOK
<1>2. \A a \in Accounts, q \in Providers :
        delegationInfo'[a][q] = IF a = who /\ q = p THEN stakes
                                                    ELSE delegationInfo[a][q]
  BY DEF TypeOK
<1>3. DelegationsWellFormed'
  BY <1>2 DEF DelegationsWellFormed
<1> QED
  BY <1>1, <1>3

(* A new era only adds to what was recorded.                               *)
LEMMA StartEraIndInv == IndInv /\ StartEra => IndInv'
<1> SUFFICES ASSUME IndInv, StartEra PROVE IndInv'
  OBVIOUS
<1> DEFINE c == era.current
<1>1. TypeOK /\ c \in Eras /\ c \in Nat /\ c < MaxEra /\ c + 1 \in Eras
  BY StateTypes, StakingAssumption DEF IndInv, StartEra, Eras
<1>2. era' \in EraInfo /\ era'.current = c + 1
  BY <1>1, StateTypes, StakingAssumption DEF StartEra, TypeOK, EraInfo
<1>3. block' \in Nat
  BY <1>1 DEF StartEra, TypeOK
<1>4. eraState' \in EraStates /\ rewardAccumulator' \in Nat
  <2>1. EraStateOrDefault(c) \in EraMetadata
    BY <1>1, StorageDefaultType
  <2>2. [rewards |-> 0, staked |-> EraStateOrDefault(c).staked] \in EraMetadata
    BY <2>1 DEF EraMetadata
  <2>3. [rewards |-> rewardAccumulator, staked |-> EraStateOrDefault(c).staked]
          \in EraMetadata
    BY <2>1, <1>1 DEF EraMetadata, TypeOK
  <2> QED
    BY <2>2, <2>3, <1>1 DEF StartEra, SnapshotEraRewards, TypeOK, EraStates
<1>5. providerEraInfo' \in [Providers -> [Eras -> ProviderEraMetadata \cup {None}]]
  <2>1. ASSUME NEW p \in Providers, providerEraInfo[p][c] # None
        PROVE  [providerEraInfo[p][c] EXCEPT !.provider_reward_claimed = FALSE]
                 \in ProviderEraMetadata
    <3>1. providerEraInfo[p][c] \in ProviderEraMetadata
      BY <2>1, <1>1 DEF TypeOK
    <3> QED
      BY <3>1 DEF ProviderEraMetadata
  <2>2. ASSUME NEW p \in Providers
        PROVE  providerEraInfo[p] \in [Eras -> ProviderEraMetadata \cup {None}]
    BY <1>1 DEF TypeOK
  <2>3. ASSUME NEW p \in Providers
        PROVE  (IF IsActiveProvider(p) /\ providerEraInfo[p][c] # None
                THEN [providerEraInfo[p] EXCEPT ![c + 1] =
                        [providerEraInfo[p][c] EXCEPT
                           !.provider_reward_claimed = FALSE]]
                ELSE providerEraInfo[p])
                 \in [Eras -> ProviderEraMetadata \cup {None}]
    BY <2>1, <2>2, <1>1
  <2> QED
    BY <2>3 DEF StartEra, RotateProviderEraInfo
<1>6. TypeOK'
  BY <1>1, <1>2, <1>3, <1>4, <1>5 DEF TypeOK, StartEra, EraStates
<1>7. DelegationsWellFormed'
  <2> SUFFICES ASSUME NEW a \in Accounts, NEW p \in Providers
               PROVE  /\ EntriesOrdered(delegationInfo[a][p], c + 1)
                      /\ delegationInfo[a][p] # <<>> =>
                           Len(delegationInfo[a][p]) < MaxEraStakeValues
    BY <1>2 DEF DelegationsWellFormed, StartEra
  <2>1. delegationInfo[a][p] \in Seq(EraStake)
    BY <1>1 DEF TypeOK
  <2>2. EntriesOrdered(delegationInfo[a][p], c)
    BY DEF IndInv, DelegationsWellFormed
  <2>3. \A i \in DOMAIN delegationInfo[a][p] : delegationInfo[a][p][i].era <= c + 1
    BY <2>1, <2>2, <1>1, StakeFields DEF EntriesOrdered
  <2> QED
    BY <2>2, <2>3 DEF EntriesOrdered, IndInv, DelegationsWellFormed
<1>8. UnbondingWellFormed'
  <2> SUFFICES ASSUME NEW a \in Accounts
               PROVE  /\ ChunksOrdered(unbondingInfo[a])
                      /\ Len(unbondingInfo[a]) <= MaxUnlockingChunks
                      /\ \A i \in DOMAIN unbondingInfo[a] :
                           unbondingInfo[a][i].unlock_era <= c + 1 + UnbondingPeriod
    BY <1>2 DEF UnbondingWellFormed, StartEra
  <2>1. unbondingInfo[a] \in Seq(UnlockingChunk)
    BY <1>1 DEF TypeOK
  <2>2. \A i \in DOMAIN unbondingInfo[a] :
          /\ unbondingInfo[a][i].unlock_era \in Nat
          /\ unbondingInfo[a][i].unlock_era <= c + UnbondingPeriod
    BY <2>1, ChunkFields DEF IndInv, UnbondingWellFormed
  <2> QED
    BY <2>2, <1>1, StakingAssumption DEF IndInv, UnbondingWellFormed
<1> QED
  BY <1>6, <1>7, <1>8 DEF IndInv

(* Steps that leave the vectors, or the chunks, alone.                     *)
LEMMA UnchangedWellFormed ==
  ASSUME IndInv, era'.current = era.current
  PROVE  /\ delegationInfo' = delegationInfo => DelegationsWellFormed'
         /\ unbondingInfo' = unbondingInfo => UnbondingWellFormed'
BY DEF IndInv, DelegationsWellFormed, UnbondingWellFormed

LEMMA BlockAndLengthIndInv ==
  ASSUME IndInv,
         ContinueEra \/ \E new \in EraLengths : SetBlocksPerEra(new)
  PROVE  IndInv'
<1>1. TypeOK
  BY DEF IndInv
<1>2. era' \in EraInfo /\ era'.current = era.current
  BY <1>1, StakingAssumption
     DEF ContinueEra, SetBlocksPerEra, stakingVars, TypeOK, EraInfo
<1>3. TypeOK'
  BY <1>1, <1>2 DEF ContinueEra, SetBlocksPerEra, stakingVars, TypeOK
<1>4. delegationInfo' = delegationInfo /\ unbondingInfo' = unbondingInfo
  BY DEF ContinueEra, SetBlocksPerEra, stakingVars
<1> QED
  BY <1>2, <1>3, <1>4, UnchangedWellFormed DEF IndInv

LEMMA RegisterProviderIndInv ==
  ASSUME IndInv, NEW a \in Accounts, NEW p \in Providers, NEW v \in Amounts,
         RegisterProvider(a, p, v)
  PROVE  IndInv'
<1>1. /\ TypeOK /\ v \in Nat /\ a \in Holders
      /\ era.current \in Eras /\ balances \in Ledgers
  BY StateTypes, StakingAssumption DEF IndInv, Holders
<1>2. balances' \in Ledgers
  BY <1>1, LedgerType DEF RegisterProvider, ReserveFunds
<1>3. providerInfo' \in [Providers -> ProviderMetadata \cup {None}]
  <2>1. [owner |-> a, status |-> Active, bond_withdrawn |-> FALSE] \in ProviderMetadata
    BY DEF ProviderMetadata
  <2> QED
    BY <2>1, <1>1 DEF RegisterProvider, TypeOK
<1>4. providerEraInfo' \in [Providers -> [Eras -> ProviderEraMetadata \cup {None}]]
  <2>1. [bond |-> v, total |-> v, delegator_count |-> 0,
         provider_reward_claimed |-> FALSE] \in ProviderEraMetadata
    BY <1>1 DEF ProviderEraMetadata
  <2> QED
    BY <2>1, <1>1, ProviderEraUpdateType DEF RegisterProvider
<1>5. eraState' \in EraStates
  <2>1. EraStateOrDefault(era.current) \in EraMetadata
    BY <1>1, StorageDefaultType
  <2>2. /\ EraStateOrDefault(era.current).rewards \in Nat
        /\ SatAdd(EraStateOrDefault(era.current).staked, v) \in Nat
    BY <2>1, <1>1, ArithmeticType DEF EraMetadata
  <2>3. [rewards |-> EraStateOrDefault(era.current).rewards,
         staked  |-> SatAdd(EraStateOrDefault(era.current).staked, v)] \in EraMetadata
    BY <2>2 DEF EraMetadata
  <2> QED
    BY <2>3, <1>1 DEF RegisterProvider, TypeOK, EraStates
<1>6. TypeOK'
  BY <1>1, <1>2, <1>3, <1>4, <1>5 DEF RegisterProvider, TypeOK, Ledgers, EraStates
<1>7. UNCHANGED <<era, delegationInfo, unbondingInfo>>
  BY DEF RegisterProvider
<1> QED
  BY <1>6, <1>7, UnchangedWellFormed DEF IndInv

LEMMA ProviderBondMoreIndInv ==
  ASSUME IndInv, NEW a \in Accounts, NEW p \in Providers, NEW v \in Amounts,
         ProviderBondMore(a, p, v)
  PROVE  IndInv'
<1> DEFINE c == era.current
           info == ProviderEraInfoOrDefault(p, c)
<1>1. /\ TypeOK /\ v \in Nat /\ a \in Holders
      /\ c \in Eras /\ balances \in Ledgers
  BY StateTypes, StakingAssumption DEF IndInv, Holders
<1>2. info \in ProviderEraMetadata
  BY <1>1, StorageDefaultType
<1> HIDE DEF info, c
<1>3. balances' \in Ledgers
  BY <1>1, LedgerType DEF ProviderBondMore, ReserveFunds
<1>4. eraState' \in EraStates
  <2>1. eraState[c] # None => SatAdd(eraState[c].staked, v) \in Nat
    BY <1>1, StakedType, ArithmeticType
  <2> QED
    BY <2>1, <1>1, UpdateStakedType DEF ProviderBondMore, c
<1>5. providerEraInfo' \in [Providers -> [Eras -> ProviderEraMetadata \cup {None}]]
  <2>1. info.bond + v \in Nat /\ info.total + v \in Nat
    BY <1>1, <1>2 DEF ProviderEraMetadata
  <2>2. [info EXCEPT !.bond = @ + v, !.total = @ + v] \in ProviderEraMetadata
    BY <2>1, <1>2 DEF ProviderEraMetadata
  <2> QED
    BY <2>2, <1>1, ProviderEraUpdateType DEF ProviderBondMore, info, c
<1>6. TypeOK'
  BY <1>1, <1>3, <1>4, <1>5 DEF ProviderBondMore, TypeOK, Ledgers, EraStates
<1>7. UNCHANGED <<era, delegationInfo, unbondingInfo>>
  BY DEF ProviderBondMore
<1> QED
  BY <1>6, <1>7, UnchangedWellFormed DEF IndInv

LEMMA ProviderBondLessIndInv ==
  ASSUME IndInv, NEW a \in Accounts, NEW p \in Providers, NEW v \in Amounts,
         ProviderBondLess(a, p, v)
  PROVE  IndInv'
<1> DEFINE c == era.current
           info == ProviderEraInfoOrDefault(p, c)
<1>1. TypeOK /\ v \in Nat /\ c \in Eras
  BY StateTypes, StakingAssumption DEF IndInv
<1>2. info \in ProviderEraMetadata
  BY <1>1, StorageDefaultType
<1>3. /\ unbondingInfo' \in [Accounts -> Seq(UnlockingChunk)]
      /\ UnbondingWellFormed'
  BY <1>1, StartUnbondingProperties DEF ProviderBondLess, IndInv
<1> HIDE DEF info, c
<1>4. eraState' \in EraStates
  <2>1. eraState[c] # None => SatSub(eraState[c].staked, v) \in Nat
    BY <1>1, StakedType, ArithmeticType
  <2> QED
    BY <2>1, <1>1, UpdateStakedType DEF ProviderBondLess, c
<1>5. providerEraInfo' \in [Providers -> [Eras -> ProviderEraMetadata \cup {None}]]
  <2>1. SatSub(info.bond, v) \in Nat /\ SatSub(info.total, v) \in Nat
    BY <1>1, <1>2, ArithmeticType DEF ProviderEraMetadata
  <2>2. [info EXCEPT !.bond = SatSub(@, v), !.total = SatSub(@, v)]
          \in ProviderEraMetadata
    BY <2>1, <1>2 DEF ProviderEraMetadata
  <2> QED
    BY <2>2, <1>1, ProviderEraUpdateType DEF ProviderBondLess, info, c
<1>6. TypeOK'
  BY <1>1, <1>3, <1>4, <1>5 DEF ProviderBondLess, TypeOK, EraStates
<1>7. UNCHANGED <<era, delegationInfo>>
  BY DEF ProviderBondLess
<1> QED
  BY <1>3, <1>6, <1>7, UnchangedWellFormed DEF IndInv

LEMMA DelegateIndInv ==
  ASSUME IndInv, NEW a \in Accounts, NEW p \in Providers, NEW v \in Amounts,
         Delegate(a, p, v)
  PROVE  IndInv'
<1> DEFINE c == era.current
           info == ProviderEraInfoOrDefault(p, c)
           stakes == Stake(delegationInfo[a][p], c, v)
<1>1. /\ TypeOK /\ v \in Nat /\ a \in Holders
      /\ c \in Eras /\ c \in Nat /\ balances \in Ledgers
  BY StateTypes, StakingAssumption DEF IndInv, Holders
<1>2. info \in ProviderEraMetadata
  BY <1>1, StorageDefaultType
<1>3. stakes \in Seq(EraStake) /\ EntriesOrdered(stakes, c)
  <2>1. /\ delegationInfo[a][p] \in Seq(EraStake)
        /\ EntriesOrdered(delegationInfo[a][p], c)
    BY <1>1 DEF TypeOK, IndInv, DelegationsWellFormed
  <2> QED
    BY <2>1, <1>1, StakeProperties
<1> HIDE DEF info, c, stakes
<1>4. balances' \in Ledgers
  BY <1>1, LedgerType DEF Delegate, ReserveFunds
<1>5. eraState' \in EraStates
  <2>1. eraState[c] # None => SatAdd(eraState[c].staked, v) \in Nat
    BY <1>1, StakedType, ArithmeticType
  <2> QED
    BY <2>1, <1>1, UpdateStakedType DEF Delegate, c
<1>6. providerEraInfo' \in [Providers -> [Eras -> ProviderEraMetadata \cup {None}]]
  <2> DEFINE first == LatestStakedValue(delegationInfo[a][p]) = 0
             new == [info EXCEPT !.total = @ + v,
                                 !.delegator_count = IF first THEN @ + 1 ELSE @]
  <2>1. info.total + v \in Nat /\ info.delegator_count + 1 \in Nat
    BY <1>1, <1>2 DEF ProviderEraMetadata
  <2>2. new \in ProviderEraMetadata
    <3> HIDE DEF first
    <3> QED
      BY <2>1, <1>2 DEF ProviderEraMetadata
  <2>3. providerEraInfo' = [providerEraInfo EXCEPT ![p][c] = new]
    BY DEF Delegate, info, c
  <2> QED
    BY <2>2, <2>3, <1>1, ProviderEraUpdateType
<1>7. /\ delegationInfo' \in [Accounts -> [Providers -> Seq(EraStake)]]
      /\ DelegationsWellFormed'
  <2>1. /\ delegationInfo' = [delegationInfo EXCEPT ![a][p] = stakes]
        /\ Len(stakes) < MaxEraStakeValues
        /\ era' = era
    BY DEF Delegate, stakes, c
  <2>2. EntriesOrdered(stakes, era.current)
    BY <1>3 DEF c
  <2> QED
    BY <2>1, <2>2, <1>1, <1>3, DelegationUpdate DEF IndInv
<1>8. TypeOK'
  BY <1>1, <1>4, <1>5, <1>6, <1>7 DEF Delegate, TypeOK, Ledgers, EraStates
<1>9. UNCHANGED <<era, unbondingInfo>>
  BY DEF Delegate
<1> QED
  BY <1>7, <1>8, <1>9, UnchangedWellFormed DEF IndInv

LEMMA DelegatorUnstakeIndInv ==
  ASSUME IndInv, NEW a \in Accounts, NEW p \in Providers, NEW v \in Amounts,
         DelegatorUnstake(a, p, v)
  PROVE  IndInv'
<1> DEFINE c == era.current
           info == ProviderEraInfoOrDefault(p, c)
           staked == LatestStakedValue(delegationInfo[a][p])
           amount == UnstakeAmount(staked, v)
           stakes == Unstake(delegationInfo[a][p], c, amount)
<1>1. TypeOK /\ v \in Nat /\ c \in Eras /\ c \in Nat
  BY StateTypes, StakingAssumption DEF IndInv
<1>2. info \in ProviderEraMetadata
  BY <1>1, StorageDefaultType
<1>3. /\ delegationInfo[a][p] \in Seq(EraStake)
      /\ EntriesOrdered(delegationInfo[a][p], c)
  BY <1>1 DEF TypeOK, IndInv, DelegationsWellFormed
<1>4. amount \in Nat
  <2>1. staked \in Nat
    BY <1>3, StakeFields
  <2> QED
    BY <2>1, <1>1 DEF UnstakeAmount
<1> HIDE DEF amount
<1>5. stakes \in Seq(EraStake) /\ EntriesOrdered(stakes, c)
  BY <1>1, <1>3, <1>4, UnstakeProperties
<1>6. /\ unbondingInfo' \in [Accounts -> Seq(UnlockingChunk)]
      /\ UnbondingWellFormed'
  <2>1. StartUnbonding(a, amount) /\ era' = era
    BY DEF DelegatorUnstake, amount
  <2> QED
    BY <2>1, <1>1, <1>4, StartUnbondingProperties DEF IndInv
<1> HIDE DEF info, c, stakes
<1>7. eraState' \in EraStates
  <2>1. eraState[c] # None => SatSub(eraState[c].staked, amount) \in Nat
    BY <1>1, <1>4, StakedType, ArithmeticType
  <2>2. eraState' = UpdateStaked(c, SatSub(eraState[c].staked, amount))
    BY DEF DelegatorUnstake, amount, c
  <2> QED
    BY <2>1, <2>2, <1>1, UpdateStakedType
<1>8. providerEraInfo' \in [Providers -> [Eras -> ProviderEraMetadata \cup {None}]]
  <2> DEFINE all == UnstakesAll(staked, v)
             new == [info EXCEPT !.total = SatSub(@, amount),
                                 !.delegator_count =
                                    IF all THEN SatSub(@, 1) ELSE @]
  <2>1. SatSub(info.total, amount) \in Nat /\ SatSub(info.delegator_count, 1) \in Nat
    BY <1>2, <1>4, ArithmeticType DEF ProviderEraMetadata
  <2>2. new \in ProviderEraMetadata
    <3> HIDE DEF all
    <3> QED
      BY <2>1, <1>2 DEF ProviderEraMetadata
  <2>3. providerEraInfo' = [providerEraInfo EXCEPT ![p][c] = new]
    BY DEF DelegatorUnstake, info, c, amount
  <2> QED
    BY <2>2, <2>3, <1>1, ProviderEraUpdateType
<1>9. /\ delegationInfo' \in [Accounts -> [Providers -> Seq(EraStake)]]
      /\ DelegationsWellFormed'
  <2>1. /\ delegationInfo' = [delegationInfo EXCEPT ![a][p] = stakes]
        /\ Len(stakes) < MaxEraStakeValues
        /\ era' = era
    BY DEF DelegatorUnstake, stakes, c, amount
  <2>2. EntriesOrdered(stakes, era.current)
    BY <1>5 DEF c
  <2> QED
    BY <2>1, <2>2, <1>1, <1>5, DelegationUpdate DEF IndInv
<1>10. TypeOK'
  BY <1>1, <1>6, <1>7, <1>8, <1>9 DEF DelegatorUnstake, TypeOK, EraStates
<1> QED
  BY <1>6, <1>9, <1>10 DEF IndInv

LEMMA WithdrawUnbondedIndInv ==
  ASSUME IndInv, NEW a \in Accounts, WithdrawUnbonded(a)
  PROVE  IndInv'
<1> DEFINE c == era.current
           chunks == unbondingInfo[a]
           future == FutureChunks(chunks, c)
           valid == ValidChunks(chunks, c)
<1>1. /\ TypeOK /\ a \in Holders /\ balances \in Ledgers
      /\ c \in Nat /\ c + UnbondingPeriod \in Nat
      /\ chunks \in Seq(UnlockingChunk)
  BY StateTypes, StakingAssumption DEF IndInv, Holders, TypeOK
<1>2. /\ ChunksOrdered(chunks) /\ Len(chunks) <= MaxUnlockingChunks
      /\ \A i \in DOMAIN chunks : chunks[i].unlock_era <= c + UnbondingPeriod
  BY DEF IndInv, UnbondingWellFormed
<1> HIDE DEF c, chunks
<1>3. /\ valid \in Seq(UnlockingChunk) /\ future \in Seq(UnlockingChunk)
      /\ Len(future) <= Len(chunks) /\ ChunksOrdered(future)
      /\ \A i \in DOMAIN future : future[i].unlock_era <= c + UnbondingPeriod
  BY <1>1, <1>2, PartitionProperties
<1> HIDE DEF future, valid
<1>4. /\ unbondingInfo' = [unbondingInfo EXCEPT ![a] = future]
      /\ balances' = Unreserve(balances, a, ChunkSum(valid))
      /\ UNCHANGED <<block, era, eraState, rewardAccumulator, providerInfo,
                     providerEraInfo, delegationInfo>>
  BY DEF WithdrawUnbonded, future, valid, chunks, c
<1>5. balances' \in Ledgers
  BY <1>1, <1>3, <1>4, ChunkSumType, LedgerType
<1>6. Len(future) <= MaxUnlockingChunks
  <2>1. Len(future) \in Nat /\ Len(chunks) \in Nat
    BY <1>1, <1>3, LenProperties
  <2> QED
    BY <2>1, <1>2, <1>3, StakingAssumption
<1>7. TypeOK'
  BY <1>1, <1>3, <1>4, <1>5 DEF TypeOK, Ledgers
<1>8. \A b \in Accounts :
        unbondingInfo'[b] = IF b = a THEN future ELSE unbondingInfo[b]
  BY <1>1, <1>4 DEF TypeOK
<1>9. UnbondingWellFormed'
  BY <1>3, <1>4, <1>6, <1>8 DEF IndInv, UnbondingWellFormed, c
<1> QED
  BY <1>4, <1>7, <1>9, UnchangedWellFormed DEF IndInv

LEMMA ClaimProviderIndInv ==
  ASSUME IndInv, NEW p \in Providers, NEW e \in Eras, ClaimProvider(p, e)
  PROVE  IndInv'
<1> DEFINE info == ProviderEraInfoOrDefault(p, e)
           reward == ProviderPart(info, eraState[e])
<1>1. /\ TypeOK /\ IsRegistered(p) /\ providerInfo[p].owner \in Accounts
      /\ eraState[e] \in EraMetadata
  BY StateTypes, StakedType DEF IndInv, ClaimProvider, EraClaimable
<1>2. info \in ProviderEraMetadata
  BY <1>1, StorageDefaultType
<1> HIDE DEF info
<1>3. reward \in Nat
  BY <1>1, <1>2, RewardType
<1>4. balances' \in Ledgers
  BY <1>1, <1>3, PayoutType DEF ClaimProvider, info
<1>5. providerEraInfo' \in [Providers -> [Eras -> ProviderEraMetadata \cup {None}]]
  <2>1. [info EXCEPT !.provider_reward_claimed = TRUE] \in ProviderEraMetadata
    BY <1>2 DEF ProviderEraMetadata
  <2> QED
    BY <2>1, <1>1, ProviderEraUpdateType DEF ClaimProvider, info
<1>6. TypeOK'
  BY <1>1, <1>4, <1>5 DEF ClaimProvider, TypeOK, Ledgers
<1>7. UNCHANGED <<era, delegationInfo, unbondingInfo>>
  BY DEF ClaimProvider
<1> QED
  BY <1>6, <1>7, UnchangedWellFormed DEF IndInv

LEMMA ClaimDelegatorIndInv ==
  ASSUME IndInv, NEW a \in Accounts, NEW p \in Providers, ClaimDelegator(a, p)
  PROVE  IndInv'
<1> DEFINE c == era.current
           stakes == delegationInfo[a][p]
           claimed == ClaimedStake(stakes)
           e == claimed.era
           info == ProviderEraInfoOrDefault(p, e)
           reward == DelegatorReward(claimed.amount, info, eraState[e])
<1>1. /\ TypeOK /\ stakes \in Seq(EraStake) /\ c \in Nat /\ c \in Eras
      /\ EntriesOrdered(stakes, c)
      /\ stakes # <<>> => Len(stakes) < MaxEraStakeValues
  BY StateTypes DEF IndInv, TypeOK, DelegationsWellFormed
<1>2. /\ claimed.amount > 0 /\ e < c /\ eraState[e] # None
      /\ CanWithdraw(balances, Pot, reward) /\ balances' = Payout(a, reward)
      /\ delegationInfo' = [delegationInfo EXCEPT ![a][p] = Claim(stakes)]
      /\ UNCHANGED <<block, era, eraState, rewardAccumulator, providerInfo,
                     providerEraInfo, unbondingInfo>>
  BY <1>1 DEF ClaimDelegator, EraClaimable, TypeOK
<1> HIDE DEF c, stakes
<1>3. stakes # <<>> /\ claimed = stakes[1]
  BY <1>2 DEF ClaimedStake, NewEraStake
<1>4. /\ claimed.amount \in Nat /\ e \in Nat
      /\ Len(stakes) \in Nat /\ Len(stakes) < MaxEraStakeValues
  BY <1>1, <1>3, StakeFields
<1>5. e \in Eras
  BY <1>1, <1>2, <1>4, StakingAssumption DEF Eras
<1>6. reward \in Nat
  <2>1. info \in ProviderEraMetadata /\ eraState[e] \in EraMetadata
    BY <1>1, <1>2, <1>5, StorageDefaultType, StakedType
  <2> HIDE DEF info
  <2> QED
    BY <2>1, <1>4, RewardType
<1>7. balances' \in Ledgers
  BY <1>1, <1>2, <1>6, PayoutType
<1>8. /\ Claim(stakes) \in Seq(EraStake) /\ EntriesOrdered(Claim(stakes), c)
      /\ Len(Claim(stakes)) <= Len(stakes)
  BY <1>1, <1>2, <1>3, ClaimProperties
<1>9. Len(Claim(stakes)) < MaxEraStakeValues
  <2>1. Len(Claim(stakes)) \in Nat
    BY <1>8, LenProperties
  <2> QED
    BY <2>1, <1>4, <1>8, StakingAssumption
<1>10. /\ delegationInfo' \in [Accounts -> [Providers -> Seq(EraStake)]]
       /\ DelegationsWellFormed'
  <2>1. EntriesOrdered(Claim(stakes), era.current)
    BY <1>8 DEF c
  <2> QED
    BY <2>1, <1>1, <1>2, <1>8, <1>9, DelegationUpdate DEF IndInv
<1>11. TypeOK'
  BY <1>1, <1>2, <1>7, <1>10 DEF TypeOK, Ledgers
<1> QED
  BY <1>2, <1>10, <1>11, UnchangedWellFormed DEF IndInv

LEMMA ProviderWithdrawUnregisteredIndInv ==
  ASSUME IndInv, NEW p \in Providers, ProviderWithdrawUnregistered(p)
  PROVE  IndInv'
<1> DEFINE owner == providerInfo[p].owner
           bond == ProviderEraInfoOrDefault(p, providerInfo[p].status).bond
<1>1. /\ TypeOK /\ balances \in Ledgers
      /\ providerInfo[p] \in ProviderMetadata
      /\ owner \in Holders /\ providerInfo[p].status \in Eras
  BY StateTypes
     DEF IndInv, ProviderWithdrawUnregistered, UnregisteredUnbonded,
         IsUnregistered, Holders
<1>2. bond \in Nat
  BY <1>1, StorageDefaultType DEF ProviderEraMetadata
<1>3. balances' \in Ledgers
  BY <1>1, <1>2, LedgerType DEF ProviderWithdrawUnregistered
<1>4. providerInfo' \in [Providers -> ProviderMetadata \cup {None}]
  <2>1. [providerInfo[p] EXCEPT !.bond_withdrawn = TRUE] \in ProviderMetadata
    BY <1>1 DEF ProviderMetadata
  <2>2. providerInfo' =
          [providerInfo EXCEPT ![p] = [providerInfo[p] EXCEPT !.bond_withdrawn = TRUE]]
    BY DEF ProviderWithdrawUnregistered
  <2> QED
    BY <2>1, <2>2, <1>1 DEF TypeOK
<1>5. TypeOK'
  BY <1>1, <1>3, <1>4 DEF ProviderWithdrawUnregistered, TypeOK, Ledgers
<1>6. UNCHANGED <<era, delegationInfo, unbondingInfo>>
  BY DEF ProviderWithdrawUnregistered
<1> QED
  BY <1>5, <1>6, UnchangedWellFormed DEF IndInv

LEMMA DelegatorWithdrawUnregisteredIndInv ==
  ASSUME IndInv, NEW a \in Accounts, NEW p \in Providers,
         DelegatorWithdrawUnregistered(a, p)
  PROVE  IndInv'
<1>1. /\ TypeOK /\ balances \in Ledgers /\ a \in Holders
      /\ delegationInfo[a][p] \in Seq(EraStake)
  BY StateTypes DEF IndInv, Holders, TypeOK
<1>2. LatestStakedValue(delegationInfo[a][p]) \in Nat
  BY <1>1, StakeFields
<1>3. balances' \in Ledgers
  BY <1>1, <1>2, LedgerType DEF DelegatorWithdrawUnregistered
<1>4. /\ delegationInfo' \in [Accounts -> [Providers -> Seq(EraStake)]]
      /\ DelegationsWellFormed'
  <2>1. <<>> \in Seq(EraStake) /\ EntriesOrdered(<<>>, era.current)
    BY DEF EntriesOrdered
  <2>2. delegationInfo' = [delegationInfo EXCEPT ![a][p] = <<>>] /\ era' = era
    BY DEF DelegatorWithdrawUnregistered
  <2> QED
    BY <2>1, <2>2, <1>1, DelegationUpdate DEF IndInv
<1>5. TypeOK'
  BY <1>1, <1>3, <1>4 DEF DelegatorWithdrawUnregistered, TypeOK, Ledgers
<1>6. UNCHANGED <<era, unbondingInfo>>
  BY DEF DelegatorWithdrawUnregistered
<1> QED
  BY <1>4, <1>5, <1>6, UnchangedWellFormed DEF IndInv

LEMMA UnregisterProviderIndInv ==
  ASSUME IndInv, NEW p \in Providers, UnregisterProvider(p)
  PROVE  IndInv'
<1> DEFINE c == era.current
           total == ProviderEraInfoOrDefault(p, c).total
<1>1. /\ TypeOK /\ c \in Eras /\ providerInfo[p] \in ProviderMetadata
  BY StateTypes DEF IndInv, UnregisterProvider, IsActiveProvider
<1>2. total \in Nat
  BY <1>1, StorageDefaultType DEF ProviderEraMetadata
<1> HIDE DEF c, total
<1>3. eraState' \in EraStates
  <2>1. eraState[c] # None => SatSub(eraState[c].staked, total) \in Nat
    BY <1>1, <1>2, StakedType, ArithmeticType
  <2>2. eraState' = UpdateStaked(c, SatSub(eraState[c].staked, total))
    BY DEF UnregisterProvider, c, total
  <2> QED
    BY <2>1, <2>2, <1>1, UpdateStakedType
<1>4. providerInfo' \in [Providers -> ProviderMetadata \cup {None}]
  <2>1. [providerInfo[p] EXCEPT !.status = c] \in ProviderMetadata
    BY <1>1 DEF ProviderMetadata
  <2>2. providerInfo' =
          [providerInfo EXCEPT ![p] = [providerInfo[p] EXCEPT !.status = c]]
    BY DEF UnregisterProvider, c
  <2> QED
    BY <2>1, <2>2, <1>1 DEF TypeOK
<1>5. TypeOK'
  BY <1>1, <1>3, <1>4 DEF UnregisterProvider, TypeOK, EraStates
<1>6. UNCHANGED <<era, delegationInfo, unbondingInfo>>
  BY DEF UnregisterProvider
<1> QED
  BY <1>5, <1>6, UnchangedWellFormed DEF IndInv

LEMMA HandleImbalanceIndInv ==
  ASSUME IndInv, NEW v \in Nat, HandleImbalance(v)
  PROVE  IndInv'
<1>1. TypeOK /\ balances \in Ledgers /\ Pot \in Holders
  BY StateTypes DEF IndInv, Holders
<1>2. balances' \in Ledgers
  BY <1>1, LedgerType DEF HandleImbalance
<1>3. rewardAccumulator' \in Nat
  BY <1>1, ArithmeticType DEF HandleImbalance, TypeOK
<1>4. TypeOK'
  BY <1>1, <1>2, <1>3 DEF HandleImbalance, TypeOK, Ledgers
<1>5. UNCHANGED <<era, delegationInfo, unbondingInfo>>
  BY DEF HandleImbalance
<1> QED
  BY <1>4, <1>5, UnchangedWellFormed DEF IndInv

LEMMA NextIndInv == IndInv /\ [Next]_vars => IndInv'
<1> SUFFICES ASSUME IndInv, [Next]_vars PROVE IndInv'
  OBVIOUS
<1>1. CASE StartEra
  BY <1>1, StartEraIndInv
<1>2. CASE ContinueEra \/ \E new \in EraLengths : SetBlocksPerEra(new)
  BY <1>2, BlockAndLengthIndInv
<1>3. ASSUME NEW a \in Accounts, NEW p \in Providers, NEW v \in Amounts,
             \/ RegisterProvider(a, p, v)
             \/ ProviderBondMore(a, p, v)
             \/ ProviderBondLess(a, p, v)
             \/ Delegate(a, p, v)
             \/ DelegatorUnstake(a, p, v)
      PROVE  IndInv'
  BY <1>3, RegisterProviderIndInv, ProviderBondMoreIndInv,
     ProviderBondLessIndInv, DelegateIndInv, DelegatorUnstakeIndInv
<1>4. ASSUME NEW a \in Accounts, WithdrawUnbonded(a)
      PROVE  IndInv'
  BY <1>4, WithdrawUnbondedIndInv
<1>5. ASSUME NEW p \in Providers, NEW e \in Eras, ClaimProvider(p, e)
      PROVE  IndInv'
  BY <1>5, ClaimProviderIndInv
<1>6. ASSUME NEW a \in Accounts, NEW p \in Providers,
             ClaimDelegator(a, p) \/ DelegatorWithdrawUnregistered(a, p)
      PROVE  IndInv'
  BY <1>6, ClaimDelegatorIndInv, DelegatorWithdrawUnregisteredIndInv
<1>7. ASSUME NEW p \in Providers,
             ProviderWithdrawUnregistered(p) \/ UnregisterProvider(p)
      PROVE  IndInv'
  BY <1>7, ProviderWithdrawUnregisteredIndInv, UnregisterProviderIndInv
<1>8. ASSUME NEW v \in Rewards, HandleImbalance(v)
      PROVE  IndInv'
  BY <1>8, HandleImbalanceIndInv, StakingAssumption
<1>9. CASE UNCHANGED vars
  BY <1>9 DEF IndInv, TypeOK, DelegationsWellFormed, UnbondingWellFormed,
              vars, stakingVars
<1> QED
  BY <1>1, <1>2, <1>3, <1>4, <1>5, <1>6, <1>7, <1>8, <1>9 DEF Next

----------------------------------------------------------------------------
(* Every storage item of the pallet keeps the type it is declared with, in *)
(* particular no balance, bond, stake or reward becomes negative, whatever *)
(* calls are made in whatever order.                                       *)
THEOREM TypeCorrect == Spec => []TypeOK
<1>1. IndInv => TypeOK
  BY DEF IndInv
<1> QED
  BY <1>1, InitIndInv, NextIndInv, PTL DEF Spec

(* The delegation vectors that stake, unstake and claim maintain stay in   *)
(* the order of their eras, never run ahead of the current era and always  *)
(* keep the free place the pallet promises.                                *)
THEOREM DelegationsStayWellFormed == Spec => []DelegationsWellFormed
<1>1. IndInv => DelegationsWellFormed
  BY DEF IndInv
<1> QED
  BY <1>1, InitIndInv, NextIndInv, PTL DEF Spec

(* The unlocking chunks stay sorted with one chunk per era, which the      *)
(* binary search of add and the early end of partition rely on, within     *)
(* MaxUnlockingChunks and within the unbonding period.                     *)
THEOREM UnbondingStaysWellFormed == Spec => []UnbondingWellFormed
<1>1. IndInv => UnbondingWellFormed
  BY DEF IndInv
<1> QED
  BY <1>1, InitIndInv, NextIndInv, PTL DEF Spec

----------------------------------------------------------------------------
(* The records of finished eras                                            *)

(* A call that writes only the records of the running era.                 *)
LEMMA RunningEraWrite ==
  ASSUME TypeOK, NEW e \in Eras, e # era.current,
         NEW p \in Providers, NEW info, NEW staked,
         eraState' = UpdateStaked(era.current, staked),
         \/ providerEraInfo' = providerEraInfo
         \/ providerEraInfo' = [providerEraInfo EXCEPT ![p][era.current] = info]
  PROVE  FinishedEraKept(e)
<1>1. eraState'[e] = eraState[e]
  BY DEF UpdateStaked, TypeOK
<1>2. \A q \in Providers : providerEraInfo'[q][e] = providerEraInfo[q][e]
  <2>1. CASE providerEraInfo' = providerEraInfo
    BY <2>1
  <2>2. CASE providerEraInfo' = [providerEraInfo EXCEPT ![p][era.current] = info]
    BY <2>2 DEF TypeOK
  <2> QED
    BY <2>1, <2>2
<1> QED
  BY <1>1, <1>2 DEF FinishedEraKept

LEMMA CallKeepsFinishedEras ==
  ASSUME TypeOK, NEW e \in Eras, e # era.current,
         NEW a \in Accounts, NEW p \in Providers, NEW v \in Amounts,
         \/ RegisterProvider(a, p, v)
         \/ ProviderBondMore(a, p, v)
         \/ ProviderBondLess(a, p, v)
         \/ Delegate(a, p, v)
         \/ DelegatorUnstake(a, p, v)
  PROVE  FinishedEraKept(e)
<1>1. CASE RegisterProvider(a, p, v)
  <2>1. eraState'[e] = eraState[e]
    BY <1>1 DEF RegisterProvider, TypeOK
  <2>2. \A q \in Providers : providerEraInfo'[q][e] = providerEraInfo[q][e]
    BY <1>1 DEF RegisterProvider, TypeOK
  <2> QED
    BY <2>1, <2>2 DEF FinishedEraKept
<1>2. CASE ProviderBondMore(a, p, v)
  BY <1>2, RunningEraWrite DEF ProviderBondMore
<1>3. CASE ProviderBondLess(a, p, v)
  BY <1>3, RunningEraWrite DEF ProviderBondLess
<1>4. CASE Delegate(a, p, v)
  BY <1>4, RunningEraWrite DEF Delegate
<1>5. CASE DelegatorUnstake(a, p, v)
  BY <1>5, RunningEraWrite DEF DelegatorUnstake
<1> QED
  BY <1>1, <1>2, <1>3, <1>4, <1>5

(* The end of an era writes the era that ends and the one that starts.     *)
LEMMA StartEraKeepsFinishedEras ==
  ASSUME TypeOK, NEW e \in Eras, e < era.current, StartEra
  PROVE  FinishedEraKept(e)
<1>1. e # era.current /\ e # era.current + 1
  BY StateTypes, StakingAssumption DEF Eras
<1>2. eraState'[e] = eraState[e]
  BY <1>1 DEF StartEra, SnapshotEraRewards, TypeOK
<1>3. \A q \in Providers : providerEraInfo'[q][e] = providerEraInfo[q][e]
  BY <1>1 DEF StartEra, RotateProviderEraInfo, TypeOK
<1> QED
  BY <1>2, <1>3 DEF FinishedEraKept

(* claim_provider needs a total, so the record it marks exists, and it is  *)
(* marked only if it was not.                                              *)
LEMMA ClaimProviderKeepsFinishedEras ==
  ASSUME TypeOK, NEW e \in Eras, NEW p \in Providers, NEW f \in Eras,
         ClaimProvider(p, f)
  PROVE  FinishedEraKept(e)
<1>1. eraState'[e] = eraState[e]
  BY DEF ClaimProvider
<1>2. /\ providerEraInfo[p][f] # None
      /\ ProviderEraInfoOrDefault(p, f) = providerEraInfo[p][f]
  BY DEF ClaimProvider, ProviderEraInfoOrDefault, DefaultProviderEraMetadata
<1>3. /\ ~providerEraInfo[p][f].provider_reward_claimed
      /\ providerEraInfo' =
           [providerEraInfo EXCEPT ![p][f] =
              [providerEraInfo[p][f] EXCEPT !.provider_reward_claimed = TRUE]]
  BY <1>2 DEF ClaimProvider
<1>4. \A q \in Providers :
        providerEraInfo'[q][e] =
          IF q = p /\ e = f
          THEN [providerEraInfo[q][e] EXCEPT !.provider_reward_claimed = TRUE]
          ELSE providerEraInfo[q][e]
  BY <1>3 DEF TypeOK
<1> QED
  BY <1>1, <1>2, <1>3, <1>4 DEF FinishedEraKept

LEMMA NextKeepsFinishedEras ==
  ASSUME TypeOK, [Next]_vars, NEW e \in Eras, e < era.current
  PROVE  FinishedEraKept(e)
<1>1. e # era.current
  BY StateTypes, StakingAssumption DEF Eras
<1>2. ASSUME UNCHANGED <<eraState, providerEraInfo>>
      PROVE  FinishedEraKept(e)
  BY <1>2 DEF FinishedEraKept
<1>3. CASE StartEra
  BY <1>3, StartEraKeepsFinishedEras
<1>4. CASE ContinueEra \/ \E new \in EraLengths : SetBlocksPerEra(new)
  BY <1>2, <1>4 DEF ContinueEra, SetBlocksPerEra, stakingVars
<1>5. ASSUME NEW a \in Accounts, NEW p \in Providers, NEW v \in Amounts,
             \/ RegisterProvider(a, p, v)
             \/ ProviderBondMore(a, p, v)
             \/ ProviderBondLess(a, p, v)
             \/ Delegate(a, p, v)
             \/ DelegatorUnstake(a, p, v)
      PROVE  FinishedEraKept(e)
  BY <1>1, <1>5, CallKeepsFinishedEras
<1>6. ASSUME NEW a \in Accounts, WithdrawUnbonded(a)
      PROVE  FinishedEraKept(e)
  BY <1>2, <1>6 DEF WithdrawUnbonded
<1>7. ASSUME NEW p \in Providers, NEW f \in Eras, ClaimProvider(p, f)
      PROVE  FinishedEraKept(e)
  BY <1>7, ClaimProviderKeepsFinishedEras
<1>8. ASSUME NEW a \in Accounts, NEW p \in Providers,
             ClaimDelegator(a, p) \/ DelegatorWithdrawUnregistered(a, p)
      PROVE  FinishedEraKept(e)
  BY <1>2, <1>8 DEF ClaimDelegator, DelegatorWithdrawUnregistered
<1>9. ASSUME NEW p \in Providers, ProviderWithdrawUnregistered(p)
      PROVE  FinishedEraKept(e)
  BY <1>2, <1>9 DEF ProviderWithdrawUnregistered
<1>10. ASSUME NEW p \in Providers, UnregisterProvider(p)
       PROVE  FinishedEraKept(e)
  <2>1. eraState' = UpdateStaked(era.current,
                      SatSub(eraState[era.current].staked,
                             ProviderEraInfoOrDefault(p, era.current).total))
        /\ providerEraInfo' = providerEraInfo
    BY <1>10 DEF UnregisterProvider
  <2> QED
    BY <2>1, <1>1, RunningEraWrite
<1>11. ASSUME NEW v \in Rewards, HandleImbalance(v)
       PROVE  FinishedEraKept(e)
  BY <1>2, <1>11 DEF HandleImbalance
<1>12. CASE UNCHANGED vars
  BY <1>2, <1>12 DEF vars, stakingVars
<1> QED
  BY <1>3, <1>4, <1>5, <1>6, <1>7, <1>8, <1>9, <1>10, <1>11, <1>12 DEF Next

(* The total stake, the rewards and every provider's record of a finished  *)
(* era are final: what a claim is paid does not depend on when it is made, *)
(* and a provider's reward for an era is marked claimed at most once.      *)
THEOREM FinishedErasStayFixed == Spec => FinishedErasImmutable
<1>1. IndInv /\ [Next]_vars =>
        [\A e \in Eras : e < era.current => FinishedEraKept(e)]_vars
  BY NextKeepsFinishedEras DEF IndInv
<1> QED
  BY <1>1, InitIndInv, NextIndInv, PTL DEF Spec, FinishedErasImmutable
=============================================================================
