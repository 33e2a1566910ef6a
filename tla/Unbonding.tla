----------------------------- MODULE Unbonding ------------------------------
(***************************************************************************)
(* The UnbondingMetadata of an account: its unlocking chunks, in ascending *)
(* order of the era in which they can be withdrawn.                        *)
(***************************************************************************)
EXTENDS Integers, Sequences, Currency

UnlockingChunk == [amount : Nat, unlock_era : Nat]

NewChunk(amount, unlock_era) ==
  [amount |-> amount, unlock_era |-> unlock_era]

(* slice::binary_search_by on a sorted vector (external): the position of  *)
(* the first chunk that does not unlock before the era.                    *)
SearchEra(chunks, era) ==
  CHOOSE k \in 1..(Len(chunks) + 1) :
    /\ \A i \in 1..(k - 1) : chunks[i].unlock_era < era
    /\ \A i \in k..Len(chunks) : chunks[i].unlock_era >= era

(* Faulty: chunks of the same era are not merged.                          *)
AppendChunk(chunks, chunk) == Append(chunks, chunk)

(* add merges with the chunk of the same era or inserts a new one.         *)
AddChunk(chunks, chunk) ==
  LET pos == SearchEra(chunks, chunk.unlock_era)
  IN  IF pos <= Len(chunks) /\ chunks[pos].unlock_era = chunk.unlock_era
      THEN [chunks EXCEPT ![pos] =
              NewChunk(WrapAdd(@.amount, chunk.amount), @.unlock_era)]
      ELSE [i \in 1..(Len(chunks) + 1) |->
              CASE i < pos -> chunks[i]
                [] i = pos -> chunk
                [] i > pos -> chunks[i - 1]]

(* partition(era): the chunks that unlock by the era and the rest.  The    *)
(* vector is sorted, so the first group is a prefix of it.                 *)
ValidChunks(chunks, era) ==
  SubSeq(chunks, 1, SearchEra(chunks, era + 1) - 1)

FutureChunks(chunks, era) ==
  SubSeq(chunks, SearchEra(chunks, era + 1), Len(chunks))

(* sum(): the amounts of the first n chunks added up.                      *)
ChunkSum(chunks) ==
  LET Upto[n \in 0..Len(chunks)] ==
        IF n = 0 THEN 0 ELSE WrapAdd(Upto[n - 1], chunks[n].amount)
  IN  Upto[Len(chunks)]

ChunksOrdered(chunks) ==
  \A i, j \in DOMAIN chunks : i < j => chunks[i].unlock_era < chunks[j].unlock_era
=============================================================================
