------------------------- MODULE ValidatorSetProofs -------------------------
(***************************************************************************)
(* Theorems about the validator set, for every set of accounts, every      *)
(* number of candidates and every length of a session.                     *)
(***************************************************************************)
EXTENDS ValidatorSet, LedgerLemmas, SequenceTheorems

----------------------------------------------------------------------------
(* The list of candidates                                                  *)

LEMMA RemoveAtElements ==
  ASSUME NEW S, NEW s \in Seq(S), NEW p \in 1..Len(s)
  PROVE  /\ RemoveAt(s, p) \in Seq(S)
         /\ Len(RemoveAt(s, p)) = Len(s) - 1
         /\ \A i \in 1..(Len(s) - 1) :
              RemoveAt(s, p)[i] = IF i < p THEN s[i] ELSE s[i + 1]
<1>1. Len(s) \in Nat
  BY LenProperties
<1> DEFINE front == SubSeq(s, 1, p - 1)
           back == SubSeq(s, p + 1, Len(s))
<1>2. /\ front \in Seq(S) /\ Len(front) = p - 1
      /\ \A i \in 1..(p - 1) : front[i] = s[i]
  BY <1>1, SubSeqProperties
<1>3. /\ back \in Seq(S) /\ Len(back) = Len(s) - p
      /\ \A i \in 1..(Len(s) - p) : back[i] = s[p + i]
  BY <1>1, SubSeqProperties
<1>4. RemoveAt(s, p) = front \o back
  BY DEF RemoveAt
<1> HIDE DEF front, back
<1>5. /\ front \o back \in Seq(S) /\ Len(front \o back) = Len(front) + Len(back)
      /\ \A i \in 1..(Len(front) + Len(back)) :
           (front \o back)[i] = IF i <= Len(front) THEN front[i]
                                ELSE back[i - Len(front)]
  BY <1>2, <1>3, ConcatProperties
<1>6. ASSUME NEW i \in 1..(Len(s) - 1)
      PROVE  (front \o back)[i] = IF i < p THEN s[i] ELSE s[i + 1]
  <2>1. CASE i < p
    BY <1>1, <1>2, <1>3, <1>5, <2>1
  <2>2. CASE ~(i < p)
    <3>1. PICK k \in 1..(Len(s) - p) : k = i - (p - 1)
      BY <1>1, <2>2
    <3>2. (front \o back)[i] = back[k] /\ p + k = i + 1
      BY <1>1, <1>2, <1>3, <1>5, <2>2, <3>1
    <3> QED
      BY <1>3, <2>2, <3>1, <3>2
  <2> QED
    BY <2>1, <2>2
<1> QED
  BY <1>1, <1>2, <1>3, <1>4, <1>5, <1>6

(* Nobody is in the list twice.                                            *)
Distinct(list) == \A i, j \in DOMAIN list : list[i].who = list[j].who => i = j

LEMMA Domain ==
  ASSUME NEW list \in Seq(CandidateInfo)
  PROVE  /\ Len(list) \in Nat /\ DOMAIN list = 1..Len(list)
         /\ \A i \in DOMAIN list : list[i].who \in Accounts /\ list[i].deposit \in Nat
<1>1. Len(list) \in Nat /\ DOMAIN list = 1..Len(list)
  BY LenProperties
<1>2. \A i \in 1..Len(list) : list[i] \in CandidateInfo
  BY ElementOfSeq
<1> QED
  BY <1>1, <1>2 DEF CandidateInfo

LEMMA Position ==
  ASSUME NEW list \in Seq(CandidateInfo), NEW a \in Who(list)
  PROVE  PositionOf(list, a) \in DOMAIN list /\ list[PositionOf(list, a)].who = a
BY DEF PositionOf, Who

LEMMA RemoveCandidateEffect ==
  ASSUME NEW list \in Seq(CandidateInfo), Distinct(list), NEW a \in Who(list),
         NEW after, after = RemoveCandidate(list, a)
  PROVE  /\ after \in Seq(CandidateInfo)
         /\ Len(after) = Len(list) - 1
         /\ Distinct(after)
         /\ \A i \in DOMAIN after : \E j \in DOMAIN list : after[i] = list[j] /\ list[j].who # a
         /\ \A j \in DOMAIN list : list[j].who # a => \E i \in DOMAIN after : after[i] = list[j]
<1>1. PICK p \in 1..Len(list) : p = PositionOf(list, a) /\ list[p].who = a
  BY Position, Domain
<1>2. after = RemoveAt(list, p)
  BY <1>1 DEF RemoveCandidate
<1>3. /\ after \in Seq(CandidateInfo) /\ Len(after) = Len(list) - 1
      /\ \A i \in 1..(Len(list) - 1) : after[i] = IF i < p THEN list[i] ELSE list[i + 1]
  BY <1>2, RemoveAtElements
<1>4. /\ DOMAIN list = 1..Len(list) /\ Len(list) \in Nat
      /\ DOMAIN after = 1..(Len(list) - 1)
  BY <1>3, Domain
<1> DEFINE From(i) == IF i < p THEN i ELSE i + 1
<1>5. \A i \in DOMAIN after : From(i) \in DOMAIN list /\ From(i) # p /\ after[i] = list[From(i)]
  BY <1>3, <1>4
<1>6. \A i, j \in DOMAIN after : From(i) = From(j) => i = j
  BY <1>4
<1>7. \A j \in DOMAIN list : j # p => \E i \in DOMAIN after : From(i) = j
  <2> SUFFICES ASSUME NEW j \in DOMAIN list, j # p PROVE \E i \in DOMAIN after : From(i) = j
    OBVIOUS
  <2>1. CASE j < p
    BY <1>4, <2>1
  <2>2. CASE j > p
    <3>1. j - 1 \in DOMAIN after /\ From(j - 1) = j
      BY <1>4, <2>2
    <3> QED
      BY <3>1
  <2> QED
    BY <1>4, <2>1, <2>2
<1> HIDE DEF From
<1>8. \A j \in DOMAIN list : j # p <=> list[j].who # a
  BY <1>1, <1>4 DEF Distinct
<1>9. Distinct(after)
  BY <1>5, <1>6 DEF Distinct
<1>10. \A i \in DOMAIN after : \E j \in DOMAIN list : after[i] = list[j] /\ list[j].who # a
  BY <1>5, <1>8
<1>11. \A j \in DOMAIN list : list[j].who # a => \E i \in DOMAIN after : after[i] = list[j]
  BY <1>5, <1>7, <1>8
<1> QED
  BY <1>3, <1>9, <1>10, <1>11

----------------------------------------------------------------------------
(* Deposits                                                                *)

(* The inductive form of DepositsReserved: a list of candidates and a      *)
(* ledger that holds the deposit of each of them and reserves nothing of   *)
(* anybody else.                                                           *)
Booked(list, ledger) ==
  /\ list \in Seq(CandidateInfo)
  /\ ledger \in LedgerOver(Holders)
  /\ Distinct(list)
  /\ \A i \in DOMAIN list : ledger[list[i].who].reserved = list[i].deposit
  /\ \A a \in Accounts : a \notin Who(list) => ledger[a].reserved = 0

(* Tokens move, but only free ones.                                        *)
LEMMA FreeTokensMove ==
  ASSUME NEW list, NEW ledger, Booked(list, ledger), NEW after \in LedgerOver(Holders),
         \A h \in Holders : after[h].reserved = ledger[h].reserved
  PROVE  Booked(list, after)
<1>1. \A i \in DOMAIN list : list[i].who \in Holders
  BY Domain DEF Booked, Holders
<1> QED
  BY <1>1 DEF Booked, Holders

(* A candidate leaves the list and has nothing reserved any more.          *)
LEMMA CandidateLeaves ==
  ASSUME NEW list, NEW ledger, Booked(list, ledger), NEW a \in Who(list),
         NEW after \in LedgerOver(Holders), after[a].reserved = 0,
         \A h \in Holders : h # a => after[h].reserved = ledger[h].reserved
  PROVE  Booked(RemoveCandidate(list, a), after)
<1>1. PICK left : left = RemoveCandidate(list, a)
  OBVIOUS
<1>2. list \in Seq(CandidateInfo) /\ Distinct(list)
  BY DEF Booked
<1>3. /\ left \in Seq(CandidateInfo) /\ Distinct(left)
      /\ \A i \in DOMAIN left : \E j \in DOMAIN list : left[i] = list[j] /\ list[j].who # a
      /\ \A j \in DOMAIN list : list[j].who # a => \E i \in DOMAIN left : left[i] = list[j]
  BY <1>1, <1>2, RemoveCandidateEffect
<1>4. \A j \in DOMAIN list : list[j].who \in Holders
  BY <1>2, Domain DEF Holders
<1>5. \A i \in DOMAIN left : after[left[i].who].reserved = left[i].deposit
  BY <1>3, <1>4 DEF Booked
<1>6. ASSUME NEW b \in Accounts, b \notin Who(left) PROVE after[b].reserved = 0
  <2>1. CASE b = a
    BY <2>1
  <2>2. CASE b # a
    <3>1. b \notin Who(list)
      BY <1>3, <1>6, <2>2 DEF Who
    <3> QED
      BY <2>2, <3>1 DEF Booked, Holders
  <2> QED
    BY <2>1, <2>2
<1> QED
  BY <1>1, <1>3, <1>5, <1>6 DEF Booked

LEMMA WhoAccounts ==
  ASSUME NEW list \in Seq(CandidateInfo)
  PROVE  Who(list) \subseteq Accounts
BY Domain DEF Who

(* The deposit of a candidate is released, all of it ...                   *)
LEMMA DepositReleased ==
  ASSUME NEW ledger \in LedgerOver(Holders), NEW a \in Accounts,
         NEW deposit \in Nat, ledger[a].reserved = deposit,
         NEW after, after = Unreserve(ledger, a, deposit)
  PROVE  /\ after \in LedgerOver(Holders) /\ after[a].reserved = 0
         /\ \A h \in Holders : h # a => after[h].reserved = ledger[h].reserved
<1>1. a \in Holders /\ ledger[a].reserved >= deposit
  BY DEF Holders
<1>2. /\ after \in LedgerOver(Holders)
      /\ \A h \in Holders : h # a => after[h] = ledger[h]
      /\ after[a].reserved = ledger[a].reserved - deposit
  BY <1>1, UnreserveEffect
<1> QED
  BY <1>2

(* ... also if a part of it is slashed, and whoever receives that part.    *)
LEMMA DepositSlashed ==
  ASSUME slashDestination \in Accounts \cup {None},
         NEW ledger \in LedgerOver(Holders), NEW c \in CandidateInfo,
         ledger[c.who].reserved = c.deposit,
         NEW after, after = ResolveSlash(SlashAndRelease(ledger, c), SlashAmount(c))
  PROVE  /\ after \in LedgerOver(Holders) /\ after[c.who].reserved = 0
         /\ \A h \in Holders : h # c.who => after[h].reserved = ledger[h].reserved
<1>1. c.who \in Holders /\ c.deposit \in Nat
  BY DEF CandidateInfo, Holders
<1>2. PICK slash \in Nat : slash = SlashAmount(c) /\ slash <= c.deposit
  BY <1>1, PerbillMulBound, ValidatorAssumption DEF SlashAmount
<1>3. PICK slashed : slashed = SlashReserved(ledger, c.who, slash)
  OBVIOUS
<1>4. /\ slashed \in LedgerOver(Holders)
      /\ \A h \in Holders : h # c.who => slashed[h] = ledger[h]
      /\ slashed[c.who].reserved = ledger[c.who].reserved - slash
  BY <1>1, <1>2, <1>3, SlashReservedEffect
<1>5. PICK rest \in Nat : rest = c.deposit - slash
  BY <1>1, <1>2
<1>6. slashed[c.who].reserved = rest
  BY <1>4, <1>5
<1>7. PICK released : released = Unreserve(slashed, c.who, rest)
  OBVIOUS
<1>8. /\ released \in LedgerOver(Holders) /\ released[c.who].reserved = 0
      /\ \A h \in Holders : h # c.who => released[h].reserved = slashed[h].reserved
  BY <1>4, <1>6, <1>7, DepositReleased DEF CandidateInfo
<1>9. after = ResolveSlash(released, slash)
  BY <1>2, <1>3, <1>5, <1>7 DEF SlashAndRelease
<1>10. /\ after \in LedgerOver(Holders)
       /\ \A h \in Holders : after[h].reserved = released[h].reserved
  <2>1. CASE slashDestination = None
    BY <1>8, <1>9, <2>1 DEF ResolveSlash
  <2>2. CASE slashDestination # None
    <3>1. PICK to \in Holders : to = slashDestination
      BY <2>2 DEF Holders
    <3>2. after = DepositCreating(released, to, slash)
      BY <1>9, <2>2, <3>1 DEF ResolveSlash
    <3>3. /\ after \in LedgerOver(Holders)
          /\ \A h \in Holders : h # to => after[h] = released[h]
          /\ after[to].reserved = released[to].reserved
      BY <1>8, <3>2, DepositEffect
    <3> QED
      BY <3>3
  <2> QED
    BY <2>1, <2>2
<1> QED
  BY <1>1, <1>4, <1>8, <1>10

----------------------------------------------------------------------------
(* The loop of kick_stale_candidates                                       *)

(* The states of the loop after 0, 1, ..., n candidates.                   *)
LoopStates(blocks, ledger, n, g) ==
  /\ g = [i \in 0..n |-> g[i]]
  /\ g[0] = [left |-> candidates, ledger |-> ledger]
  /\ \A i \in 1..n : g[i] = KickStep(blocks, g[i - 1], i)

LEMMA LoopStatesExist ==
  ASSUME NEW blocks, NEW ledger, NEW N \in Nat
  PROVE  \E g : LoopStates(blocks, ledger, N, g)
<1> DEFINE Good == {n \in Nat : \E g : LoopStates(blocks, ledger, n, g)}
<1>1. 0 \in Good
  <2> DEFINE g == [i \in 0..0 |-> [left |-> candidates, ledger |-> ledger]]
  <2>1. LoopStates(blocks, ledger, 0, g)
    BY DEF LoopStates
  <2> QED
    BY <2>1
<1>2. ASSUME NEW n \in 0..(N - 1), n \in Good PROVE n + 1 \in Good
  <2>1. n \in Nat /\ n + 1 \in Nat
    OBVIOUS
  <2>2. PICK g : LoopStates(blocks, ledger, n, g)
    BY <1>2
  <2> DEFINE h == [i \in 0..(n + 1) |-> IF i <= n THEN g[i] ELSE KickStep(blocks, g[n], n + 1)]
  <2>3. h[0] = g[0] /\ \A i \in 0..n : h[i] = g[i]
    BY <2>1
  <2>4. h[n + 1] = KickStep(blocks, g[n], n + 1)
    BY <2>1
  <2>5. h = [i \in 0..(n + 1) |-> h[i]]
    OBVIOUS
  <2> HIDE DEF h
  <2>6. \A i \in 1..(n + 1) : h[i] = KickStep(blocks, h[i - 1], i)
    <3> SUFFICES ASSUME NEW i \in 1..(n + 1) PROVE h[i] = KickStep(blocks, h[i - 1], i)
      OBVIOUS
    <3>1. CASE i = n + 1
      <4>1. i - 1 = n /\ h[n] = g[n]
        BY <2>1, <2>3, <3>1
      <4> QED
        BY <2>4, <3>1, <4>1
    <3>2. CASE i # n + 1
      <4>1. i \in 1..n /\ i \in 0..n /\ i - 1 \in 0..n
        BY <2>1, <3>2
      <4>2. h[i] = g[i] /\ h[i - 1] = g[i - 1]
        BY <2>3, <4>1
      <4> QED
        BY <2>2, <4>1, <4>2 DEF LoopStates
    <3> QED
      BY <3>1, <3>2
  <2>7. LoopStates(blocks, ledger, n + 1, h)
    BY <2>2, <2>3, <2>5, <2>6 DEF LoopStates
  <2> QED
    BY <2>1, <2>7
<1> HIDE DEF Good
<1>3. N \in Good
  BY <1>1, <1>2, UpToInduction
<1> QED
  BY <1>3 DEF Good

LEMMA KickLoop ==
  ASSUME NEW blocks, NEW ledger, Len(candidates) \in Nat
  PROVE  \E g : /\ LoopStates(blocks, ledger, Len(candidates), g)
                /\ KickStaleCandidates(blocks, ledger) = g[Len(candidates)]
<1> DEFINE N == Len(candidates)
           Body(g) == [i \in 0..N |->
                         IF i = 0 THEN [left |-> candidates, ledger |-> ledger]
                         ELSE KickStep(blocks, g[i - 1], i)]
           loop == CHOOSE g : g = Body(g)
<1>1. PICK g : LoopStates(blocks, ledger, N, g)
  BY LoopStatesExist
<1>2. g = Body(g)
  <2>1. \A i \in 0..N : g[i] = Body(g)[i]
    <3> SUFFICES ASSUME NEW i \in 0..N PROVE g[i] = Body(g)[i]
      OBVIOUS
    <3>1. CASE i = 0
      BY <1>1, <3>1 DEF LoopStates
    <3>2. CASE i # 0
      <4>1. i \in 1..N
        BY <3>2
      <4> QED
        BY <1>1, <3>2, <4>1 DEF LoopStates
    <3> QED
      BY <3>1, <3>2
  <2>2. g = [i \in 0..N |-> g[i]]
    BY <1>1 DEF LoopStates
  <2>3. Body(g) = [i \in 0..N |-> Body(g)[i]]
    OBVIOUS
  <2> HIDE DEF Body
  <2> QED
    BY <2>1, <2>2, <2>3
<1>3. loop = Body(loop)
  BY <1>2
<1>4. KickStaleCandidates(blocks, ledger) = loop[N]
  BY DEF KickStaleCandidates
<1> HIDE DEF loop
<1>5. loop = [i \in 0..N |-> loop[i]]
  BY <1>3
<1>6. loop[0] = [left |-> candidates, ledger |-> ledger]
  BY <1>3
<1>7. \A i \in 1..N : loop[i] = KickStep(blocks, loop[i - 1], i)
  <2> SUFFICES ASSUME NEW i \in 1..N PROVE loop[i] = KickStep(blocks, loop[i - 1], i)
    OBVIOUS
  <2>1. i \in 0..N /\ i # 0
    OBVIOUS
  <2> QED
    BY <1>3, <2>1
<1>8. LoopStates(blocks, ledger, N, loop)
  BY <1>5, <1>6, <1>7 DEF LoopStates
<1> QED
  BY <1>4, <1>8

(* The invariant of the loop: the deposits are booked, who comes later is  *)
(* still there, who is left was there before, only stale candidates were   *)
(* removed, and none below the minimum.                                    *)
LoopInv(blocks, i, s) ==
  /\ Booked(s.left, s.ledger)
  /\ \A k \in DOMAIN candidates : k > i => \E j \in DOMAIN s.left : s.left[j] = candidates[k]
  /\ \A j \in DOMAIN s.left : \E k \in DOMAIN candidates : s.left[j] = candidates[k]
  /\ \A k \in DOMAIN candidates : candidates[k].who \notin Who(s.left) => Stale(blocks, k)
  /\ Len(s.left) <= Len(candidates)
  /\ Len(s.left) < Len(candidates) => Len(s.left) >= MinCandidates

LEMMA LoopBegins ==
  ASSUME NEW blocks, NEW ledger, Booked(candidates, ledger)
  PROVE  LoopInv(blocks, 0, [left |-> candidates, ledger |-> ledger])
<1>1. Len(candidates) \in Nat
  BY Domain DEF Booked
<1> QED
  BY <1>1 DEF LoopInv, Who

LEMMA LoopGoesOn ==
  ASSUME slashDestination \in Accounts \cup {None},
         candidates \in Seq(CandidateInfo), Distinct(candidates),
         NEW blocks, NEW i \in Nat, i + 1 \in DOMAIN candidates,
         NEW s, LoopInv(blocks, i, s)
  PROVE  LoopInv(blocks, i + 1, KickStep(blocks, s, i + 1))
<1>1. /\ DOMAIN candidates \subseteq Nat /\ MinCandidates \in Nat
      /\ \A k \in DOMAIN candidates : candidates[k] \in CandidateInfo
  BY Domain, ElementOfSeq, ValidatorAssumption
<1>2. CASE ~(Stale(blocks, i + 1) /\ MoreThanMinimum(s.left))
  <2>1. KickStep(blocks, s, i + 1) = s
    BY <1>2 DEF KickStep
  <2>2. \A k \in DOMAIN candidates : k > i + 1 => k > i
    BY <1>1
  <2> QED
    BY <2>1, <2>2 DEF LoopInv
<1>3. CASE Stale(blocks, i + 1) /\ MoreThanMinimum(s.left)
  <2>1. PICK c \in CandidateInfo : c = candidates[i + 1]
    BY <1>1
  <2>2. PICK left : left = RemoveCandidate(s.left, c.who)
    OBVIOUS
  <2>3. PICK ledger : ledger = ResolveSlash(SlashAndRelease(s.ledger, c), SlashAmount(c))
    OBVIOUS
  <2>4. KickStep(blocks, s, i + 1) = [left |-> left, ledger |-> ledger]
    BY <1>3, <2>1, <2>2, <2>3 DEF KickStep
  <2>5. /\ Booked(s.left, s.ledger)
        /\ s.left \in Seq(CandidateInfo) /\ Distinct(s.left)
        /\ s.ledger \in LedgerOver(Holders)
    BY DEF LoopInv, Booked
  <2>6. PICK j \in DOMAIN s.left : s.left[j] = c
    <3>1. i + 1 > i
      OBVIOUS
    <3>2. \A k \in DOMAIN candidates : k > i => \E m \in DOMAIN s.left : s.left[m] = candidates[k]
      BY DEF LoopInv
    <3> QED
      BY <2>1, <3>1, <3>2
  <2>7. c.who \in Who(s.left) /\ s.ledger[c.who].reserved = c.deposit
    BY <2>5, <2>6 DEF Who, Booked
  <2>8. /\ ledger \in LedgerOver(Holders) /\ ledger[c.who].reserved = 0
        /\ \A h \in Holders : h # c.who => ledger[h].reserved = s.ledger[h].reserved
    BY <2>3, <2>5, <2>7, DepositSlashed
  <2>9. Booked(left, ledger)
    BY <2>2, <2>5, <2>7, <2>8, CandidateLeaves
  <2>10. /\ left \in Seq(CandidateInfo) /\ Len(left) = Len(s.left) - 1
         /\ \A m \in DOMAIN left : \E n \in DOMAIN s.left :
              left[m] = s.left[n] /\ s.left[n].who # c.who
         /\ \A n \in DOMAIN s.left : s.left[n].who # c.who =>
              \E m \in DOMAIN left : left[m] = s.left[n]
    <3>1. PICK list \in Seq(CandidateInfo) : list = s.left /\ Distinct(list)
      BY <2>5
    <3>2. PICK a \in Who(list) : a = c.who
      BY <2>7, <3>1
    <3>3. left = RemoveCandidate(list, a)
      BY <2>2, <3>1, <3>2
    <3>4. /\ left \in Seq(CandidateInfo) /\ Len(left) = Len(list) - 1
          /\ \A m \in DOMAIN left : \E n \in DOMAIN list :
               left[m] = list[n] /\ list[n].who # a
          /\ \A n \in DOMAIN list : list[n].who # a =>
               \E m \in DOMAIN left : left[m] = list[n]
      <4>1. list \in Seq(CandidateInfo) /\ Distinct(list) /\ a \in Who(list)
        BY <3>1, <3>2
      <4> QED
        BY <3>3, <4>1, RemoveCandidateEffect
    <3> QED
      BY <3>1, <3>2, <3>4
  <2>11. ASSUME NEW k \in DOMAIN candidates, k > i + 1
         PROVE  \E m \in DOMAIN left : left[m] = candidates[k]
    <3>1. k > i /\ k # i + 1
      BY <1>1, <2>11
    <3>2. candidates[k].who # c.who
      BY <2>1, <3>1 DEF Distinct
    <3>3. PICK n \in DOMAIN s.left : s.left[n] = candidates[k]
      BY <3>1 DEF LoopInv
    <3> QED
      BY <2>10, <3>2, <3>3, SMTT(30)
  <2>12. \A m \in DOMAIN left : \E k \in DOMAIN candidates : left[m] = candidates[k]
    BY <2>10 DEF LoopInv
  <2>13. ASSUME NEW k \in DOMAIN candidates, candidates[k].who \notin Who(left)
         PROVE  Stale(blocks, k)
    <3>1. CASE candidates[k].who = c.who
      <4>1. k = i + 1
        BY <2>1, <3>1 DEF Distinct
      <4> QED
        BY <1>3, <4>1
    <3>2. CASE candidates[k].who # c.who
      <4>1. candidates[k].who \notin Who(s.left)
        <5> SUFFICES ASSUME candidates[k].who \in Who(s.left) PROVE FALSE
          OBVIOUS
        <5>1. PICK n \in DOMAIN s.left : s.left[n].who = candidates[k].who
          BY DEF Who
        <5>2. PICK m \in DOMAIN left : left[m] = s.left[n]
          BY <2>10, <3>2, <5>1
        <5>3. left[m].who \in Who(left)
          BY DEF Who
        <5> QED
          BY <2>13, <5>1, <5>2, <5>3
      <4> QED
        BY <4>1 DEF LoopInv
    <3> QED
      BY <3>1, <3>2
  <2>14. /\ Len(left) <= Len(candidates) /\ Len(left) >= MinCandidates
    <3>1. Len(s.left) \in Nat /\ Len(candidates) \in Nat
      BY <2>5, Domain
    <3>2. Len(s.left) <= Len(candidates) /\ Len(s.left) > MinCandidates
      BY <1>3 DEF LoopInv, MoreThanMinimum
    <3> QED
      BY <1>1, <2>10, <3>1, <3>2
  <2>15. PICK r : r = KickStep(blocks, s, i + 1) /\ r.left = left /\ r.ledger = ledger
    BY <2>4
  <2>16. LoopInv(blocks, i + 1, r)
    BY <2>9, <2>11, <2>12, <2>13, <2>14, <2>15 DEF LoopInv
  <2> QED
    BY <2>15, <2>16
<1> QED
  BY <1>2, <1>3

LEMMA KickStaleEffect ==
  ASSUME slashDestination \in Accounts \cup {None},
         NEW blocks, NEW ledger, Booked(candidates, ledger)
  PROVE  LoopInv(blocks, Len(candidates), KickStaleCandidates(blocks, ledger))
<1>1. candidates \in Seq(CandidateInfo) /\ Distinct(candidates)
  BY DEF Booked
<1>2. PICK N \in Nat : N = Len(candidates) /\ DOMAIN candidates = 1..N
  BY <1>1, Domain
<1>3. PICK g : LoopStates(blocks, ledger, N, g) /\ KickStaleCandidates(blocks, ledger) = g[N]
  BY <1>2, KickLoop
<1> DEFINE Good == {i \in 0..N : LoopInv(blocks, i, g[i])}
<1>4. 0 \in Good
  BY <1>3, LoopBegins DEF LoopStates
<1>5. ASSUME NEW i \in 0..(N - 1), i \in Good PROVE i + 1 \in Good
  <2>1. i \in Nat /\ i + 1 \in DOMAIN candidates /\ i + 1 \in 1..N /\ i + 1 \in 0..N
    BY <1>2
  <2>2. PICK s : s = g[i] /\ LoopInv(blocks, i, s)
    BY <1>5
  <2>3. g[i + 1] = KickStep(blocks, s, i + 1)
    <3>1. \A m \in 1..N : g[m] = KickStep(blocks, g[m - 1], m)
      BY <1>3 DEF LoopStates
    <3>2. (i + 1) - 1 = i
      BY <2>1
    <3> QED
      BY <2>1, <2>2, <3>1, <3>2
  <2>4. LoopInv(blocks, i + 1, KickStep(blocks, s, i + 1))
    BY <1>1, <2>1, <2>2, LoopGoesOn
  <2> QED
    BY <2>1, <2>3, <2>4
<1> HIDE DEF Good
<1>6. N \in Good
  BY <1>4, <1>5, UpToInduction
<1> QED
  BY <1>2, <1>3, <1>6 DEF Good

----------------------------------------------------------------------------
(* The invariant                                                           *)

ValidatorInv ==
  /\ ValidatorTypeOK
  /\ Booked(candidates, balances)

LEMMA ValidatorInit == Init => ValidatorInv
<1> SUFFICES ASSUME Init PROVE ValidatorInv
  OBVIOUS
<1>1. /\ SessionPeriod \in Nat \ {0} /\ KickThreshold \in Nat \ {0} /\ InitialBalance \in Nat
      /\ GenesisInvulnerables \subseteq GenesisKeys /\ GenesisKeys \subseteq Accounts /\ GenesisDesired \in Nat
      /\ GenesisBond \in Nat /\ SlashDestinations \subseteq Accounts \cup {None}
      /\ Pot \notin Accounts
  BY ValidatorAssumption
<1>2. candidates = <<>> /\ candidates \in Seq(CandidateInfo)
  BY DEF Init
<1>3. DOMAIN candidates = {} /\ Who(candidates) = {}
  BY <1>2 DEF Who
<1>4. /\ balances \in [Holders -> Account]
      /\ \A a \in Accounts : balances[a].reserved = 0
  BY <1>1 DEF Init, Holders, Account, EmptyAccount
<1>5. clock \in 0..(SessionPeriod - 1) /\ idle \in [Accounts -> (-KickThreshold)..MaxIdle]
  BY <1>1 DEF Init, MaxIdle
<1>6. Booked(candidates, balances)
  BY <1>2, <1>3, <1>4 DEF Booked, Distinct, LedgerOver
<1>7. ValidatorTypeOK
  BY <1>1, <1>2, <1>4, <1>5 DEF Init, ValidatorTypeOK
<1> QED
  BY <1>6, <1>7 DEF ValidatorInv

LEMMA ConfigurationKeeps ==
  ASSUME ValidatorInv,
         \/ \E new \in InvulnerableSets : SetInvulnerables(new)
         \/ \E max \in DesiredCounts : SetDesiredCandidates(max)
         \/ \E bond \in Bonds : SetCandidacyBond(bond)
  PROVE  ValidatorInv'
<1>1. /\ DesiredCounts \subseteq Nat /\ Bonds \subseteq Nat
      /\ \A new \in InvulnerableSets : new \subseteq Accounts
  BY ValidatorAssumption
<1>2. /\ UNCHANGED <<clock, idle, queued, validators, slashDestination, candidates, balances,
                     keys, waived>>
      /\ invulnerables' = invulnerables \/ invulnerables' \subseteq Accounts
      /\ desiredCandidates' = desiredCandidates \/ desiredCandidates' \in DesiredCounts
      /\ candidacyBond' = candidacyBond \/ candidacyBond' \in Bonds
  BY <1>1 DEF SetInvulnerables, SetDesiredCandidates, SetCandidacyBond, sessionVars
<1>3. Booked(candidates, balances)'
  BY <1>2 DEF ValidatorInv, Booked, Distinct, Who
<1>4. ValidatorTypeOK'
  BY <1>1, <1>2 DEF ValidatorInv, ValidatorTypeOK
<1> QED
  BY <1>3, <1>4 DEF ValidatorInv

LEMMA KeysKeep ==
  ASSUME ValidatorInv, NEW who \in Accounts, SetKeys(who) \/ PurgeKeys(who)
  PROVE  ValidatorInv'
<1>1. /\ UNCHANGED <<sessionVars, configVars, candidates, balances>>
      /\ keys' \subseteq Accounts /\ waived' \subseteq Accounts
  BY DEF SetKeys, PurgeKeys, ValidatorInv, ValidatorTypeOK
<1>2. Booked(candidates, balances)'
  BY <1>1 DEF ValidatorInv, Booked, Distinct, Who
<1>3. ValidatorTypeOK'
  BY <1>1 DEF ValidatorInv, ValidatorTypeOK, sessionVars, configVars
<1> QED
  BY <1>2, <1>3 DEF ValidatorInv

LEMMA BookedNow == ValidatorInv => Booked(candidates, balances) /\ balances \in LedgerOver(Holders)
BY DEF ValidatorInv, Booked

LEMMA DepositPotKeeps ==
  ASSUME ValidatorInv, NEW amount \in Fees, DepositPot(amount)
  PROVE  ValidatorInv'
<1>1. amount \in Nat /\ Pot \in Holders
  BY ValidatorAssumption DEF Holders
<1>2. PICK after : after = DepositCreating(balances, Pot, amount)
  OBVIOUS
<1>3. /\ after \in LedgerOver(Holders)
      /\ \A h \in Holders : h # Pot => after[h] = balances[h]
      /\ after[Pot].reserved = balances[Pot].reserved
  BY <1>1, <1>2, BookedNow, DepositEffect
<1>4. Booked(candidates, after)
  BY <1>3, BookedNow, FreeTokensMove
<1>5. balances' = after /\ UNCHANGED <<sessionVars, configVars, candidates, keys, waived>>
  BY <1>2 DEF DepositPot
<1>6. ValidatorTypeOK'
  BY <1>3, <1>5 DEF ValidatorInv, ValidatorTypeOK, sessionVars, configVars, LedgerOver
<1> QED
  BY <1>4, <1>5, <1>6 DEF ValidatorInv

LEMMA RegisterKeeps ==
  ASSUME ValidatorInv, NEW who \in Accounts, RegisterAsCandidate(who)
  PROVE  ValidatorInv' /\ Who(candidates') = Who(candidates) \cup {who}
<1>1. /\ who \notin Who(candidates) /\ who \in Holders
      /\ candidacyBond \in Nat /\ candidates \in Seq(CandidateInfo)
  BY DEF RegisterAsCandidate, IsCandidate, ValidatorInv, ValidatorTypeOK,
         Holders
<1>2. PICK after : after = Reserve(balances, who, candidacyBond)
  OBVIOUS
<1>3. /\ after \in LedgerOver(Holders)
      /\ \A h \in Holders : h # who => after[h] = balances[h]
      /\ after[who].reserved = balances[who].reserved + candidacyBond
  <2>1. CanReserve(balances, who, candidacyBond)
    BY DEF RegisterAsCandidate, ReserveDeposit
  <2>2. PICK bond \in Nat : bond = candidacyBond
    BY <1>1
  <2>3. CanReserve(balances, who, bond) /\ after = Reserve(balances, who, bond)
    BY <1>2, <2>1, <2>2
  <2>4. /\ after \in LedgerOver(Holders)
        /\ \A h \in Holders : h # who => after[h] = balances[h]
        /\ after[who].reserved = balances[who].reserved + bond
    BY <1>1, <2>2, <2>3, BookedNow, ReserveEffect
  <2> QED
    BY <2>2, <2>4
<1>4. after[who].reserved = candidacyBond
  <2>1. balances[who].reserved = 0
    BY <1>1, BookedNow DEF Booked
  <2> QED
    BY <1>1, <1>3, <2>1
<1>5. PICK c \in CandidateInfo : c = [who |-> who, deposit |-> candidacyBond]
  BY <1>1 DEF CandidateInfo
<1>6. PICK list : list = Append(candidates, c)
  OBVIOUS
<1>7. PICK n \in Nat : n = Len(candidates) /\ DOMAIN candidates = 1..n
  BY <1>1, Domain
<1>8. /\ list \in Seq(CandidateInfo) /\ Len(list) = n + 1
      /\ \A i \in 1..n : list[i] = candidates[i]
      /\ list[n + 1] = c
  BY <1>1, <1>5, <1>6, <1>7, AppendProperties
<1>9. DOMAIN list = 1..(n + 1) /\ \A i \in 1..(n + 1) : i \in 1..n \/ i = n + 1
  BY <1>7, <1>8, Domain
<1>10. c.who = who /\ c.deposit = candidacyBond
  BY <1>5
<1>11. \A i \in 1..n : candidates[i].who \in Who(candidates) /\ candidates[i].who \in Holders
  BY <1>1, <1>7, Domain DEF Who, Holders
<1>12. Distinct(list)
  <2>1. Distinct(candidates)
    BY BookedNow DEF Booked
  <2> QED
    BY <1>1, <1>7, <1>8, <1>9, <1>10, <1>11, <2>1 DEF Distinct
<1>13. \A i \in DOMAIN list : after[list[i].who].reserved = list[i].deposit
  <2>1. \A i \in 1..n : balances[candidates[i].who].reserved = candidates[i].deposit
    BY <1>7, BookedNow DEF Booked
  <2> QED
    BY <1>1, <1>3, <1>4, <1>8, <1>9, <1>10, <1>11, <2>1
<1>14. Who(list) = Who(candidates) \cup {who}
  <2>1. n + 1 \in DOMAIN list
    BY <1>7, <1>9
  <2>2. \A i \in 1..n : i \in DOMAIN list
    BY <1>7, <1>9
  <2> QED
    BY <1>7, <1>8, <1>9, <1>10, <2>1, <2>2 DEF Who
<1>15. ASSUME NEW a \in Accounts, a \notin Who(list) PROVE after[a].reserved = 0
  <2>1. a # who /\ a \notin Who(candidates) /\ a \in Holders
    BY <1>14, <1>15 DEF Holders
  <2>2. balances[a].reserved = 0
    BY <2>1, BookedNow DEF Booked
  <2> QED
    BY <1>3, <2>1, <2>2
<1>16. Booked(list, after)
  BY <1>3, <1>8, <1>12, <1>13, <1>15 DEF Booked
<1>17. /\ balances' = after /\ candidates' = list
       /\ idle' = [idle EXCEPT ![who] = GracePeriod]
       /\ waived' \subseteq waived \cup {who}
       /\ UNCHANGED <<clock, queued, validators, configVars, keys>>
  BY <1>2, <1>5, <1>6 DEF RegisterAsCandidate, ReserveDeposit
<1>18. ValidatorTypeOK'
  <2>1. KickThreshold \in Nat \ {0}
    BY ValidatorAssumption
  <2>2. idle' \in [Accounts -> (-KickThreshold)..MaxIdle]
    BY <1>17, <2>1 DEF ValidatorInv, ValidatorTypeOK, GracePeriod, MaxIdle
  <2> QED
    BY <1>3, <1>8, <1>17, <2>2 DEF ValidatorInv, ValidatorTypeOK, configVars, LedgerOver
<1> QED
  BY <1>14, <1>16, <1>17, <1>18 DEF ValidatorInv

LEMMA LeaveKeeps ==
  ASSUME ValidatorInv, NEW who \in Accounts, LeaveIntent(who)
  PROVE  /\ ValidatorInv' /\ Len(candidates') >= MinCandidates
         /\ Who(candidates') \subseteq Who(candidates) \ {who}
<1>1. /\ who \in Who(candidates) /\ candidates \in Seq(CandidateInfo) /\ Distinct(candidates)
  BY BookedNow DEF LeaveIntent, IsCandidate, Booked
<1>2. PICK p \in DOMAIN candidates : p = PositionOf(candidates, who) /\ candidates[p].who = who
  BY <1>1, Position
<1>3. PICK deposit \in Nat : deposit = DepositOf(who) /\ deposit = candidates[p].deposit
  BY <1>1, <1>2, Domain DEF DepositOf
<1>4. balances[who].reserved = deposit
  BY <1>2, <1>3, BookedNow DEF Booked
<1>5. PICK after : after = Unreserve(balances, who, deposit)
  OBVIOUS
<1>6. /\ after \in LedgerOver(Holders) /\ after[who].reserved = 0
      /\ \A h \in Holders : h # who => after[h].reserved = balances[h].reserved
  BY <1>4, <1>5, BookedNow, DepositReleased
<1>7. PICK left : left = RemoveCandidate(candidates, who)
  OBVIOUS
<1>8. Booked(left, after)
  BY <1>1, <1>6, <1>7, BookedNow, CandidateLeaves
<1>9. /\ left \in Seq(CandidateInfo) /\ Len(left) = Len(candidates) - 1
      /\ \A i \in DOMAIN left : \E j \in DOMAIN candidates :
           left[i] = candidates[j] /\ candidates[j].who # who
  BY <1>1, <1>7, RemoveCandidateEffect
<1>10. Who(left) \subseteq Who(candidates) \ {who}
  BY <1>9 DEF Who
<1>11. /\ balances' = after /\ candidates' = left /\ Len(candidates) > MinCandidates
       /\ idle' = [idle EXCEPT ![who] = MaxIdle]
       /\ waived' = waived \ {who}
       /\ UNCHANGED <<clock, queued, validators, configVars, keys>>
  BY <1>3, <1>5, <1>7 DEF LeaveIntent
<1>12. ValidatorTypeOK'
  <2>1. KickThreshold \in Nat \ {0}
    BY ValidatorAssumption
  <2>2. idle' \in [Accounts -> (-KickThreshold)..MaxIdle]
    BY <1>11, <2>1 DEF ValidatorInv, ValidatorTypeOK, MaxIdle
  <2> QED
    BY <1>6, <1>9, <1>11, <2>2 DEF ValidatorInv, ValidatorTypeOK, configVars, LedgerOver
<1>13. Len(left) >= MinCandidates
  BY <1>1, <1>9, <1>11, Domain, ValidatorAssumption
<1> QED
  BY <1>8, <1>10, <1>11, <1>12, <1>13 DEF ValidatorInv

----------------------------------------------------------------------------
(* Blocks                                                                  *)

LEMMA NoteAuthorType ==
  ASSUME ValidatorInv, NEW author \in Accounts
  PROVE  /\ NoteAuthor(author) \in [Accounts -> (-KickThreshold)..MaxIdle]
         /\ \A a \in Accounts : a # author => NoteAuthor(author)[a] <= idle[a] + 1
<1>1. KickThreshold \in Nat \ {0} /\ MaxIdle = KickThreshold
  BY ValidatorAssumption DEF MaxIdle
<1>2. \A a \in Accounts : idle[a] \in (-KickThreshold)..KickThreshold
  BY <1>1 DEF ValidatorInv, ValidatorTypeOK
<1> QED
  BY <1>1, <1>2 DEF NoteAuthor

LEMMA NoteWaiverType ==
  ASSUME ValidatorInv, NEW author \in Accounts
  PROVE  NoteWaiver(author) \subseteq Accounts
BY DEF NoteWaiver, ValidatorInv, ValidatorTypeOK

LEMMA PayAuthorBooked ==
  ASSUME ValidatorInv, NEW author \in Accounts
  PROVE  Booked(candidates, PayAuthor(author))
<1>1. /\ balances \in LedgerOver(Holders) /\ Booked(candidates, balances)
      /\ author \in Holders /\ Pot \in Holders /\ Pot # author
  BY BookedNow, ValidatorAssumption DEF Holders
<1>2. PICK reward : reward = SatSub(balances[Pot].free, ExistentialDeposit)
  OBVIOUS
<1>3. reward \in Nat /\ balances[Pot].free >= reward
  <2>1. balances[Pot].free \in Nat
    BY <1>1, AccountTokens
  <2> QED
    BY <1>2, <2>1, CurrencyAssumption DEF SatSub
<1>4. CASE CanTransferKeepAlive(balances, Pot, author, reward)
  <2>1. PICK after : after = Transfer(balances, Pot, author, reward)
    OBVIOUS
  <2>2. /\ after \in LedgerOver(Holders)
        /\ \A h \in Holders : h # Pot /\ h # author => after[h] = balances[h]
        /\ after[Pot].reserved = balances[Pot].reserved
        /\ after[author].reserved = balances[author].reserved
    BY <1>1, <1>3, <2>1, TransferEffect
  <2>3. Booked(candidates, after)
    BY <1>1, <2>2, FreeTokensMove
  <2> QED
    BY <1>2, <1>4, <2>1, <2>3 DEF PayAuthor
<1>5. CASE ~CanTransferKeepAlive(balances, Pot, author, reward)
  BY <1>1, <1>2, <1>5 DEF PayAuthor
<1> QED
  BY <1>4, <1>5

(* The clock of a session goes from 0 to the period minus 1.               *)
LEMMA ClockGoesOn ==
  ASSUME clock \in 0..(SessionPeriod - 1)
  PROVE  IF clock = SessionPeriod - 1 THEN NextClock = 0
         ELSE NextClock = clock + 1 /\ clock + 1 \in 1..(SessionPeriod - 1)
<1>1. SessionPeriod \in Nat \ {0}
  BY ValidatorAssumption
<1>2. \A n \in Nat \ {0} : (n % n) = 0
  OBVIOUS
<1>3. \A n \in Nat \ {0} : \A m \in 0..(n - 1) : (m % n) = m
  OBVIOUS
<1>4. CASE clock = SessionPeriod - 1
  <2>1. clock + 1 = SessionPeriod
    BY <1>1, <1>4
  <2> QED
    BY <1>1, <1>2, <1>4, <2>1 DEF NextClock
<1>5. CASE clock # SessionPeriod - 1
  <2>1. clock + 1 \in 1..(SessionPeriod - 1) /\ clock + 1 \in 0..(SessionPeriod - 1)
    BY <1>1, <1>5
  <2>2. ((clock + 1) % SessionPeriod) = clock + 1
    BY <1>1, <1>3, <2>1
  <2> QED
    BY <1>5, <2>1, <2>2 DEF NextClock
<1> QED
  BY <1>4, <1>5

LEMMA ContinueKeeps ==
  ASSUME ValidatorInv, NEW author \in Accounts, ContinueSession(author)
  PROVE  /\ ValidatorInv' /\ clock # SessionPeriod - 1 /\ clock' = clock + 1
         /\ clock' \in 1..(SessionPeriod - 1)
<1>1. clock \in 0..(SessionPeriod - 1) /\ NextClock # 0 /\ clock' = NextClock
  BY DEF ValidatorInv, ValidatorTypeOK, ContinueSession
<1>2. /\ clock # SessionPeriod - 1 /\ clock' = clock + 1 /\ clock' \in 1..(SessionPeriod - 1)
  BY <1>1, ClockGoesOn
<1>3. clock' \in 0..(SessionPeriod - 1)
  BY <1>2
<1>4. /\ idle' = NoteAuthor(author) /\ balances' = PayAuthor(author)
      /\ waived' \subseteq Accounts
      /\ UNCHANGED <<queued, validators, configVars, candidates, keys>>
  BY NoteWaiverType DEF ContinueSession
<1>5. Booked(candidates, PayAuthor(author))
  BY PayAuthorBooked
<1>6. Booked(candidates', balances')
  BY <1>4, <1>5
<1>7. idle' \in [Accounts -> (-KickThreshold)..MaxIdle] /\ balances' \in [Holders -> Account]
  BY <1>4, <1>6, NoteAuthorType DEF Booked, LedgerOver
<1>8. ValidatorTypeOK'
  BY <1>3, <1>4, <1>7 DEF ValidatorInv, ValidatorTypeOK, configVars
<1> QED
  BY <1>2, <1>6, <1>8 DEF ValidatorInv

(* What the loop leaves at the end of a session.                           *)
LEMMA SessionEnds ==
  ASSUME ValidatorInv, NEW author \in Accounts
  PROVE  LoopInv(NoteAuthor(author), Len(candidates), AfterSession(author))
<1>1. slashDestination \in Accounts \cup {None}
  BY DEF ValidatorInv, ValidatorTypeOK
<1> QED
  BY <1>1, PayAuthorBooked, KickStaleEffect DEF AfterSession

LEMMA RotateKeeps ==
  ASSUME ValidatorInv, NEW author \in Accounts, RotateSession(author)
  PROVE  /\ ValidatorInv' /\ clock = SessionPeriod - 1
         /\ Who(candidates') \subseteq Who(candidates)
         /\ Who(candidates') \cap keys \subseteq queued'
         /\ Len(candidates') < Len(candidates) => Len(candidates') >= MinCandidates
<1>1. clock \in 0..(SessionPeriod - 1) /\ NextClock = 0 /\ clock' = 0
  BY DEF ValidatorInv, ValidatorTypeOK, RotateSession
<1>2. clock = SessionPeriod - 1 /\ clock' \in 0..(SessionPeriod - 1)
  <2>1. SessionPeriod \in Nat \ {0}
    BY ValidatorAssumption
  <2>2. clock = SessionPeriod - 1
    BY <1>1, ClockGoesOn
  <2> QED
    BY <1>1, <2>1, <2>2
<1>3. PICK after : after = AfterSession(author)
  OBVIOUS
<1>4. LoopInv(NoteAuthor(author), Len(candidates), after)
  BY <1>3, SessionEnds
<1>5. /\ candidates' = after.left /\ balances' = after.ledger
      /\ queued' = (invulnerables \cup Who(candidates')) \cap keys
      /\ validators' = queued /\ waived' \subseteq Accounts
      /\ UNCHANGED <<configVars, keys>>
  BY <1>3, NoteWaiverType DEF RotateSession, AssembleValidators
<1>6. Booked(candidates', balances')
  BY <1>4, <1>5 DEF LoopInv
<1>7. Who(candidates') \subseteq Who(candidates)
  <2>1. \A j \in DOMAIN candidates' : \E k \in DOMAIN candidates : candidates'[j] = candidates[k]
    BY <1>4, <1>5 DEF LoopInv
  <2> QED
    BY <2>1 DEF Who
<1>8. queued' \subseteq Accounts /\ validators' \subseteq Accounts
  BY <1>5 DEF ValidatorInv, ValidatorTypeOK
<1>9. idle' \in [Accounts -> (-KickThreshold)..MaxIdle]
  <2>1. MaxIdle \in (-KickThreshold)..MaxIdle
    BY ValidatorAssumption DEF MaxIdle
  <2>2. PICK blocks \in [Accounts -> (-KickThreshold)..MaxIdle] : blocks = NoteAuthor(author)
    BY NoteAuthorType
  <2>3. idle' = [a \in Accounts |-> IF a \in Who(candidates) \ Who(candidates')
                                    THEN MaxIdle ELSE blocks[a]]
    BY <2>2 DEF RotateSession
  <2> QED
    BY <2>1, <2>2, <2>3
<1>10. candidates' \in Seq(CandidateInfo) /\ balances' \in [Holders -> Account]
  BY <1>6 DEF Booked, LedgerOver
<1>11. ValidatorTypeOK'
  BY <1>2, <1>5, <1>8, <1>9, <1>10 DEF ValidatorInv, ValidatorTypeOK, configVars
<1>12. Len(candidates') < Len(candidates) => Len(candidates') >= MinCandidates
  BY <1>4, <1>5 DEF LoopInv
<1>13. ValidatorInv'
  BY <1>6, <1>11 DEF ValidatorInv
<1> QED
  BY <1>2, <1>5, <1>7, <1>12, <1>13

LEMMA ValidatorNext == ValidatorInv /\ [Next]_vars => ValidatorInv'
<1> SUFFICES ASSUME ValidatorInv, [Next]_vars PROVE ValidatorInv'
  OBVIOUS
<1>1. CASE NewBlock
  BY <1>1, ContinueKeeps, RotateKeeps DEF NewBlock
<1>2. CASE \/ \E new \in InvulnerableSets : SetInvulnerables(new)
           \/ \E max \in DesiredCounts : SetDesiredCandidates(max)
           \/ \E bond \in Bonds : SetCandidacyBond(bond)
  BY <1>2, ConfigurationKeeps
<1>3. CASE \E who \in Accounts : RegisterAsCandidate(who) \/ LeaveIntent(who)
  BY <1>3, RegisterKeeps, LeaveKeeps
<1>4. CASE \E amount \in Fees : DepositPot(amount)
  BY <1>4, DepositPotKeeps
<1>5. CASE \E who \in KeyChangers : SetKeys(who) \/ PurgeKeys(who)
  BY <1>5, KeysKeep, ValidatorAssumption
<1>6. CASE UNCHANGED vars
  BY <1>6 DEF vars, sessionVars, configVars, ValidatorInv, ValidatorTypeOK, Booked, Distinct, Who
<1> QED
  BY <1>1, <1>2, <1>3, <1>4, <1>5, <1>6 DEF Next

(* The pallet keeps its types, whatever root sets, whoever registers and   *)
(* whatever happens to the session keys: no balance becomes negative.      *)
THEOREM ValidatorTypeCorrect == Spec => []ValidatorTypeOK
<1>1. ValidatorInv => ValidatorTypeOK
  BY DEF ValidatorInv
<1> QED
  BY <1>1, ValidatorInit, ValidatorNext, PTL DEF Spec

(* What is reserved of an account is exactly the deposit it made as a      *)
(* candidate: register_as_candidate, leave_intent and the slash of         *)
(* kick_stale_candidates, in any order and whatever the bond is meanwhile, *)
(* neither keep a token too long nor release one too early.                *)
THEOREM DepositsStayReserved == Spec => []DepositsReserved
<1>1. ValidatorInv => DepositsReserved
  <2> SUFFICES ASSUME ValidatorInv PROVE DepositsReserved
    OBVIOUS
  <2>1. Booked(candidates, balances) /\ candidates \in Seq(CandidateInfo)
    BY DEF ValidatorInv, Booked
  <2>2. ASSUME NEW a \in Accounts
        PROVE  balances[a].reserved = IF IsCandidate(a) THEN DepositOf(a) ELSE 0
    <3>1. CASE IsCandidate(a)
      <4>1. /\ PositionOf(candidates, a) \in DOMAIN candidates
            /\ candidates[PositionOf(candidates, a)].who = a
        BY <2>1, <3>1, Position DEF IsCandidate
      <4> QED
        BY <2>1, <3>1, <4>1 DEF Booked, DepositOf
    <3>2. CASE ~IsCandidate(a)
      BY <2>1, <3>2 DEF Booked, IsCandidate
    <3> QED
      BY <3>1, <3>2
  <2> QED
    BY <2>1, <2>2 DEF DepositsReserved, Booked, Distinct
<1> QED
  BY <1>1, ValidatorInit, ValidatorNext, PTL DEF Spec

(* However many candidates are stale at the end of a session, and however  *)
(* many want to leave, the minimum number stays.                           *)
THEOREM MinimumIsKept == Spec => MinimumKept
<1> DEFINE Kept == Len(candidates') < Len(candidates) => Len(candidates') >= MinCandidates
<1>1. ValidatorInv /\ [Next]_vars => [Kept]_vars
  <2> SUFFICES ASSUME ValidatorInv, Next PROVE Kept
    OBVIOUS
  <2>1. PICK n \in Nat : n = Len(candidates)
    BY BookedNow, Domain DEF Booked
  <2>2. ASSUME candidates' = candidates PROVE Kept
    BY <2>1, <2>2
  <2>3. ASSUME NEW author \in Accounts, ContinueSession(author) \/ RotateSession(author)
        PROVE  Kept
    BY <2>2, <2>3, RotateKeeps DEF ContinueSession
  <2>4. ASSUME NEW who \in Accounts, RegisterAsCandidate(who) PROVE Kept
    <3>1. candidates' = Append(candidates, [who |-> who, deposit |-> candidacyBond])
      BY <2>4 DEF RegisterAsCandidate
    <3>2. candidates \in Seq(CandidateInfo) /\ candidacyBond \in Nat
      BY DEF ValidatorInv, ValidatorTypeOK
    <3>3. [who |-> who, deposit |-> candidacyBond] \in CandidateInfo
      BY <3>2 DEF CandidateInfo
    <3>4. Len(candidates') = n + 1
      BY <2>1, <3>1, <3>2, <3>3, AppendProperties
    <3> QED
      BY <2>1, <3>4
  <2>5. ASSUME NEW who \in Accounts, LeaveIntent(who) PROVE Kept
    BY <2>5, LeaveKeeps
  <2>6. CASE \/ \E new \in InvulnerableSets : SetInvulnerables(new)
             \/ \E max \in DesiredCounts : SetDesiredCandidates(max)
             \/ \E bond \in Bonds : SetCandidacyBond(bond)
             \/ \E amount \in Fees : DepositPot(amount)
             \/ \E who \in KeyChangers : SetKeys(who) \/ PurgeKeys(who)
    BY <2>2, <2>6 DEF SetInvulnerables, SetDesiredCandidates, SetCandidacyBond, DepositPot,
                      SetKeys, PurgeKeys
  <2> QED
    BY <2>3, <2>4, <2>5, <2>6 DEF Next, NewBlock
<1> QED
  BY <1>1, ValidatorInit, ValidatorNext, PTL DEF Spec, MinimumKept

----------------------------------------------------------------------------
(* The grace period                                                        *)

(* As in both runtimes, where KickThreshold is SessionPeriod.              *)
SessionsShort == SessionPeriod <= KickThreshold

(* A candidate with the whole grace period has its session keys; until it  *)
(* is queued it has been idle for less than the part of this session that  *)
(* has passed, counted from the threshold before the session began, and    *)
(* until it is a validator for less than that and one session more.        *)
Grace ==
  \A a \in Who(candidates) \ waived :
    /\ a \in keys
    /\ a \notin queued => idle[a] <= clock - KickThreshold - 1
    /\ a \notin validators => idle[a] <= clock - KickThreshold + SessionPeriod - 1

LEMMA IdleType ==
  ValidatorInv => /\ clock \in Int
                  /\ Who(candidates) \subseteq Accounts
                  /\ \A a \in Accounts : idle[a] \in Int
<1> SUFFICES ASSUME ValidatorInv
             PROVE  /\ clock \in Int
                    /\ Who(candidates) \subseteq Accounts
                    /\ \A a \in Accounts : idle[a] \in Int
  OBVIOUS
<1>1. Who(candidates) \subseteq Accounts
  BY WhoAccounts DEF ValidatorInv, ValidatorTypeOK
<1> QED
  BY <1>1, ValidatorAssumption DEF ValidatorInv, ValidatorTypeOK, MaxIdle

LEMMA GraceSuffices ==
  ASSUME SessionsShort, ValidatorInv, Grace, NEW author \in Accounts, RotateSession(author)
  PROVE  KickedAccounts(author) \subseteq validators \cup waived
<1> SUFFICES ASSUME NEW a \in KickedAccounts(author), a \notin validators, a \notin waived
             PROVE  FALSE
  OBVIOUS
<1>1. PICK blocks : blocks = NoteAuthor(author)
  OBVIOUS
<1>2. LoopInv(blocks, Len(candidates), AfterSession(author))
  BY <1>1, SessionEnds
<1>3. a \in Who(candidates) /\ a \notin Who(AfterSession(author).left)
  BY DEF KickedAccounts
<1>4. PICK k \in DOMAIN candidates : candidates[k].who = a
  BY <1>3 DEF Who
<1>5. blocks[a] >= KickThreshold
  BY <1>2, <1>3, <1>4 DEF LoopInv, Stale
<1>6. /\ idle[a] <= clock - KickThreshold + SessionPeriod - 1
      /\ a \in Accounts /\ idle[a] \in Int /\ clock \in Int
  BY <1>3, IdleType DEF Grace
<1>7. clock = SessionPeriod - 1 /\ a # author
  BY RotateKeeps DEF RotateSession
<1>8. blocks[a] \in Int /\ blocks[a] <= idle[a] + 1
  <2>1. KickThreshold \in Nat /\ MaxIdle \in Nat
    BY ValidatorAssumption DEF MaxIdle
  <2> QED
    BY <1>1, <1>6, <1>7, <2>1, NoteAuthorType
<1>9. SessionPeriod \in Nat \ {0} /\ KickThreshold \in Nat \ {0}
  BY ValidatorAssumption
<1> QED
  BY <1>5, <1>6, <1>7, <1>8, <1>9 DEF SessionsShort

LEMMA GraceInit == Init => Grace
<1> SUFFICES ASSUME Init PROVE Grace
  OBVIOUS
<1>1. Who(candidates) = {}
  BY DEF Init, Who
<1> QED
  BY <1>1 DEF Grace

(* A block counts for every candidate but its author, who is a validator.  *)
LEMMA GraceOfOthers ==
  ASSUME ValidatorInv, Grace, NEW author \in validators, author \in Accounts,
         NEW a \in Who(candidates), a \notin NoteWaiver(author)
  PROVE  /\ a \in keys
         /\ a \notin queued =>
              NoteAuthor(author)[a] <= (clock + 1) - KickThreshold - 1
         /\ a \notin validators =>
              NoteAuthor(author)[a] <= (clock + 1) - KickThreshold + SessionPeriod - 1
<1>1. /\ clock \in Int /\ a \in Accounts /\ idle[a] \in Int
      /\ KickThreshold \in Nat \ {0} /\ SessionPeriod \in Nat \ {0} /\ MaxIdle \in Nat
  BY IdleType, ValidatorAssumption DEF MaxIdle
<1>2. a \in Who(candidates) \ waived /\ (a = author => a \in queued)
  BY DEF NoteWaiver
<1>3. /\ a \in keys
      /\ a \notin queued => idle[a] <= clock - KickThreshold - 1
      /\ a \notin validators => idle[a] <= clock - KickThreshold + SessionPeriod - 1
  BY <1>2 DEF Grace
<1>4. /\ NoteAuthor(author)[a] \in Int
      /\ a # author => NoteAuthor(author)[a] <= idle[a] + 1
  BY <1>1, NoteAuthorType
<1> QED
  BY <1>1, <1>2, <1>3, <1>4

LEMMA GraceNext ==
  ASSUME ValidatorInv, Grace, [Next]_vars
  PROVE  Grace'
<1>1. /\ clock \in Int /\ Who(candidates) \subseteq Accounts
      /\ \A a \in Accounts : idle[a] \in Int
  BY IdleType
<1>2. /\ clock \in 0..(SessionPeriod - 1) /\ KickThreshold \in Nat \ {0}
      /\ SessionPeriod \in Nat \ {0}
  BY ValidatorAssumption DEF ValidatorInv, ValidatorTypeOK
<1>3. ASSUME UNCHANGED <<clock, idle, queued, validators, candidates>>,
             \A a \in Who(candidates) \ waived' :
               a \notin waived /\ (a \in keys => a \in keys')
      PROVE  Grace'
  BY <1>3 DEF Grace
<1>4. ASSUME NEW author \in Accounts, ContinueSession(author) PROVE Grace'
  <2>1. clock' = clock + 1 /\ author \in validators
    BY <1>4, ContinueKeeps DEF ContinueSession
  <2>2. /\ idle' = NoteAuthor(author) /\ waived' = NoteWaiver(author)
        /\ UNCHANGED <<queued, validators, candidates, keys>>
    BY <1>4 DEF ContinueSession
  <2>3. ASSUME NEW a \in Who(candidates), a \notin NoteWaiver(author)
        PROVE  /\ a \in keys
               /\ a \notin queued => NoteAuthor(author)[a] <= clock' - KickThreshold - 1
               /\ a \notin validators =>
                    NoteAuthor(author)[a] <= clock' - KickThreshold + SessionPeriod - 1
    <3>1. /\ a \in keys
          /\ a \notin queued => NoteAuthor(author)[a] <= (clock + 1) - KickThreshold - 1
          /\ a \notin validators =>
               NoteAuthor(author)[a] <= (clock + 1) - KickThreshold + SessionPeriod - 1
      BY <2>1, <2>3, GraceOfOthers
    <3> QED
      BY <2>1, <3>1
  <2> QED
    BY <2>2, <2>3 DEF Grace
<1>5. ASSUME NEW author \in Accounts, RotateSession(author) PROVE Grace'
  <2>1. /\ Who(candidates') \subseteq Who(candidates) /\ clock = SessionPeriod - 1
        /\ Who(candidates') \cap keys \subseteq queued'
    BY <1>5, RotateKeeps
  <2>2. /\ author \in validators /\ clock' = 0 /\ validators' = queued /\ keys' = keys
        /\ waived' = NoteWaiver(author) \cap Who(candidates')
        /\ \A a \in Accounts \cap Who(candidates') : idle'[a] = NoteAuthor(author)[a]
    BY <1>5 DEF RotateSession
  <2> SUFFICES ASSUME NEW a \in Who(candidates'), a \notin waived'
               PROVE  /\ a \in keys' /\ a \in queued'
                      /\ a \notin validators' =>
                           idle'[a] <= clock' - KickThreshold + SessionPeriod - 1
    BY DEF Grace
  <2>3. a \in Who(candidates) /\ a \in Accounts /\ a \notin NoteWaiver(author)
    BY <1>1, <2>1, <2>2
  <2>4. /\ a \in keys
        /\ a \notin queued => NoteAuthor(author)[a] <= (clock + 1) - KickThreshold - 1
    BY <2>2, <2>3, GraceOfOthers
  <2>5. idle'[a] = NoteAuthor(author)[a]
    BY <2>2, <2>3
  <2>6. a \notin queued => idle'[a] <= SessionPeriod - KickThreshold - 1
    BY <1>2, <2>1, <2>4, <2>5
  <2>7. clock' - KickThreshold + SessionPeriod - 1 = SessionPeriod - KickThreshold - 1
    BY <1>2, <2>2
  <2> QED
    BY <2>1, <2>2, <2>4, <2>6, <2>7
<1>6. ASSUME NEW who \in Accounts, RegisterAsCandidate(who) PROVE Grace'
  <2>1. Who(candidates') = Who(candidates) \cup {who}
    BY <1>6, RegisterKeeps
  <2>2. /\ idle' = [idle EXCEPT ![who] = -KickThreshold]
        /\ UNCHANGED <<clock, queued, validators, keys>>
        /\ idle \in [Accounts -> (-KickThreshold)..MaxIdle]
        /\ who \in keys
        /\ waived' = IF clock = 0 THEN waived \cup {who} ELSE waived
    BY <1>6 DEF RegisterAsCandidate, GracePeriod, ValidatorInv, ValidatorTypeOK, AllRegistered
  <2> SUFFICES ASSUME NEW a \in Who(candidates) \cup {who}, a \notin waived'
               PROVE  /\ a \in keys
                      /\ a \notin queued => idle'[a] <= clock - KickThreshold - 1
                      /\ a \notin validators =>
                           idle'[a] <= clock - KickThreshold + SessionPeriod - 1
    BY <2>1, <2>2 DEF Grace
  <2>3. CASE a = who
    <3>1. idle'[a] = -KickThreshold /\ clock >= 1
      BY <1>2, <2>2, <2>3
    <3> QED
      BY <1>2, <2>2, <2>3, <3>1
  <2>4. CASE a # who
    <3>1. a \in Who(candidates) /\ a \in Accounts /\ idle'[a] = idle[a] /\ a \notin waived
      BY <1>1, <2>2, <2>4
    <3> QED
      BY <3>1 DEF Grace
  <2> QED
    BY <2>3, <2>4
<1>7. ASSUME NEW who \in Accounts, LeaveIntent(who) PROVE Grace'
  <2>1. Who(candidates') \subseteq Who(candidates) \ {who}
    BY <1>7, LeaveKeeps
  <2>2. /\ idle' = [idle EXCEPT ![who] = MaxIdle] /\ waived' = waived \ {who}
        /\ UNCHANGED <<clock, queued, validators, keys>>
        /\ idle \in [Accounts -> (-KickThreshold)..MaxIdle]
    BY <1>7 DEF LeaveIntent, ValidatorInv, ValidatorTypeOK
  <2> SUFFICES ASSUME NEW a \in Who(candidates'), a \notin waived'
               PROVE  /\ a \in keys
                      /\ a \notin queued => idle'[a] <= clock - KickThreshold - 1
                      /\ a \notin validators =>
                           idle'[a] <= clock - KickThreshold + SessionPeriod - 1
    BY <2>2 DEF Grace
  <2>3. a \in Who(candidates) /\ a # who /\ a \in Accounts /\ a \notin waived
    BY <1>1, <2>1, <2>2
  <2>4. idle'[a] = idle[a]
    BY <2>2, <2>3
  <2> QED
    BY <2>3, <2>4 DEF Grace
<1>8. CASE \/ \E new \in InvulnerableSets : SetInvulnerables(new)
           \/ \E max \in DesiredCounts : SetDesiredCandidates(max)
           \/ \E bond \in Bonds : SetCandidacyBond(bond)
           \/ \E amount \in Fees : DepositPot(amount)
           \/ UNCHANGED vars
  <2>1. UNCHANGED <<clock, idle, queued, validators, candidates, keys, waived>>
    BY <1>8 DEF SetInvulnerables, SetDesiredCandidates, SetCandidacyBond, DepositPot,
                vars, sessionVars
  <2> QED
    BY <1>3, <2>1
<1>9. ASSUME NEW who \in KeyChangers, SetKeys(who) \/ PurgeKeys(who) PROVE Grace'
  <2>1. UNCHANGED <<clock, idle, queued, validators, candidates>>
    BY <1>9 DEF SetKeys, PurgeKeys, sessionVars
  <2>2. \A a \in Who(candidates) \ waived' : a \notin waived /\ (a \in keys => a \in keys')
    BY <1>9 DEF SetKeys, PurgeKeys
  <2> QED
    BY <1>3, <2>1, <2>2
<1> QED
  BY <1>4, <1>5, <1>6, <1>7, <1>8, <1>9 DEF Next, NewBlock

(* The grace period that register_as_candidate grants is long enough: who  *)
(* registers after the first block of a session, keeps its session keys    *)
(* and authors no block of a former term in between is removed and slashed *)
(* by kick_stale_candidates only after a session as a validator.           *)
THEOREM KickedOnlyAfterTerm == ASSUME SessionsShort PROVE Spec => KickedAfterTerm
<1>1. ValidatorInv /\ Grace =>
        [\A author \in Accounts :
           RotateSession(author) =>
             KickedAccounts(author) \subseteq validators \cup waived]_vars
  BY GraceSuffices
<1>2. ValidatorInv /\ Grace /\ [Next]_vars => Grace'
  BY GraceNext
<1> QED
  BY <1>1, <1>2, GraceInit, ValidatorInit, ValidatorNext, PTL DEF Spec, KickedAfterTerm
=============================================================================
