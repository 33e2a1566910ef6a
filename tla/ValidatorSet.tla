---------------------------- MODULE ValidatorSet ----------------------------
(***************************************************************************)
(* The validator set pallet (pallets/validator-set) with the sessions that *)
(* call it: invulnerables and candidates form the validator set of the     *)
(* session after next, the author of a block is paid what is in the pot,   *)
(* and candidates that produce no blocks are removed and slashed.          *)
(*                                                                         *)
(* Only distances between block numbers matter, so the block number is     *)
(* kept modulo the session period and LastAuthoredBlock as the number of   *)
(* blocks that have passed since.                                          *)
(***************************************************************************)
EXTENDS Integers, Sequences, FiniteSets, FiniteSetsExt, SequencesExt,
        Perbill, Currency

CONSTANTS
  Accounts,
  Pot,                   \* the pallet's own account, account_id()
  None,                  \* no slash destination is stored
  GenesisKeys,           \* accounts with session keys at genesis
  SessionPeriod,         \* blocks of a session

  MinCandidates,         \* the pallet's Config
  KickThreshold,
  SlashRatio,            \* a Perbill

  GenesisInvulnerables,  \* the genesis configuration
  GenesisDesired,
  GenesisBond,

  InitialBalance,        \* inputs and bounds of an instance
  InvulnerableSets,      \* arguments of set_invulnerables
  DesiredCounts,         \* arguments of set_desired_candidates
  Bonds,                 \* arguments of set_candidacy_bond
  Fees,                  \* amounts the pot receives
  KeyChangers,           \* accounts that call set_keys and purge_keys
  SlashDestinations,     \* values of SlashDestination, None among them
  MaxIssuance            \* bound on the tokens in existence

ASSUME ValidatorAssumption ==
  /\ IsFiniteSet(Accounts)
  /\ Pot \notin Accounts
  /\ None \notin Accounts
  /\ GenesisKeys \subseteq Accounts
  /\ SessionPeriod \in Nat \ {0}
  /\ MinCandidates \in Nat
  /\ KickThreshold \in Nat \ {0}
  /\ SlashRatio \in Parts
  /\ GenesisInvulnerables \subseteq GenesisKeys
  /\ GenesisDesired \in Nat
  /\ GenesisBond \in Nat
  /\ InitialBalance \in Nat
  /\ InvulnerableSets \subseteq SUBSET Accounts
  /\ DesiredCounts \subseteq Nat
  /\ Bonds \subseteq Nat
  /\ Fees \subseteq Nat
  /\ KeyChangers \subseteq Accounts
  /\ SlashDestinations \subseteq Accounts \cup {None}
  /\ MaxIssuance \in Nat

Holders == Accounts \cup {Pot}

(* Blocks since the last one authored are counted up to the threshold,     *)
(* from where on they all count alike; negative in the grace period.       *)
MaxIdle == KickThreshold

VARIABLES
  clock,              \* block number modulo SessionPeriod
  invulnerables,      \* Invulnerables
  candidates,         \* Candidates: who and with which deposit, in order
  idle,               \* block number minus LastAuthoredBlock
  desiredCandidates,  \* DesiredCandidates
  candidacyBond,      \* CandidacyBond
  slashDestination,   \* SlashDestination; no call of the pallet sets it
  keys,               \* accounts with session keys (pallet_session)
  queued,             \* validators of the next session (pallet_session)
  validators,         \* validators of the current session (pallet_session)
  balances,           \* the accounts of pallet_balances
  waived              \* history: candidates with less than the whole grace

sessionVars == <<clock, idle, queued, validators>>

configVars == <<invulnerables, desiredCandidates, candidacyBond,
                slashDestination>>

vars == <<sessionVars, configVars, candidates, balances, keys, waived>>

CandidateInfo == [who : Accounts, deposit : Nat]

Who(list) == {list[i].who : i \in DOMAIN list}

IsCandidate(a) == a \in Who(candidates)

PositionOf(list, a) == CHOOSE i \in DOMAIN list : list[i].who = a

DepositOf(a) == candidates[PositionOf(candidates, a)].deposit

RemoveCandidate(list, a) == RemoveAt(list, PositionOf(list, a))

Issuance ==
  MapThenSumSet(LAMBDA h : balances[h].free + balances[h].reserved, Holders)

----------------------------------------------------------------------------
(* Genesis: pallet_session starts with the invulnerables, now and next.    *)
Init ==
  /\ clock = 0
  /\ invulnerables = GenesisInvulnerables
  /\ candidates = <<>>
  /\ idle = [a \in Accounts |-> 0]
  /\ desiredCandidates = GenesisDesired
  /\ candidacyBond = GenesisBond
  /\ slashDestination \in SlashDestinations
  /\ keys = GenesisKeys
  /\ queued = GenesisInvulnerables
  /\ validators = GenesisInvulnerables
  /\ balances = [h \in Holders |->
                   IF h = Pot THEN EmptyAccount
                   ELSE [free |-> InitialBalance, reserved |-> 0]]
  /\ waived = {}

----------------------------------------------------------------------------
(* The calls of root                                                       *)

AllRegistered(new) == new \subseteq keys

SetInvulnerables(new) ==
  /\ AllRegistered(new)
  /\ invulnerables' = new
  /\ UNCHANGED <<sessionVars, desiredCandidates, candidacyBond,
                 slashDestination, candidates, balances, keys, waived>>

SetDesiredCandidates(max) ==
  /\ desiredCandidates' = max
  /\ UNCHANGED <<sessionVars, invulnerables, candidacyBond,
                 slashDestination, candidates, balances, keys, waived>>

SetCandidacyBond(bond) ==
  /\ candidacyBond' = bond
  /\ UNCHANGED <<sessionVars, invulnerables, desiredCandidates,
                 slashDestination, candidates, balances, keys, waived>>

----------------------------------------------------------------------------
(* The calls of accounts                                                   *)

(* Faulty: one block less.                                                 *)
ShortGracePeriod == 1 - KickThreshold

(* LastAuthoredBlock is set to the current block plus the threshold.       *)
GracePeriod == -KickThreshold

(* Faulty: the deposit is taken whether or not it is there.                *)
TakeDeposit(who) == balances' = Reserve(balances, who, candidacyBond)

ReserveDeposit(who) ==
  /\ CanReserve(balances, who, candidacyBond)
  /\ balances' = Reserve(balances, who, candidacyBond)

RegisterAsCandidate(who) ==
  /\ Len(candidates) < desiredCandidates
  /\ who \notin invulnerables
  /\ AllRegistered({who})
  /\ ~IsCandidate(who)
  /\ ReserveDeposit(who)
  /\ candidates' =
       Append(candidates, [who |-> who, deposit |-> candidacyBond])
  /\ idle' = [idle EXCEPT ![who] = GracePeriod]
  /\ waived' = IF clock = 0 THEN waived \cup {who} ELSE waived
  /\ UNCHANGED <<clock, queued, validators, configVars, keys>>

(* try_remove_candidate without a slash; the entry of LastAuthoredBlock    *)
(* goes, so that the account counts from block 0.                          *)
LeaveIntent(who) ==
  /\ Len(candidates) > MinCandidates
  /\ IsCandidate(who)
  /\ balances' = Unreserve(balances, who, DepositOf(who))
  /\ candidates' = RemoveCandidate(candidates, who)
  /\ idle' = [idle EXCEPT ![who] = MaxIdle]
  /\ waived' = waived \ {who}
  /\ UNCHANGED <<clock, queued, validators, configVars, keys>>

----------------------------------------------------------------------------
(* The calls of pallet_session                                             *)

SetKeys(who) ==
  /\ keys' = keys \cup {who}
  /\ UNCHANGED <<sessionVars, configVars, candidates, balances, waived>>

PurgeKeys(who) ==
  /\ who \in keys
  /\ keys' = keys \ {who}
  /\ waived' = waived \cup ({who} \cap Who(candidates))
  /\ UNCHANGED <<sessionVars, configVars, candidates, balances>>

----------------------------------------------------------------------------
(* A block begins: its author is noted and paid, then the session may end. *)

(* note_author pays out the pot but for the minimum balance; a transfer    *)
(* that fails changes nothing.                                             *)
PayAuthor(author) ==
  LET reward == SatSub(balances[Pot].free, ExistentialDeposit)
  IN  IF CanTransferKeepAlive(balances, Pot, author, reward)
      THEN Transfer(balances, Pot, author, reward)
      ELSE balances

NoteAuthor(author) ==
  [a \in Accounts |->
     IF a = author THEN 0
     ELSE IF idle[a] < MaxIdle THEN idle[a] + 1 ELSE MaxIdle]

(* The block of a former term replaces the later block that was noted when *)
(* the author registered again.                                            *)
NoteWaiver(author) ==
  waived \cup ({author} \cap (Who(candidates) \ queued))

Stale(blocks, i) == blocks[candidates[i].who] >= KickThreshold

(* Faulty: the number of candidates is read once, before the loop.         *)
MoreThanMinimumBefore(left) == Len(candidates) > MinCandidates

(* Faulty: the loop keeps the desired number of candidates.                *)
MoreThanDesired(left) == Len(left) > desiredCandidates

MoreThanMinimum(left) == Len(left) > MinCandidates

SlashAmount(c) == PerbillMul(SlashRatio, c.deposit)

(* Faulty: only the slashed part leaves the reserve.                       *)
SlashOnly(ledger, c) == SlashReserved(ledger, c.who, SlashAmount(c))

SlashAndRelease(ledger, c) ==
  Unreserve(SlashReserved(ledger, c.who, SlashAmount(c)), c.who,
            c.deposit - SlashAmount(c))

(* What is slashed goes to the slash destination, or nowhere.              *)
ResolveSlash(ledger, amount) ==
  IF slashDestination = None THEN ledger
  ELSE DepositCreating(ledger, slashDestination, amount)

(* The loop body of kick_stale_candidates: try_remove_candidate with a     *)
(* slash, if the i-th candidate is stale and more than the minimum of them *)
(* are left.                                                               *)
KickStep(blocks, before, i) ==
  LET c == candidates[i]
  IN  IF Stale(blocks, i) /\ MoreThanMinimum(before.left)
      THEN [left   |-> RemoveCandidate(before.left, c.who),
            ledger |-> ResolveSlash(SlashAndRelease(before.ledger, c), SlashAmount(c))]
      ELSE before

(* kick_stale_candidates goes through the candidates in order.             *)
KickStaleCandidates(blocks, ledger) ==
  LET after[i \in 0..Len(candidates)] ==
        IF i = 0 THEN [left |-> candidates, ledger |-> ledger]
        ELSE KickStep(blocks, after[i - 1], i)
  IN  after[Len(candidates)]

(* Faulty: the candidates join the set of the session before.              *)
AssembleOntoQueued(active) == queued \cup active

(* Faulty: the candidates are left out.                                    *)
AssembleInvulnerables(active) == invulnerables

AssembleValidators(active) == invulnerables \cup active

NextClock == (clock + 1) % SessionPeriod

ContinueSession(author) ==
  /\ author \in validators
  /\ NextClock # 0
  /\ clock' = NextClock
  /\ idle' = NoteAuthor(author)
  /\ balances' = PayAuthor(author)
  /\ waived' = NoteWaiver(author)
  /\ UNCHANGED <<queued, validators, configVars, candidates, keys>>

(* Candidates and ledger after the block of this author ended a session.   *)
AfterSession(author) == KickStaleCandidates(NoteAuthor(author), PayAuthor(author))

KickedAccounts(author) == Who(candidates) \ Who(AfterSession(author).left)

(* pallet_session: the queued validators take over, and of those that      *)
(* new_session names the ones with session keys are queued next.           *)
RotateSession(author) ==
  /\ author \in validators
  /\ NextClock = 0
  /\ clock' = 0
  /\ validators' = queued
  /\ \E after \in {AfterSession(author)} :
       /\ candidates' = after.left
       /\ balances' = after.ledger
       /\ queued' = AssembleValidators(Who(candidates')) \cap keys
  /\ idle' = [a \in Accounts |->
                IF a \in Who(candidates) \ Who(candidates') THEN MaxIdle
                ELSE NoteAuthor(author)[a]]
  /\ waived' = NoteWaiver(author) \cap Who(candidates')
  /\ UNCHANGED <<configVars, keys>>

NewBlock == \E author \in Accounts : ContinueSession(author) \/ RotateSession(author)

(* ToValidatorPot: fees and the validators' part of the block reward.      *)
DepositPot(amount) ==
  /\ Issuance + amount <= MaxIssuance
  /\ balances' = DepositCreating(balances, Pot, amount)
  /\ UNCHANGED <<sessionVars, configVars, candidates, keys, waived>>

----------------------------------------------------------------------------
Next ==
  \/ NewBlock
  \/ \E new \in InvulnerableSets : SetInvulnerables(new)
  \/ \E max \in DesiredCounts : SetDesiredCandidates(max)
  \/ \E bond \in Bonds : SetCandidacyBond(bond)
  \/ \E who \in Accounts : RegisterAsCandidate(who) \/ LeaveIntent(who)
  \/ \E who \in KeyChangers : SetKeys(who) \/ PurgeKeys(who)
  \/ \E amount \in Fees : DepositPot(amount)

(* The validators go on producing blocks; nobody has to make a call, and   *)
(* no particular validator has to author.                                  *)
Spec == Init /\ [][Next]_vars /\ WF_vars(NewBlock)

----------------------------------------------------------------------------
(* Properties                                                              *)

(* Every storage item has its type; no balance becomes negative.           *)
ValidatorTypeOK ==
  /\ clock \in 0..(SessionPeriod - 1)
  /\ invulnerables \subseteq Accounts
  /\ candidates \in Seq(CandidateInfo)
  /\ idle \in [Accounts -> (-KickThreshold)..MaxIdle]
  /\ desiredCandidates \in Nat
  /\ candidacyBond \in Nat
  /\ slashDestination \in Accounts \cup {None}
  /\ keys \subseteq Accounts
  /\ queued \subseteq Accounts
  /\ validators \subseteq Accounts
  /\ balances \in [Holders -> Account]
  /\ waived \subseteq Accounts

(* Nobody is a candidate twice, and what an account has reserved is the    *)
(* deposit it made as a candidate, whatever the bond is now: leaving and   *)
(* being kicked release all of it.                                         *)
DepositsReserved ==
  /\ \A i, j \in DOMAIN candidates :
       candidates[i].who = candidates[j].who => i = j
  /\ \A a \in Accounts :
       balances[a].reserved = IF IsCandidate(a) THEN DepositOf(a) ELSE 0

(* Neither leave_intent nor a kick takes the candidates below the minimum. *)
MinimumKept ==
  [][Len(candidates') < Len(candidates) => Len(candidates') >= MinCandidates]_vars

(* The grace period covers the session in which a candidate registers and  *)
(* the one it waits in: it is kicked only after a session in which it was  *)
(* a validator. Three kinds of candidates have less: who registers in the  *)
(* first block of a session, who purges its session keys, and who comes    *)
(* back and then authors a block of its former term.                       *)
KickedAfterTerm ==
  [][\A author \in Accounts :
       RotateSession(author) =>
         KickedAccounts(author) \subseteq validators \cup waived]_vars

(* A candidate that authors no blocks is kicked, also one that cannot      *)
(* because it has no session keys any more, unless the minimum number of   *)
(* candidates is reached.                                                  *)
IdleCandidatesKicked ==
  \A a \in Accounts :
    []<>(~IsCandidate(a) \/ idle[a] < KickThreshold
           \/ Len(candidates) <= MinCandidates)

(* A candidate that neither leaves nor is kicked becomes a validator if it *)
(* keeps its session keys.                                                 *)
CandidatesElected ==
  \A a \in Accounts :
    IsCandidate(a) ~> (a \in validators \/ ~IsCandidate(a) \/ a \notin keys)

(* Who is no longer a candidate or an invulnerable stops being a validator *)
(* unless it becomes one of them again.                                    *)
LeaversRetire ==
  \A a \in Accounts :
    (~IsCandidate(a) /\ a \notin invulnerables)
      ~> (a \notin validators \/ IsCandidate(a) \/ a \in invulnerables)
=============================================================================
