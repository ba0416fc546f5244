---------------------------- MODULE BooksProofs ----------------------------
(***************************************************************************)
(* The money of the whole contract: every message moves it as module       *)
(* Ledger says, so that the balance covers whatever the contract owes.     *)
(***************************************************************************)
EXTENDS WinsafProofs, ReferralProofs

\* What the books rest on: the composition's invariant, the referral ledger's,
\* and the types of the treasury.
BooksInv == WinsafInv /\ ReferralInv /\ TreasuryTypeOK

-----------------------------------------------------------------------------
(* The pools of a map of rounds *)

PoolOf(rs) == [r \in DOMAIN rs |-> rs[r].pool]

LEMMA PoolOfType ==
  ASSUME NEW n \in Nat, NEW rs \in [1..n -> Round]
  PROVE  PoolOf(rs) \in [1..n -> Nat] /\ IsFiniteSet(1..n)
<1>1. \A r \in 1..n : rs[r].pool \in Nat
  BY DEF Round
<1>2. IsFiniteSet(1..n)
  BY FS_Interval
<1> QED  BY <1>1, <1>2 DEF PoolOf

LEMMA PoolsSame ==
  ASSUME DOMAIN rounds' = DOMAIN rounds, \A r \in DOMAIN rounds : rounds'[r].pool = rounds[r].pool
  PROVE  TotalPools' = TotalPools
<1>1. PoolOf(rounds') = PoolOf(rounds)
  BY DEF PoolOf
<1> QED  BY <1>1 DEF TotalPools, PoolOf

\* One round's pool changes.
LEMMA PoolsChanged ==
  ASSUME LotteryInv, LotteryInv', NEW r \in DOMAIN rounds, DOMAIN rounds' = DOMAIN rounds,
         \A x \in DOMAIN rounds \ {r} : rounds'[x] = rounds[x]
  PROVE  TotalPools' = TotalPools - rounds[r].pool + rounds'[r].pool
<1>1. /\ current_round \in Nat /\ current_round' \in Nat
      /\ rounds \in [1..current_round -> Round] /\ rounds' \in [1..current_round' -> Round]
      /\ DOMAIN rounds = 1..current_round /\ 1..current_round' = 1..current_round
  BY DEF LotteryInv, TypeOK
<1> DEFINE f == PoolOf(rounds)
           g == PoolOf(rounds')
           S == DOMAIN rounds
<1>2. f \in [S -> Nat] /\ g \in [S -> Nat] /\ IsFiniteSet(S)
  BY <1>1, PoolOfType
<1>3. /\ \A x \in S \ {r} : g[x] = f[x]
      /\ f[r] = rounds[r].pool /\ g[r] = rounds'[r].pool
  BY DEF PoolOf
<1>4. TotalPools = SumFunction(f) /\ TotalPools' = SumFunction(g)
  BY DEF TotalPools, PoolOf
<1> HIDE DEF f, g
<1>5. SumFunction(g) = SumFunction(f) - f[r] + g[r]
  BY <1>2, <1>3, TotalChanged
<1> QED  BY <1>3, <1>4, <1>5

\* A round finishes and the next one opens.
LEMMA PoolsTurned ==
  ASSUME LotteryInv, LotteryInv', NEW r \in DOMAIN rounds, NEW n, n \notin DOMAIN rounds,
         DOMAIN rounds' = DOMAIN rounds \cup {n},
         \A x \in DOMAIN rounds \ {r} : rounds'[x] = rounds[x]
  PROVE  TotalPools' = TotalPools - rounds[r].pool + rounds'[r].pool + rounds'[n].pool
<1>1. /\ current_round \in Nat /\ current_round' \in Nat
      /\ rounds \in [1..current_round -> Round] /\ rounds' \in [1..current_round' -> Round]
      /\ DOMAIN rounds = 1..current_round /\ 1..current_round' = DOMAIN rounds \cup {n}
  <2>1. current_round \in Nat /\ rounds \in [1..current_round -> Round]
    BY DEF LotteryInv, TypeOK
  <2>2. current_round' \in Nat /\ rounds' \in [1..current_round' -> Round]
    BY DEF LotteryInv, TypeOK
  <2>3. DOMAIN rounds = 1..current_round /\ DOMAIN rounds' = 1..current_round'
    BY <2>1, <2>2
  <2> QED  BY <2>1, <2>2, <2>3
<1> DEFINE f == PoolOf(rounds)
           h == PoolOf(rounds')
           S == DOMAIN rounds
           g == [x \in S |-> h[x]]
<1>2. f \in [S -> Nat] /\ h \in [S \cup {n} -> Nat] /\ IsFiniteSet(S)
  <2>1. h \in [1..current_round' -> Nat]
    BY <1>1, PoolOfType
  <2>2. f \in [S -> Nat] /\ IsFiniteSet(S)
    BY <1>1, PoolOfType
  <2> QED  BY <1>1, <2>1, <2>2
<1>3. /\ \A x \in S \ {r} : g[x] = f[x]
      /\ f[r] = rounds[r].pool /\ h[r] = rounds'[r].pool /\ h[n] = rounds'[n].pool
  BY DEF PoolOf
<1>4. TotalPools = SumFunction(f) /\ TotalPools' = SumFunction(h)
  BY DEF TotalPools, PoolOf
<1> HIDE DEF f, h, S
<1>5. g \in [S -> Nat] /\ r \in S /\ n \notin S
  BY <1>2 DEF S
<1>6. SumFunction(g) = SumFunction(f) - f[r] + g[r]
  BY <1>2, <1>3, <1>5, TotalChanged
<1>7. SumFunction(h) = SumFunction(g) + h[n]
  <2> DEFINE R == S \cup {n}
  <2>1. \A x \in S : h[x] = g[x]
    OBVIOUS
  <2>2. R = S \cup {n} /\ h \in [R -> Nat]
    BY <1>2
  <2> HIDE DEF g, R
  <2> QED  BY <1>2, <1>5, <2>1, <2>2, TotalExtended
<1>8. g[r] = h[r]
  BY <1>5
<1> QED  BY <1>3, <1>4, <1>6, <1>7, <1>8

-----------------------------------------------------------------------------
(* The totals of the other purses *)

LEMMA RoundIdsFinite == IsFiniteSet(RoundIds)
<1>1. MaxRounds \in Nat
  BY BasicsAssumption
<1> QED  BY <1>1, FS_Interval DEF RoundIds

LEMMA EscrowChanged ==
  ASSUME TreasuryTypeOK, NEW r \in RoundIds, NEW n \in Nat,
         pending_topups' = [pending_topups EXCEPT ![r] = n]
  PROVE  TotalEscrow' = TotalEscrow - pending_topups[r] + n
<1> DEFINE f == pending_topups
           g == pending_topups'
<1>1. /\ f \in [RoundIds -> Nat] /\ g \in [RoundIds -> Nat]
      /\ \A x \in RoundIds \ {r} : g[x] = f[x]
      /\ f[r] = pending_topups[r] /\ g[r] = n
  BY DEF TreasuryTypeOK
<1>2. TotalEscrow = SumFunction(f) /\ TotalEscrow' = SumFunction(g)
  BY DEF TotalEscrow
<1> HIDE DEF f, g
<1>3. SumFunction(g) = SumFunction(f) - f[r] + g[r]
  BY <1>1, RoundIdsFinite, TotalChanged
<1> QED  BY <1>1, <1>2, <1>3

LEMMA EarningsChanged ==
  ASSUME ReferralTypeOK, NEW a \in Accounts, NEW n \in Nat,
         earnings' = [earnings EXCEPT ![a] = n]
  PROVE  TotalEarnings' = TotalEarnings - earnings[a] + n
<1> DEFINE f == earnings
           g == earnings'
<1>1. /\ f \in [Accounts -> Nat] /\ g \in [Accounts -> Nat] /\ IsFiniteSet(Accounts)
      /\ \A x \in Accounts \ {a} : g[x] = f[x]
      /\ f[a] = earnings[a] /\ g[a] = n
  BY BasicsAssumption DEF ReferralTypeOK
<1>2. TotalEarnings = SumFunction(f) /\ TotalEarnings' = SumFunction(g)
  BY DEF TotalEarnings
<1> HIDE DEF f, g
<1>3. SumFunction(g) = SumFunction(f) - f[a] + g[a]
  BY <1>1, TotalChanged
<1> QED  BY <1>1, <1>2, <1>3

LEMMA PoolsInt == LotteryInv => TotalPools \in Nat
<1> SUFFICES ASSUME LotteryInv PROVE TotalPools \in Nat
  OBVIOUS
<1>1. current_round \in Nat /\ rounds \in [1..current_round -> Round]
  BY DEF LotteryInv, TypeOK
<1>2. PoolOf(rounds) \in [DOMAIN rounds -> Nat] /\ IsFiniteSet(DOMAIN rounds)
  BY <1>1, PoolOfType
<1>3. SumFunction(PoolOf(rounds)) \in Nat
  BY <1>2, TotalNat
<1> QED  BY <1>3 DEF TotalPools, PoolOf

LEMMA EarningsInt == ReferralTypeOK => TotalEarnings \in Nat
<1> SUFFICES ASSUME ReferralTypeOK PROVE TotalEarnings \in Nat
  OBVIOUS
<1>1. earnings \in [Accounts -> Nat] /\ IsFiniteSet(Accounts)
  BY BasicsAssumption DEF ReferralTypeOK
<1> QED  BY <1>1, TotalNat DEF TotalEarnings

\* The purses hold natural numbers, and none of their parts exceeds its total.
LEMMA TotalsType ==
  BooksInv =>
    /\ bank \in Nat /\ TotalPools \in Nat /\ TotalEarnings \in Nat
    /\ treasury \in Nat /\ TotalEscrow \in Nat
    /\ \A r \in DOMAIN rounds : rounds[r].pool <= TotalPools
    /\ \A a \in Accounts : earnings[a] <= TotalEarnings
    /\ \A r \in RoundIds : pending_topups[r] <= TotalEscrow
<1> SUFFICES ASSUME BooksInv
             PROVE  /\ bank \in Nat /\ TotalPools \in Nat /\ TotalEarnings \in Nat
                    /\ treasury \in Nat /\ TotalEscrow \in Nat
                    /\ \A r \in DOMAIN rounds : rounds[r].pool <= TotalPools
                    /\ \A a \in Accounts : earnings[a] <= TotalEarnings
                    /\ \A r \in RoundIds : pending_topups[r] <= TotalEscrow
  OBVIOUS
<1>1. bank \in Nat /\ treasury \in Nat /\ pending_topups \in [RoundIds -> Nat]
  BY DEF BooksInv, TreasuryTypeOK
<1>2. TotalEscrow \in Nat /\ \A r \in RoundIds : pending_topups[r] <= TotalEscrow
  BY <1>1, RoundIdsFinite, TotalNat DEF TotalEscrow
<1>3. TotalEarnings \in Nat /\ \A a \in Accounts : earnings[a] <= TotalEarnings
  <2>1. earnings \in [Accounts -> Nat] /\ IsFiniteSet(Accounts)
    BY BasicsAssumption DEF BooksInv, ReferralInv, ReferralTypeOK
  <2> QED  BY <2>1, TotalNat DEF TotalEarnings
<1>4. TotalPools \in Nat /\ \A r \in DOMAIN rounds : rounds[r].pool <= TotalPools
  <2>1. current_round \in Nat /\ rounds \in [1..current_round -> Round]
    BY DEF BooksInv, WinsafInv, LotteryInv, TypeOK
  <2>2. PoolOf(rounds) \in [DOMAIN rounds -> Nat] /\ IsFiniteSet(DOMAIN rounds)
    BY <2>1, PoolOfType
  <2>3. /\ SumFunction(PoolOf(rounds)) \in Nat
        /\ \A r \in DOMAIN rounds : PoolOf(rounds)[r] <= SumFunction(PoolOf(rounds))
    BY <2>2, TotalNat
  <2>4. \A r \in DOMAIN rounds : PoolOf(rounds)[r] = rounds[r].pool
    BY DEF PoolOf
  <2>5. TotalPools = SumFunction(PoolOf(rounds))
    BY DEF TotalPools, PoolOf
  <2> QED  BY <2>3, <2>4, <2>5
<1> QED  BY <1>1, <1>2, <1>3, <1>4

\* The coins of a message are a natural number of Denom.
LEMMA PaidType ==
  ASSUME NEW funds \in Payments
  PROVE  Paid(funds) \in Nat
<1>1. funds \in Seq(Coin)
  BY FundsAssumption
<1> DEFINE due == {j \in DOMAIN funds : funds[j].denom = Denom}
           f == [i \in due |-> funds[i].amount]
<1>2. Len(funds) \in Nat /\ DOMAIN funds = 1..Len(funds)
  BY <1>1
<1>3. IsFiniteSet(due)
  <2>1. IsFiniteSet(1..Len(funds))
    BY <1>2, FS_Interval
  <2> QED  BY <1>2, <2>1, FS_Subset
<1>4. \A i \in DOMAIN funds : funds[i] \in Coin
  BY <1>1
<1>5. f \in [due -> Nat]
  BY <1>4 DEF Coin
<1>6. Paid(funds) = SumFunction(f)
  BY DEF Paid
<1> HIDE DEF due, f
<1> QED  BY <1>3, <1>5, <1>6, TotalNat

-----------------------------------------------------------------------------
(* The referral ledger in the composition: its invariant survives every      *)
(* message, with the amounts sales really credit and the minimum configured. *)

\* What a sale of n tickets is split into.
LEMMA SaleSplit ==
  ASSUME NEW picks \in Purchases
  PROVE  LET n     == Len(picks)
             split == Apply(Split, Cost(n))
         IN  /\ Cost(n) \in Nat /\ Cost(n) > 0
             /\ split.prize \in Nat /\ split.referral \in Nat /\ split.treasury \in Nat
             /\ split.prize + split.referral + split.treasury = Cost(n)
<1> DEFINE n == Len(picks)
<1>1. n \in Nat \ {0}
  BY PurchaseType
<1>2. Cost(n) \in Nat /\ Cost(n) > 0
  <2>1. TicketPrice \in Nat /\ TicketPrice > 0
    BY LotteryAssumption
  <2> HIDE DEF n
  <2>2. TicketPrice * n \in Nat /\ TicketPrice * n > 0
    BY <1>1, <2>1
  <2> QED  BY <2>2 DEF Cost
<1>3. Split \in FundSplitBps /\ Validate(Split)
  BY LotteryAssumption
<1> HIDE DEF n
<1>4. LET parts == Apply(Split, Cost(n)) IN
        /\ parts \in [prize : Nat, referral : Nat, treasury : Nat]
        /\ parts.prize + parts.referral + parts.treasury = Cost(n)
  BY <1>2, <1>3, SplitConserves
<1> QED  BY <1>2, <1>4 DEF n

LEMMA BuyReferral ==
  ASSUME ReferralInv, NEW buyer \in Accounts, NEW picks \in Purchases, NEW code, NEW funds,
         ExecuteBuyTickets(buyer, picks, code, funds)
  PROVE  ReferralMove
<1> DEFINE split == Apply(Split, Cost(Len(picks)))
           account == ResolveBuyerReferrer(buyer, code)
<1>1. split.referral \in Nat
  BY SaleSplit
<1>2. account \in Maybe
  BY ResolveType DEF ReferralInv
<1>3. \/ account # Nobody /\ Credit(account, split.referral)
      \/ UNCHANGED referralVars
  BY DEF ExecuteBuyTickets, CreditSale
<1>4. CASE account # Nobody /\ Credit(account, split.referral)
  <2>1. account \in Accounts
    BY <1>2, <1>4 DEF Maybe
  <2> HIDE DEF account, split
  <2> QED  BY <1>1, <1>4, <2>1 DEF ReferralMove
<1>5. CASE UNCHANGED referralVars
  BY <1>5 DEF ReferralMove
<1> QED  BY <1>3, <1>4, <1>5

\* To the referral ledger, every message is one of its own steps or none.
LEMMA ReferralStep ==
  ASSUME ReferralInv, ConfigInv, [WinsafNext]_vars
  PROVE  ReferralMove
<1>1. ASSUME NEW claimant \in Accounts, ExecuteClaimReferral(claimant)
      PROVE  ReferralMove
  <2>1. config.min_claim_usaf \in Nat
    BY DEF ConfigInv, Config
  <2> QED  BY <1>1, <2>1 DEF ExecuteClaimReferral, ReferralMove
<1>2. ASSUME NEW referee \in Accounts, NEW target, ExecuteBindReferrer(referee, target)
      PROVE  ReferralMove
  BY <1>2 DEF ExecuteBindReferrer, ReferralMove
<1>3. ASSUME NEW sender \in Accounts, NEW code \in Codes, ExecuteRegisterCode(sender, code)
      PROVE  ReferralMove
  <2>1. \E open : RegisterCode(sender, code, open)
    BY <1>3 DEF ExecuteRegisterCode
  <2> QED  BY <2>1 DEF ReferralMove
<1>4. ASSUME UNCHANGED referralVars
      PROVE  ReferralMove
  BY <1>4 DEF ReferralMove
<1>5. CASE \E buyer \in Accounts, picks \in Purchases, code \in Refers, funds \in Payments :
             ExecuteBuyTickets(buyer, picks, code, funds)
  BY <1>5, BuyReferral
<1>6. CASE \E sender, owner \in Accounts, picks \in Purchases, funds \in Payments :
              \/ ExecuteGrantBonusTicket(sender, owner, picks, funds)
              \/ ExecuteGrantBonusTicketFromTreasury(sender, owner, picks, funds)
  BY <1>4, <1>6 DEF ExecuteGrantBonusTicket, ExecuteGrantBonusTicketFromTreasury
<1>7. CASE ExecuteCloseRound
  BY <1>4, <1>7 DEF ExecuteCloseRound
<1>8. CASE \E sender \in Accounts, r \in DOMAIN rounds :
              \/ \E randomness \in Values, signature \in Signatures :
                   ExecuteSubmitRandomness(sender, r, randomness, signature)
              \/ \E value \in Nonces : ExecuteCommitRandomness(sender, r, Sha256(value))
              \/ \E value \in Nonces : ExecuteRevealRandomness(sender, r, value)
              \/ ExecuteCancelRound(sender, r)
  BY <1>4, <1>8 DEF ExecuteSubmitRandomness, ExecuteCommitRandomness, ExecuteRevealRandomness,
                    ExecuteCancelRound
<1>9. CASE \/ \E r \in DOMAIN rounds : ExecuteDraw(r)
           \/ \E r \in DOMAIN rounds : \E i \in DOMAIN tickets[r] :
                ExecuteClaimReward(tickets[r][i].owner, r, i)
  BY <1>4, <1>9 DEF ExecuteDraw, ExecuteClaimReward
<1>10. CASE \/ \E sender \in Accounts, amount \in Withdrawals :
                 ExecuteWithdrawTreasury(sender, amount)
            \/ \E sender \in Accounts, r \in RoundIds, funds \in Payments :
                 \/ ExecuteTopUpPool(sender, r, funds)
                 \/ ExecuteCancelPendingTopUp(sender, r, funds)
            \/ \E sender \in Accounts, new \in Settings : ExecuteSetConfig(sender, new)
            \/ \E sender \in Accounts, paused \in BOOLEAN : ExecuteSetPaused(sender, paused)
            \/ \E new \in Migrations, reset \in BOOLEAN,
                  backfill \in {{}} \cup {{amount} : amount \in Backfills} :
                 ExecuteMigrate(new, backfill, reset)
            \/ \E funds \in Payments : Gift(funds)
            \/ NextBlock
            \/ UNCHANGED vars
  BY <1>4, <1>10 DEF ExecuteWithdrawTreasury, ExecuteTopUpPool, ExecuteCancelPendingTopUp,
                     ExecuteSetConfig, ExecuteSetPaused, ExecuteMigrate, Gift, NextBlock, vars
<1> QED
  BY <1>1, <1>2, <1>3, <1>5, <1>6, <1>7, <1>8, <1>9, <1>10 DEF WinsafNext

-----------------------------------------------------------------------------
(* What each message does to the books *)

\* The balance and the purses change by the given amounts.
Moved(held, prizes, referrals, purse, escrow) ==
  /\ bank' = bank + held
  /\ TotalPools' = TotalPools + prizes
  /\ TotalEarnings' = TotalEarnings + referrals
  /\ treasury' = treasury + purse
  /\ TotalEscrow' = TotalEscrow + escrow

\* A step of the ledger that stays within the natural numbers.
LedgerMove ==
  /\ bank' \in Nat /\ treasury' \in Nat
  /\ \/ UNCHANGED <<bank, Books!purses>>
     \/ Books!Given
     \/ /\ Books!Surplus' = Books!Surplus
        /\ \/ Books!Deposit \/ Books!DepositEscrow \/ Books!Sponsor
           \/ Books!Turnover \/ Books!Pay

\* Purses that grow by as much as the balance.
LEMMA Deposited ==
  ASSUME BooksInv, NEW p \in Nat, NEW e \in Nat, NEW t \in Nat,
         p + e + t > 0, Moved(p + e + t, p, e, t, 0)
  PROVE  LedgerMove
<1>1. /\ bank \in Nat /\ TotalPools \in Nat /\ TotalEarnings \in Nat
      /\ treasury \in Nat /\ TotalEscrow \in Nat
  BY TotalsType
<1>2. /\ bank' = bank + (p + e + t) /\ TotalPools' = TotalPools + p
      /\ TotalEarnings' = TotalEarnings + e /\ treasury' = treasury + t
      /\ TotalEscrow' = TotalEscrow
  BY <1>1 DEF Moved
<1>3. Books!Surplus' = Books!Surplus
  BY <1>1, <1>2 DEF Books!Surplus
<1>4. Books!Deposit
  BY <1>1, <1>2 DEF Books!Deposit
<1>5. bank' \in Nat /\ treasury' \in Nat
  BY <1>1, <1>2
<1> QED  BY <1>3, <1>4, <1>5 DEF LedgerMove

\* Promotional money goes to the escrow.
LEMMA EscrowDeposited ==
  ASSUME BooksInv, NEW n \in Nat, n > 0, Moved(n, 0, 0, 0, n)
  PROVE  LedgerMove
<1>1. /\ bank \in Nat /\ TotalPools \in Nat /\ TotalEarnings \in Nat
      /\ treasury \in Nat /\ TotalEscrow \in Nat
  BY TotalsType
<1>2. /\ bank' = bank + n /\ TotalPools' = TotalPools /\ TotalEarnings' = TotalEarnings
      /\ treasury' = treasury /\ TotalEscrow' = TotalEscrow + n
  BY <1>1 DEF Moved
<1>3. Books!Surplus' = Books!Surplus
  BY <1>1, <1>2 DEF Books!Surplus
<1>4. Books!DepositEscrow
  BY <1>1, <1>2 DEF Books!DepositEscrow
<1>5. bank' \in Nat /\ treasury' \in Nat
  BY <1>1, <1>2
<1> QED  BY <1>3, <1>4, <1>5 DEF LedgerMove

\* The treasury pays a ticket into the pool.
LEMMA Sponsored ==
  ASSUME BooksInv, NEW n \in Nat, n > 0, n <= treasury, Moved(0, n, 0, 0 - n, 0)
  PROVE  LedgerMove
<1>1. /\ bank \in Nat /\ TotalPools \in Nat /\ TotalEarnings \in Nat
      /\ treasury \in Nat /\ TotalEscrow \in Nat
  BY TotalsType
<1>2. /\ bank' = bank /\ TotalPools' = TotalPools + n /\ TotalEarnings' = TotalEarnings
      /\ treasury' = treasury - n /\ TotalEscrow' = TotalEscrow
  BY <1>1 DEF Moved
<1>3. Books!Surplus' = Books!Surplus
  BY <1>1, <1>2 DEF Books!Surplus
<1>4. Books!Sponsor
  BY <1>1, <1>2 DEF Books!Sponsor
<1>5. bank' \in Nat /\ treasury' \in Nat
  BY <1>1, <1>2
<1> QED  BY <1>3, <1>4, <1>5 DEF LedgerMove

\* A round ends: the pools gain the escrow and lose what the treasury gets.
LEMMA TurnedOver ==
  ASSUME BooksInv, NEW swept \in Nat, NEW freed \in Nat,
         Moved(0, freed - swept, 0, swept, 0 - freed)
  PROVE  LedgerMove
<1>1. /\ bank \in Nat /\ TotalPools \in Nat /\ TotalEarnings \in Nat
      /\ treasury \in Nat /\ TotalEscrow \in Nat
  BY TotalsType
<1>2. /\ bank' = bank /\ TotalPools' = TotalPools + (freed - swept)
      /\ TotalEarnings' = TotalEarnings
      /\ treasury' = treasury + swept /\ TotalEscrow' = TotalEscrow - freed
  BY <1>1 DEF Moved
<1>3. Books!Surplus' = Books!Surplus
  BY <1>1, <1>2 DEF Books!Surplus
<1>4. Books!Turnover
  BY <1>1, <1>2 DEF Books!Turnover
<1>5. bank' \in Nat /\ treasury' \in Nat
  BY <1>1, <1>2
<1> QED  BY <1>3, <1>4, <1>5 DEF LedgerMove

\* A payment comes out of one purse.
LEMMA PaidOut ==
  ASSUME BooksInv, NEW n \in Nat, n > 0, n <= bank,
         \/ Moved(0 - n, 0 - n, 0, 0, 0)
         \/ Moved(0 - n, 0, 0 - n, 0, 0)
         \/ Moved(0 - n, 0, 0, 0 - n, 0) /\ n <= treasury
         \/ Moved(0 - n, 0, 0, 0, 0 - n)
  PROVE  LedgerMove
<1>1. /\ bank \in Nat /\ TotalPools \in Nat /\ TotalEarnings \in Nat
      /\ treasury \in Nat /\ TotalEscrow \in Nat
  BY TotalsType
<1>2. bank' = bank - n /\ bank' \in Nat
  BY <1>1 DEF Moved
<1>3. treasury' \in Nat
  BY <1>1 DEF Moved
<1>4. Books!Surplus' = Books!Surplus
  BY <1>1 DEF Moved, Books!Surplus
<1>5. Books!Pay
  BY <1>1 DEF Moved, Books!Pay
<1> QED  BY <1>2, <1>3, <1>4, <1>5 DEF LedgerMove

LEMMA Unmoved ==
  ASSUME BooksInv, UNCHANGED treasuryVars, UNCHANGED earnings, TotalPools' = TotalPools
  PROVE  LedgerMove
<1>1. bank \in Nat /\ treasury \in Nat
  BY TotalsType
<1>2. /\ bank' = bank /\ treasury' = treasury
      /\ TotalEscrow' = TotalEscrow /\ TotalEarnings' = TotalEarnings
  BY DEF treasuryVars, TotalEscrow, TotalEarnings
<1> QED  BY <1>1, <1>2 DEF LedgerMove, Books!purses

LEMMA PoolsUnmoved ==
  ASSUME UNCHANGED rounds
  PROVE  TotalPools' = TotalPools
  BY DEF TotalPools

LEMMA MintMoves ==
  ASSUME LotteryInv, LotteryInv', NEW owner, NEW picks, NEW amount \in Nat,
         Mint(owner, picks, amount)
  PROVE  TotalPools' = TotalPools + amount
<1> DEFINE r == current_round
<1>1. /\ r \in DOMAIN rounds /\ rounds[r] \in Round
      /\ rounds \in [DOMAIN rounds -> Round]
  BY DEF LotteryInv, TypeOK
<1>2. /\ DOMAIN rounds' = DOMAIN rounds
      /\ \A x \in DOMAIN rounds \ {r} : rounds'[x] = rounds[x]
      /\ rounds'[r].pool = rounds[r].pool + amount
  BY <1>1 DEF Mint, Round
<1>3. TotalPools' = TotalPools - rounds[r].pool + rounds'[r].pool
  <2> HIDE DEF r
  <2> QED  BY <1>1, <1>2, PoolsChanged
<1>4. rounds[r].pool \in Nat
  BY <1>1 DEF Round
<1>5. TotalPools \in Int
  BY PoolsInt
<1> QED  BY <1>2, <1>3, <1>4, <1>5

LEMMA CreditMoves ==
  ASSUME ReferralTypeOK, NEW a \in Accounts, NEW amount \in Nat, Credit(a, amount)
  PROVE  TotalEarnings' = TotalEarnings + amount
<1>1. earnings[a] \in Nat /\ earnings' = [earnings EXCEPT ![a] = earnings[a] + amount]
  BY DEF ReferralTypeOK, Credit
<1>2. earnings[a] + amount \in Nat
  BY <1>1
<1>3. TotalEarnings' = TotalEarnings - earnings[a] + (earnings[a] + amount)
  BY <1>1, <1>2, EarningsChanged
<1>4. TotalEarnings \in Int
  BY EarningsInt
<1> QED  BY <1>1, <1>3, <1>4

\* Exactly what the buyer pays is shared out: without a referrer the referral cut
\* goes to the pool.
LEMMA SaleMoves ==
  ASSUME BooksInv, LotteryInv', NEW buyer \in Accounts, NEW picks \in Purchases, NEW code,
         NEW funds, ExecuteBuyTickets(buyer, picks, code, funds)
  PROVE  LedgerMove
<1> DEFINE price == Cost(Len(picks))
           split == Apply(Split, price)
           account == ResolveBuyerReferrer(buyer, code)
           credited == split.referral # 0 /\ account # Nobody
<1> USE DEF BooksInv, WinsafInv, ReferralInv
<1>1. /\ price \in Nat /\ price > 0
      /\ split.prize \in Nat /\ split.referral \in Nat /\ split.treasury \in Nat
      /\ split.prize + split.referral + split.treasury = price
  BY SaleSplit
<1>2. /\ Paid(funds) = price
      /\ Mint(buyer, picks, PrizeCut(Len(picks), credited))
      /\ bank' = bank + price /\ treasury' = treasury + split.treasury
      /\ UNCHANGED pending_topups
      /\ IF credited THEN Credit(account, split.referral) ELSE UNCHANGED referralVars
  BY DEF ExecuteBuyTickets, AssertExactDenom, Receive, BuyTickets, CreditSale
<1>3. PrizeCut(Len(picks), credited) = IF credited THEN split.prize ELSE split.prize + split.referral
  BY DEF PrizeCut
<1>4. account \in Maybe
  BY ResolveType
<1> HIDE DEF price, split, account
<1>5. PrizeCut(Len(picks), credited) \in Nat
  BY <1>1, <1>3
<1>6. TotalPools' = TotalPools + PrizeCut(Len(picks), credited)
  BY <1>2, <1>5, MintMoves
<1>7. TotalEscrow' = TotalEscrow
  BY <1>2 DEF TotalEscrow
<1>8. /\ bank \in Nat /\ TotalPools \in Nat /\ TotalEarnings \in Nat
      /\ treasury \in Nat /\ TotalEscrow \in Nat
  BY TotalsType
<1>9. CASE credited
  <2>1. account \in Accounts
    BY <1>4, <1>9 DEF Maybe
  <2>2. TotalEarnings' = TotalEarnings + split.referral
    BY <1>1, <1>2, <1>9, <2>1, CreditMoves
  <2>3. TotalPools' = TotalPools + split.prize
    BY <1>3, <1>6, <1>9
  <2>4. split.prize + split.referral + split.treasury > 0
    BY <1>1
  <2>5. Moved(split.prize + split.referral + split.treasury,
              split.prize, split.referral, split.treasury, 0)
    BY <1>1, <1>2, <1>7, <1>8, <2>2, <2>3 DEF Moved
  <2> QED  BY <1>1, <2>4, <2>5, Deposited
<1>10. CASE ~credited
  <2>1. TotalEarnings' = TotalEarnings
    BY <1>2, <1>10 DEF TotalEarnings, referralVars
  <2>2. TotalPools' = TotalPools + (split.prize + split.referral)
    BY <1>3, <1>6, <1>10
  <2> DEFINE pool == split.prize + split.referral
  <2>3. pool \in Nat /\ pool + 0 + split.treasury = price /\ pool + 0 + split.treasury > 0
    BY <1>1
  <2>4. Moved(pool + 0 + split.treasury, pool, 0, split.treasury, 0)
    BY <1>2, <1>7, <1>8, <2>1, <2>2, <2>3 DEF Moved
  <2> HIDE DEF pool
  <2> QED  BY <1>1, <2>3, <2>4, Deposited
<1> QED  BY <1>9, <1>10

LEMMA SameReferrals ==
  ASSUME UNCHANGED referralVars
  PROVE  UNCHANGED earnings /\ TotalEarnings' = TotalEarnings
  BY DEF referralVars, TotalEarnings

LEMMA GrantMoves ==
  ASSUME BooksInv, LotteryInv', NEW sender, NEW owner \in Accounts, NEW picks \in Purchases,
         NEW funds, ExecuteGrantBonusTicket(sender, owner, picks, funds)
  PROVE  LedgerMove
<1> USE DEF BooksInv, WinsafInv
<1> DEFINE price == Cost(Len(picks))
<1>1. price \in Nat /\ price > 0
  BY SaleSplit
<1>2. /\ Paid(funds) = price /\ Mint(owner, picks, price)
      /\ bank' = bank + price /\ treasury' = treasury + 0
      /\ UNCHANGED pending_topups /\ UNCHANGED referralVars
  BY DEF ExecuteGrantBonusTicket, AssertExactDenom, Receive, GrantBonusTicket
<1> HIDE DEF price
<1>3. TotalPools' = TotalPools + price
  BY <1>1, <1>2, MintMoves
<1>4. TotalEarnings' = TotalEarnings
  BY <1>2, SameReferrals
<1>5. TotalEscrow' = TotalEscrow /\ TotalEscrow \in Nat /\ TotalEarnings \in Nat
  BY <1>2, TotalsType DEF TotalEscrow
<1>6. price + 0 + 0 = price
  BY <1>1
<1>7. Moved(price + 0 + 0, price, 0, 0, 0)
  BY <1>2, <1>3, <1>4, <1>5, <1>6 DEF Moved
<1> QED  BY <1>1, <1>6, <1>7, Deposited

LEMMA SponsoredGrantMoves ==
  ASSUME BooksInv, LotteryInv', NEW sender, NEW owner \in Accounts, NEW picks \in Purchases,
         NEW funds, ExecuteGrantBonusTicketFromTreasury(sender, owner, picks, funds)
  PROVE  LedgerMove
<1> USE DEF BooksInv, WinsafInv
<1> DEFINE price == Cost(Len(picks))
<1>1. price \in Nat /\ price > 0
  BY SaleSplit
<1>2. /\ price <= treasury /\ treasury' = treasury - price /\ Mint(owner, picks, price)
      /\ UNCHANGED <<pending_topups, bank>> /\ UNCHANGED referralVars
  BY DEF ExecuteGrantBonusTicketFromTreasury, Spend, GrantBonusTicket
<1> HIDE DEF price
<1>3. TotalPools' = TotalPools + price
  BY <1>1, <1>2, MintMoves
<1>4. TotalEarnings' = TotalEarnings
  BY <1>2, SameReferrals
<1>5. /\ TotalEscrow' = TotalEscrow /\ TotalEscrow \in Nat /\ TotalEarnings \in Nat
      /\ bank \in Nat /\ treasury \in Nat
  BY <1>2, TotalsType DEF TotalEscrow
<1>6. Moved(0, price, 0, 0 - price, 0)
  BY <1>1, <1>2, <1>3, <1>4, <1>5 DEF Moved
<1> QED  BY <1>1, <1>2, <1>6, Sponsored

\* The escrow of the round that opens reaches its pool, a leftover rolls over or is
\* swept: nothing of it is lost.
LEMMA FinishMoves ==
  ASSUME BooksInv, LotteryInv', NEW r \in DOMAIN rounds, ExecuteDraw(r) \/ CancelledBy(r)
  PROVE  LedgerMove
<1> USE DEF BooksInv, WinsafInv
<1> DEFINE n == r + 1
           freed == pending_topups[n]
<1>1. rounds[r] \in Round /\ rounds[r].pool \in Nat
  BY DEF LotteryInv, TypeOK, Round
<1>2. n \in RoundIds /\ freed \in Nat
  <2>1. n \in RoundIds
    BY FinishStep
  <2> QED  BY <2>1 DEF TreasuryTypeOK
<1>3. PICK closed, ts, c, rollover, swept :
        /\ rounds[r].status = "Drawing"
        /\ closed.pool \in Nat /\ rollover \in Nat /\ swept \in Nat
        /\ closed.pool + rollover + swept = rounds[r].pool
        /\ OpenNextRound(r, closed, ts, c, rollover, freed)
        /\ AbsorbEscrow(n, swept)
        /\ UNCHANGED referralVars
  <2>1. CASE ExecuteDraw(r)
    <3> DEFINE winning == WinningNumbers(r)
               cfg == LotteryPart(config)
               outcome == DrawOutcome(r, winning, cfg)
               closed == [rounds[r] EXCEPT
                           !.status = "Settled", !.pool = outcome.distributed,
                           !.winning_numbers = winning, !.prize_tiers = outcome.tiers,
                           !.dry_streak_after = outcome.streak]
               left == Leftover(r, winning, cfg)
               rollover == IF config.rollover_on_no_winner THEN left ELSE 0
               swept == IF config.rollover_on_no_winner THEN 0 ELSE left
    <3>1. winning \in Draws /\ cfg \in Configs
      <4>1. requests[r].randomness \in Values
        BY <2>1 DEF ExecuteDraw, Fulfilled, Requested, SlotsInv
      <4> QED  BY <4>1, ConfigFacts DEF WinningNumbers
    <3>2. outcome.distributed \in Nat
      <4> HIDE DEF winning, cfg
      <4> QED  BY <3>1, DrawOutcomeType
    <3>3. /\ rounds[r].status = "Drawing" /\ outcome.distributed <= rounds[r].pool
          /\ Draw(r, winning, cfg, freed)
          /\ AbsorbEscrow(n, swept)
          /\ UNCHANGED referralVars
      BY <2>1 DEF ExecuteDraw, Draw
    <3>4. closed.pool = outcome.distributed
      BY <1>1 DEF Round
    <3>5. OpenNextRound(r, closed, Drawn(r, winning, outcome.tiers), cfg, rollover, freed)
      <4>1. cfg.rollover_on_no_winner = config.rollover_on_no_winner
        BY DEF LotteryPart
      <4> HIDE DEF winning, cfg, freed
      <4> QED  BY <3>3, <4>1 DEF Draw
    <3>6. left = rounds[r].pool - outcome.distributed
      BY DEF Leftover
    <3> HIDE DEF winning, cfg, outcome, closed, left, freed, n
    <3>7. left \in Nat /\ rollover \in Nat /\ swept \in Nat
      BY <1>1, <3>2, <3>3, <3>6
    <3>8. outcome.distributed + rollover + swept = rounds[r].pool
      BY <1>1, <3>2, <3>6
    <3> WITNESS closed, Drawn(r, winning, outcome.tiers), cfg, rollover, swept
    <3> HIDE DEF rollover, swept
    <3> QED  BY <3>2, <3>3, <3>4, <3>5, <3>7, <3>8
  <2>2. CASE CancelledBy(r)
    <3> DEFINE each == RefundPerTicket(rounds[r])
               assigned == each * Len(tickets[r])
               closed == [rounds[r] EXCEPT !.status = "Cancelled", !.pool = assigned]
               cfg == LotteryPart(config)
               rollover == rounds[r].pool - assigned
    <3>1. /\ rounds[r].status = "Drawing" /\ assigned <= rounds[r].pool
          /\ OpenNextRound(r, closed, Refunded(r, each), cfg, rollover, freed)
          /\ AbsorbEscrow(n, 0)
          /\ UNCHANGED referralVars
      BY <2>2 DEF CancelledBy, ExecuteCancelRound, CancelRound
    <3>2. assigned \in Nat
      BY <3>1, RefundsWithinContributions DEF InFlight
    <3>3. closed.pool = assigned
      BY <1>1 DEF Round
    <3> HIDE DEF assigned, closed, cfg, each, freed, n
    <3>4. rollover \in Nat /\ assigned + rollover + 0 = rounds[r].pool
      BY <1>1, <3>1, <3>2
    <3> WITNESS closed, Refunded(r, each), cfg, rollover, 0
    <3> HIDE DEF rollover
    <3> QED  BY <3>1, <3>2, <3>3, <3>4
  <2> QED  BY <2>1, <2>2
<1>4. /\ n \notin DOMAIN rounds /\ DOMAIN rounds' = DOMAIN rounds \cup {n}
      /\ rounds'[r] = closed
      /\ \A x \in DOMAIN rounds \ {r} : rounds'[x] = rounds[x]
  <2> HIDE DEF freed
  <2> QED  BY <1>3, NextOpened
<1>5. rounds'[n].pool = rollover + freed
  BY <1>3 DEF OpenNextRound, NewOpen
<1>6. TotalPools' = TotalPools - rounds[r].pool + rounds'[r].pool + rounds'[n].pool
  <2> HIDE DEF n
  <2> QED  BY <1>4, PoolsTurned
<1>7. /\ bank' = bank /\ treasury' = treasury + swept
      /\ pending_topups' = [pending_topups EXCEPT ![n] = 0]
  BY <1>3 DEF AbsorbEscrow
<1>8. TotalEscrow' = TotalEscrow - freed + 0
  <2> HIDE DEF n
  <2> QED  BY <1>2, <1>7, EscrowChanged
<1>9. TotalEarnings' = TotalEarnings
  BY <1>3, SameReferrals
<1>10. /\ bank \in Nat /\ TotalPools \in Nat /\ TotalEarnings \in Nat
       /\ treasury \in Nat /\ TotalEscrow \in Nat
  BY TotalsType
<1> HIDE DEF n, freed
<1>11. rounds'[r].pool = closed.pool /\ closed.pool + rollover + swept = rounds[r].pool
  BY <1>3, <1>4
<1>12. TotalPools' = TotalPools + (freed - swept)
  BY <1>1, <1>2, <1>3, <1>5, <1>6, <1>10, <1>11
<1>13. Moved(0, freed - swept, 0, swept, 0 - freed)
  BY <1>2, <1>3, <1>7, <1>8, <1>9, <1>10, <1>12 DEF Moved
<1> QED  BY <1>2, <1>3, <1>13, TurnedOver

LEMMA ClaimMoves ==
  ASSUME BooksInv, LotteryInv', NEW r \in DOMAIN rounds, NEW i \in DOMAIN tickets[r], NEW sender,
         ExecuteClaimReward(sender, r, i)
  PROVE  LedgerMove
<1> USE DEF BooksInv, WinsafInv
<1> DEFINE prize == tickets[r][i].prize
<1>1. rounds[r] \in Round /\ rounds[r].pool \in Nat /\ rounds \in [DOMAIN rounds -> Round]
  BY DEF LotteryInv, TypeOK, Round
<1>2. prize \in Nat
  <2>1. tickets[r] \in Seq(Ticket)
    BY DEF LotteryInv, TypeOK
  <2>2. tickets[r][i] \in Ticket
    BY <2>1
  <2> QED  BY <2>2 DEF Ticket
<1>3. /\ prize # 0 /\ prize <= bank /\ bank' = bank - prize
      /\ rounds' = [rounds EXCEPT ![r].pool = @ - prize]
      /\ UNCHANGED <<treasury, pending_topups>> /\ UNCHANGED referralVars
  BY DEF ExecuteClaimReward, ClaimReward, Send
<1> HIDE DEF prize
<1>4. /\ DOMAIN rounds' = DOMAIN rounds
      /\ \A x \in DOMAIN rounds \ {r} : rounds'[x] = rounds[x]
      /\ rounds'[r].pool = rounds[r].pool - prize
  BY <1>1, <1>3 DEF Round
<1>5. TotalPools' = TotalPools - rounds[r].pool + rounds'[r].pool
  BY <1>4, PoolsChanged
<1>6. TotalEarnings' = TotalEarnings /\ TotalEscrow' = TotalEscrow
  BY <1>3, SameReferrals DEF TotalEscrow
<1>7. /\ bank \in Nat /\ TotalPools \in Nat /\ TotalEarnings \in Nat
      /\ treasury \in Nat /\ TotalEscrow \in Nat
  BY TotalsType
<1>8. Moved(0 - prize, 0 - prize, 0, 0, 0)
  BY <1>1, <1>2, <1>3, <1>4, <1>5, <1>6, <1>7 DEF Moved
<1>9. prize > 0 /\ prize <= bank
  BY <1>2, <1>3
<1> QED  BY <1>2, <1>8, <1>9, PaidOut

LEMMA ClaimReferralMoves ==
  ASSUME BooksInv, NEW claimant \in Accounts, ExecuteClaimReferral(claimant)
  PROVE  LedgerMove
<1> USE DEF BooksInv, ReferralInv
<1> DEFINE due == earnings[claimant]
<1>1. due \in Nat
  BY DEF ReferralTypeOK
<1>2. /\ due # 0 /\ due <= bank /\ bank' = bank - due
      /\ earnings' = [earnings EXCEPT ![claimant] = 0]
      /\ UNCHANGED <<treasury, pending_topups>> /\ UNCHANGED lotteryVars
  BY DEF ExecuteClaimReferral, ClaimReferral, Send
<1>3. TotalEarnings' = TotalEarnings - earnings[claimant] + 0
  <2> HIDE DEF due
  <2> QED  BY <1>2, EarningsChanged
<1>4. TotalPools' = TotalPools /\ TotalEscrow' = TotalEscrow
  BY <1>2, PoolsUnmoved DEF lotteryVars, TotalEscrow
<1>5. /\ bank \in Nat /\ TotalPools \in Nat /\ TotalEarnings \in Nat
      /\ treasury \in Nat /\ TotalEscrow \in Nat
  BY TotalsType
<1>6. Moved(0 - due, 0, 0 - due, 0, 0)
  BY <1>1, <1>2, <1>3, <1>4, <1>5 DEF Moved
<1>7. due > 0 /\ due <= bank
  BY <1>1, <1>2
<1> HIDE DEF due
<1> QED  BY <1>1, <1>6, <1>7, PaidOut

LEMMA WithdrawalMoves ==
  ASSUME BooksInv, NEW sender, NEW amount \in Withdrawals, ExecuteWithdrawTreasury(sender, amount)
  PROVE  LedgerMove
<1>1. amount \in Nat
  BY WinsafAssumption
<1>2. /\ amount # 0 /\ amount <= treasury /\ amount <= bank
      /\ treasury' = treasury - amount /\ bank' = bank - amount
      /\ UNCHANGED pending_topups /\ UNCHANGED lotteryVars /\ UNCHANGED referralVars
  BY DEF ExecuteWithdrawTreasury, WithdrawTreasury
<1>3. TotalPools' = TotalPools /\ TotalEscrow' = TotalEscrow /\ TotalEarnings' = TotalEarnings
  BY <1>2, PoolsUnmoved, SameReferrals DEF lotteryVars, TotalEscrow
<1>4. /\ bank \in Nat /\ TotalPools \in Nat /\ TotalEarnings \in Nat
      /\ treasury \in Nat /\ TotalEscrow \in Nat
  BY TotalsType
<1>5. Moved(0 - amount, 0, 0, 0 - amount, 0)
  BY <1>1, <1>2, <1>3, <1>4 DEF Moved
<1>6. amount > 0 /\ amount <= bank /\ amount <= treasury
  BY <1>1, <1>2
<1> QED  BY <1>1, <1>5, <1>6, PaidOut

LEMMA TopUpMoves ==
  ASSUME BooksInv, LotteryInv', NEW sender, NEW r \in RoundIds, NEW funds \in Payments,
         ExecuteTopUpPool(sender, r, funds)
  PROVE  LedgerMove
<1> USE DEF BooksInv, WinsafInv
<1> DEFINE paid == Paid(funds)
<1>1. paid \in Nat /\ paid > 0
  <2>1. paid # 0
    BY DEF ExecuteTopUpPool, MustPayDenomOnly
  <2>2. paid \in Nat
    BY PaidType
  <2> QED  BY <2>1, <2>2
<1>2. TotalEarnings' = TotalEarnings
  BY SameReferrals DEF ExecuteTopUpPool
<1>3. /\ bank \in Nat /\ TotalPools \in Nat /\ TotalEarnings \in Nat
      /\ treasury \in Nat /\ TotalEscrow \in Nat
  BY TotalsType
<1>4. CASE r \in DOMAIN rounds
  <2>1. /\ TopUpPool(r, paid) /\ bank' = bank + paid /\ treasury' = treasury + 0
        /\ UNCHANGED pending_topups
    BY <1>4 DEF ExecuteTopUpPool, Receive
  <2> HIDE DEF paid
  <2>2. rounds[r] \in Round /\ rounds[r].pool \in Nat /\ rounds \in [DOMAIN rounds -> Round]
    BY <1>4 DEF LotteryInv, TypeOK, Round
  <2>3. /\ DOMAIN rounds' = DOMAIN rounds
        /\ \A x \in DOMAIN rounds \ {r} : rounds'[x] = rounds[x]
        /\ rounds'[r].pool = rounds[r].pool + paid
    BY <1>4, <2>1, <2>2 DEF TopUpPool, Round
  <2>4. TotalPools' = TotalPools - rounds[r].pool + rounds'[r].pool
    BY <1>4, <2>3, PoolsChanged
  <2>5. TotalEscrow' = TotalEscrow
    BY <2>1 DEF TotalEscrow
  <2>6. paid + 0 + 0 = paid
    BY <1>1
  <2>7. Moved(paid + 0 + 0, paid, 0, 0, 0)
    BY <1>1, <1>2, <1>3, <2>1, <2>2, <2>3, <2>4, <2>5, <2>6 DEF Moved
  <2> QED  BY <1>1, <2>6, <2>7, Deposited
<1>5. CASE r \notin DOMAIN rounds
  <2>1. /\ pending_topups' = [pending_topups EXCEPT ![r] = @ + paid]
        /\ bank' = bank + paid /\ UNCHANGED treasury /\ UNCHANGED lotteryVars
    BY <1>5 DEF ExecuteTopUpPool, EscrowTopUp
  <2> HIDE DEF paid
  <2>2. pending_topups[r] \in Nat /\ pending_topups[r] + paid \in Nat
    BY <1>1 DEF TreasuryTypeOK
  <2>3. TotalEscrow' = TotalEscrow - pending_topups[r] + (pending_topups[r] + paid)
    <3>1. pending_topups' = [pending_topups EXCEPT ![r] = pending_topups[r] + paid]
      BY <2>1
    <3> QED  BY <2>2, <3>1, EscrowChanged
  <2>4. TotalPools' = TotalPools
    BY <2>1, PoolsUnmoved DEF lotteryVars
  <2>5. Moved(paid, 0, 0, 0, paid)
    BY <1>1, <1>2, <1>3, <2>1, <2>2, <2>3, <2>4 DEF Moved
  <2> QED  BY <1>1, <2>5, EscrowDeposited
<1> QED  BY <1>4, <1>5

LEMMA CancelTopUpMoves ==
  ASSUME BooksInv, NEW sender, NEW r \in RoundIds, NEW funds,
         ExecuteCancelPendingTopUp(sender, r, funds)
  PROVE  LedgerMove
<1> USE DEF BooksInv
<1> DEFINE due == pending_topups[r]
<1>1. due \in Nat
  BY DEF TreasuryTypeOK
<1>2. /\ due # 0 /\ due <= bank /\ bank' = bank - due
      /\ pending_topups' = [pending_topups EXCEPT ![r] = 0]
      /\ UNCHANGED treasury /\ UNCHANGED lotteryVars /\ UNCHANGED referralVars
  BY DEF ExecuteCancelPendingTopUp, CancelPendingTopUp
<1>3. TotalEscrow' = TotalEscrow - pending_topups[r] + 0
  <2> HIDE DEF due
  <2> QED  BY <1>2, EscrowChanged
<1>4. TotalPools' = TotalPools /\ TotalEarnings' = TotalEarnings
  BY <1>2, PoolsUnmoved, SameReferrals DEF lotteryVars
<1>5. /\ bank \in Nat /\ TotalPools \in Nat /\ TotalEarnings \in Nat
      /\ treasury \in Nat /\ TotalEscrow \in Nat
  BY TotalsType
<1>6. Moved(0 - due, 0, 0, 0, 0 - due)
  BY <1>1, <1>2, <1>3, <1>4, <1>5 DEF Moved
<1>7. due > 0 /\ due <= bank
  BY <1>1, <1>2
<1> HIDE DEF due
<1> QED  BY <1>1, <1>6, <1>7, PaidOut

LEMMA GiftMoves ==
  ASSUME BooksInv, NEW funds \in Payments, Gift(funds)
  PROVE  LedgerMove
<1>1. Paid(funds) \in Nat
  BY PaidType
<1>2. /\ bank' = bank + Paid(funds) /\ UNCHANGED <<treasury, pending_topups>>
      /\ UNCHANGED lotteryVars /\ UNCHANGED referralVars
  BY DEF Gift, Donate
<1>3. /\ TotalPools' = TotalPools /\ TotalEscrow' = TotalEscrow
      /\ TotalEarnings' = TotalEarnings
  BY <1>2, PoolsUnmoved, SameReferrals DEF lotteryVars, TotalEscrow
<1>4. bank \in Nat /\ treasury \in Nat
  BY TotalsType
<1>5. CASE Paid(funds) = 0
  BY <1>2, <1>3, <1>4, <1>5 DEF LedgerMove, Books!purses
<1>6. CASE Paid(funds) > 0
  <2>1. Books!Given
    BY <1>1, <1>2, <1>3, <1>4, <1>6 DEF Books!Given, Books!purses
  <2> QED  BY <1>1, <1>2, <1>4, <2>1 DEF LedgerMove
<1> QED  BY <1>1, <1>5, <1>6

\* The messages that leave every purse alone.
LEMMA IdleMoves ==
  ASSUME BooksInv, UNCHANGED treasuryVars, UNCHANGED earnings,
         UNCHANGED lotteryVars \/ CloseRound \/ Tick \/ \E backfill, reset : Migrate(backfill, reset)
  PROVE  LedgerMove
<1> USE DEF BooksInv, WinsafInv
<1>1. /\ rounds \in [DOMAIN rounds -> Round] /\ current_round \in DOMAIN rounds
      /\ rounds[current_round] \in Round
  BY DEF LotteryInv, TypeOK
<1>2. /\ DOMAIN rounds' = DOMAIN rounds
      /\ \A r \in DOMAIN rounds : rounds'[r].pool = rounds[r].pool
  BY <1>1 DEF lotteryVars, CloseRound, Tick, Migrate, Round
<1>3. TotalPools' = TotalPools
  BY <1>2, PoolsSame
<1> QED  BY <1>3, Unmoved

-----------------------------------------------------------------------------
(* The invariant *)

LEMMA LedgerStep ==
  ASSUME BooksInv, LotteryInv', [WinsafNext]_vars
  PROVE  LedgerMove
<1>1. CASE \E buyer \in Accounts, picks \in Purchases, code \in Refers, funds \in Payments :
             ExecuteBuyTickets(buyer, picks, code, funds)
  BY <1>1, SaleMoves
<1>2. CASE \E sender, owner \in Accounts, picks \in Purchases, funds \in Payments :
             \/ ExecuteGrantBonusTicket(sender, owner, picks, funds)
             \/ ExecuteGrantBonusTicketFromTreasury(sender, owner, picks, funds)
  BY <1>2, GrantMoves, SponsoredGrantMoves
<1>3. ASSUME UNCHANGED treasuryVars, UNCHANGED referralVars,
             \/ UNCHANGED lotteryVars \/ CloseRound \/ Tick
             \/ \E backfill, reset : Migrate(backfill, reset)
      PROVE  LedgerMove
  BY <1>3, IdleMoves, SameReferrals
<1>4. CASE ExecuteCloseRound
  BY <1>3, <1>4 DEF ExecuteCloseRound
<1>5. CASE \E sender \in Accounts, r \in DOMAIN rounds :
             \/ \E randomness \in Values, signature \in Signatures :
                  ExecuteSubmitRandomness(sender, r, randomness, signature)
             \/ \E value \in Nonces : ExecuteCommitRandomness(sender, r, Sha256(value))
             \/ \E value \in Nonces : ExecuteRevealRandomness(sender, r, value)
             \/ ExecuteCancelRound(sender, r)
  <2>1. CASE \E r \in DOMAIN rounds : CancelledBy(r)
    BY <2>1, FinishMoves
  <2>2. CASE ~ \E r \in DOMAIN rounds : CancelledBy(r)
    BY <1>3, <1>5, <2>2 DEF ExecuteSubmitRandomness, ExecuteCommitRandomness,
                            ExecuteRevealRandomness, CancelledBy
  <2> QED  BY <2>1, <2>2
<1>6. CASE \E r \in DOMAIN rounds : ExecuteDraw(r)
  BY <1>6, FinishMoves
<1>7. CASE \E r \in DOMAIN rounds : \E i \in DOMAIN tickets[r] :
             ExecuteClaimReward(tickets[r][i].owner, r, i)
  BY <1>7, ClaimMoves
<1>8. CASE \/ \E referee, target \in Accounts : ExecuteBindReferrer(referee, target)
           \/ \E referee \in Accounts, code \in Codes :
                ExecuteBindReferrer(referee, CodeOwner(code))
           \/ \E sender \in Accounts, code \in Codes : ExecuteRegisterCode(sender, code)
  <2>1. UNCHANGED treasuryVars /\ UNCHANGED earnings /\ UNCHANGED lotteryVars
    BY <1>8 DEF ExecuteBindReferrer, ExecuteRegisterCode, BindReferrer, RegisterCode
  <2> QED  BY <2>1, IdleMoves
<1>9. CASE \E claimant \in Accounts : ExecuteClaimReferral(claimant)
  BY <1>9, ClaimReferralMoves
<1>10. CASE \E sender \in Accounts, amount \in Withdrawals : ExecuteWithdrawTreasury(sender, amount)
  BY <1>10, WithdrawalMoves
<1>11. CASE \E sender \in Accounts, r \in RoundIds, funds \in Payments :
              \/ ExecuteTopUpPool(sender, r, funds)
              \/ ExecuteCancelPendingTopUp(sender, r, funds)
  BY <1>11, TopUpMoves, CancelTopUpMoves
<1>12. CASE \E new \in Migrations, reset \in BOOLEAN,
               backfill \in {{}} \cup {{amount} : amount \in Backfills} :
              ExecuteMigrate(new, backfill, reset)
  BY <1>3, <1>12 DEF ExecuteMigrate
<1>13. CASE \/ \E sender \in Accounts, new \in Settings : ExecuteSetConfig(sender, new)
            \/ \E sender \in Accounts, paused \in BOOLEAN : ExecuteSetPaused(sender, paused)
            \/ NextBlock
            \/ UNCHANGED vars
  BY <1>3, <1>13 DEF ExecuteSetConfig, ExecuteSetPaused, NextBlock, vars
<1>14. CASE \E funds \in Payments : Gift(funds)
  BY <1>14, GiftMoves
<1> QED
  BY <1>1, <1>2, <1>4, <1>5, <1>6, <1>7, <1>8, <1>9, <1>10, <1>11, <1>12, <1>13, <1>14
  DEF WinsafNext

\* With the surplus: what the balance exceeds the purses by is never negative.
SolventInv == BooksInv /\ Books!Surplus >= 0

LEMMA BooksInitInv ==
  ASSUME WinsafInit
  PROVE  SolventInv /\ Books!Init
<1>1. WinsafInv /\ ReferralInv
  BY WinsafInitInv, ReferralInitInv DEF WinsafInit
<1>2. TreasuryTypeOK /\ bank = 0 /\ treasury = 0
  BY DEF WinsafInit, TreasuryInit, TreasuryTypeOK
<1>3. TotalEscrow = 0
  <2>1. pending_topups = [r \in RoundIds |-> 0]
    BY DEF WinsafInit, TreasuryInit
  <2> QED  BY <2>1, RoundIdsFinite, TotalZero DEF TotalEscrow
<1>4. TotalEarnings = 0
  <2>1. earnings = [a \in Accounts |-> 0] /\ IsFiniteSet(Accounts)
    BY BasicsAssumption DEF WinsafInit, ReferralInit
  <2> QED  BY <2>1, TotalZero DEF TotalEarnings
<1>5. TotalPools = 0
  <2>1. [r \in DOMAIN rounds |-> rounds[r].pool] = [r \in {1} |-> 0]
    BY DEF WinsafInit, NewOpen
  <2>2. IsFiniteSet({1})
    BY FS_Singleton
  <2> QED  BY <2>1, <2>2, TotalZero DEF TotalPools
<1> QED  BY <1>1, <1>2, <1>3, <1>4, <1>5 DEF SolventInv, BooksInv, Books!Init, Books!Surplus

LEMMA BooksNextInv ==
  ASSUME SeedsAreValues, BooksInv, [WinsafNext]_vars
  PROVE  BooksInv' /\ LedgerMove
<1>1. WinsafInv' /\ LotteryInv'
  BY WinsafNextInv DEF BooksInv, WinsafInv
<1>2. LedgerMove
  BY <1>1, LedgerStep
<1>3. ReferralInv'
  BY ReferralStep, MoveInv DEF BooksInv, WinsafInv
<1>4. TreasuryTypeOK'
  <2>1. pending_topups' \in [RoundIds -> 0..MaxEscrow] /\ 0..MaxEscrow \subseteq Nat
    BY <1>1 DEF WinsafInv, EscrowInv
  <2>2. pending_topups' \in [RoundIds -> Nat]
    BY <2>1
  <2> QED  BY <1>2, <2>2 DEF LedgerMove, TreasuryTypeOK
<1> QED  BY <1>1, <1>2, <1>3, <1>4 DEF BooksInv

\* At the next state, of which the lemma on the totals speaks as well.
LEMMA NextTotals ==
  BooksInv' => /\ bank' \in Nat /\ TotalPools' \in Nat /\ TotalEarnings' \in Nat
               /\ treasury' \in Nat /\ TotalEscrow' \in Nat
<1> SUFFICES ASSUME BooksInv'
             PROVE  /\ bank' \in Nat /\ TotalPools' \in Nat /\ TotalEarnings' \in Nat
                    /\ treasury' \in Nat /\ TotalEscrow' \in Nat
  OBVIOUS
<1>1. bank' \in Nat /\ treasury' \in Nat /\ pending_topups' \in [RoundIds -> Nat]
  BY DEF BooksInv, TreasuryTypeOK
<1>2. TotalEscrow' \in Nat
  BY <1>1, RoundIdsFinite, TotalNat DEF TotalEscrow
<1>3. TotalEarnings' \in Nat
  <2>1. earnings' \in [Accounts -> Nat] /\ IsFiniteSet(Accounts)
    BY BasicsAssumption DEF BooksInv, ReferralInv, ReferralTypeOK
  <2> QED  BY <2>1, TotalNat DEF TotalEarnings
<1>4. TotalPools' \in Nat
  <2>1. current_round' \in Nat /\ rounds' \in [1..current_round' -> Round]
    BY DEF BooksInv, WinsafInv, LotteryInv, TypeOK
  <2>2. PoolOf(rounds') \in [DOMAIN rounds' -> Nat] /\ IsFiniteSet(DOMAIN rounds')
    BY <2>1, PoolOfType
  <2>3. SumFunction(PoolOf(rounds')) \in Nat
    BY <2>2, TotalNat
  <2> QED  BY <2>3 DEF TotalPools, PoolOf
<1> QED  BY <1>1, <1>2, <1>3, <1>4

\* A move within the natural numbers is a step of the ledger, and never takes from
\* what belongs to nobody.
LEMMA MoveIsStep ==
  ASSUME BooksInv, BooksInv', LedgerMove
  PROVE  /\ [Books!Next]_<<bank, Books!purses>>
         /\ Books!Surplus' >= Books!Surplus
<1>1. /\ bank \in Nat /\ TotalPools \in Nat /\ TotalEarnings \in Nat
      /\ treasury \in Nat /\ TotalEscrow \in Nat
  BY TotalsType
<1>2. /\ bank' \in Nat /\ TotalPools' \in Nat /\ TotalEarnings' \in Nat
      /\ treasury' \in Nat /\ TotalEscrow' \in Nat
  BY NextTotals
<1>3. [Books!Next]_<<bank, Books!purses>>
  BY <1>2 DEF LedgerMove, Books!Next
<1>4. CASE UNCHANGED <<bank, Books!purses>>
  BY <1>1, <1>3, <1>4 DEF Books!Surplus, Books!purses
<1>5. CASE Books!Given
  <2>1. /\ bank' > bank /\ TotalPools' = TotalPools /\ TotalEarnings' = TotalEarnings
        /\ treasury' = treasury /\ TotalEscrow' = TotalEscrow
    BY <1>5 DEF Books!purses, Books!Given
  <2> DEFINE owed == TotalPools + TotalEarnings + treasury + TotalEscrow
  <2>2. Books!Surplus = bank - owed /\ Books!Surplus' = bank' - owed /\ owed \in Nat
    BY <1>1, <2>1 DEF Books!Surplus
  <2> HIDE DEF owed
  <2>3. \A a, b \in Int : a > b => a - owed >= b - owed
    BY <2>2
  <2>4. bank \in Int /\ bank' \in Int /\ bank' > bank
    BY <1>1, <1>2, <2>1
  <2>5. bank' - owed >= bank - owed
    BY <2>3, <2>4
  <2>6. Books!Surplus' >= Books!Surplus
    BY <2>2, <2>5
  <2> QED  BY <1>3, <2>6
<1>6. CASE Books!Surplus' = Books!Surplus
  <2>1. Books!Surplus \in Int
    BY <1>1 DEF Books!Surplus
  <2>2. Books!Surplus' >= Books!Surplus
    BY <1>6, <2>1
  <2> QED  BY <1>3, <2>2
<1> QED  BY <1>3, <1>4, <1>5, <1>6 DEF LedgerMove

LEMMA SolventNextInv ==
  ASSUME SeedsAreValues, SolventInv, [WinsafNext]_vars
  PROVE  SolventInv' /\ [Books!Next]_<<bank, Books!purses>>
<1>1. BooksInv /\ BooksInv' /\ LedgerMove
  BY BooksNextInv DEF SolventInv
<1>2. [Books!Next]_<<bank, Books!purses>> /\ Books!Surplus' >= Books!Surplus
  BY <1>1, MoveIsStep
<1>3. Books!Surplus \in Int /\ Books!Surplus' \in Int
  <2>1. Books!Surplus \in Int
    BY <1>1, TotalsType DEF Books!Surplus
  <2>2. Books!Surplus' \in Int
    BY <1>1, NextTotals DEF Books!Surplus
  <2> QED  BY <2>1, <2>2
<1>4. Books!Surplus' >= 0
  BY <1>2, <1>3 DEF SolventInv
<1> QED  BY <1>1, <1>2, <1>4 DEF SolventInv

LEMMA SolventAlways == SeedsAreValues /\ WinsafSpec => []SolventInv
<1> SUFFICES ASSUME SeedsAreValues PROVE WinsafSpec => []SolventInv
  OBVIOUS
<1>1. WinsafInit => SolventInv
  BY BooksInitInv
<1>2. SolventInv /\ [WinsafNext]_vars => SolventInv'
  BY SolventNextInv
<1> QED  BY <1>1, <1>2, PTL DEF WinsafSpec

-----------------------------------------------------------------------------
(* The theorems *)

\* The contract implements the ledger: over sales, draws, cancellations, sweeps and
\* claims the balance is what the four purses add up to and what was given for
\* nothing, and money moves only between them, in or out, as module Ledger says.
THEOREM BooksKept == SeedsAreValues /\ WinsafSpec => KeepsBooks
<1> SUFFICES ASSUME SeedsAreValues PROVE WinsafSpec => KeepsBooks
  OBVIOUS
<1>1. WinsafInit => Books!Init
  BY BooksInitInv
<1>2. SolventInv /\ [WinsafNext]_vars => [Books!Next]_<<bank, Books!purses>>
  BY SolventNextInv
<1>3. WinsafSpec => []SolventInv
  BY SolventAlways
<1> QED  BY <1>1, <1>2, <1>3, PTL DEF WinsafSpec, KeepsBooks, Books!Spec

\* The balance covers all pools, earnings, treasury and escrow together.
THEOREM SolvencyAlways ==
  SeedsAreValues /\ WinsafSpec
    => [](TotalPools + TotalEarnings + treasury + TotalEscrow <= bank)
<1>1. SolventInv => TotalPools + TotalEarnings + treasury + TotalEscrow <= bank
  BY TotalsType DEF SolventInv, Books!Surplus
<1> QED  BY <1>1, SolventAlways, PTL

\* Every pool, every referrer's earnings, the treasury and every escrow is within
\* the balance: no payment is refused for lack of money.
THEOREM PaymentsCoveredAlways == SeedsAreValues /\ WinsafSpec => []PaymentsCovered
<1>1. SolventInv => PaymentsCovered
  <2> SUFFICES ASSUME SolventInv PROVE PaymentsCovered
    OBVIOUS
  <2>1. /\ bank \in Nat /\ TotalPools \in Nat /\ TotalEarnings \in Nat
        /\ treasury \in Nat /\ TotalEscrow \in Nat
        /\ \A r \in DOMAIN rounds : rounds[r].pool <= TotalPools
        /\ \A a \in Accounts : earnings[a] <= TotalEarnings
        /\ \A r \in RoundIds : pending_topups[r] <= TotalEscrow
    BY TotalsType DEF SolventInv
  <2>2. /\ TotalPools <= bank /\ TotalEarnings <= bank
        /\ treasury <= bank /\ TotalEscrow <= bank
    BY <2>1 DEF SolventInv, Books!Surplus
  <2>3. ASSUME NEW r \in DOMAIN rounds
        PROVE  rounds[r].pool <= bank
    <3>1. rounds[r].pool \in Nat
      BY DEF SolventInv, BooksInv, WinsafInv, LotteryInv, TypeOK, Round
    <3> QED  BY <2>1, <2>2, <3>1
  <2>4. ASSUME NEW a \in Accounts
        PROVE  earnings[a] <= bank
    <3>1. earnings[a] \in Nat
      BY DEF SolventInv, BooksInv, ReferralInv, ReferralTypeOK
    <3> QED  BY <2>1, <2>2, <3>1
  <2>5. ASSUME NEW r \in RoundIds
        PROVE  pending_topups[r] <= bank
    <3>1. pending_topups[r] \in Nat
      BY DEF SolventInv, BooksInv, TreasuryTypeOK
    <3> QED  BY <2>1, <2>2, <3>1
  <2> QED  BY <2>2, <2>3, <2>4, <2>5 DEF PaymentsCovered
<1> QED  BY <1>1, SolventAlways, PTL

\* A referrer's ledger balances in the whole contract too: the sales of the lottery
\* credit it, and a payment the bank refuses changes nothing.
THEOREM EarningsBalanceInContract == SeedsAreValues /\ WinsafSpec => []EarningsBalance
<1>1. SolventInv => EarningsBalance
  BY DEF SolventInv, BooksInv, ReferralInv
<1> QED  BY <1>1, SolventAlways, PTL

\* Nor do sales, or the order of bindings and registrations, upset who refers whom.
THEOREM RefereesCountedInContract == SeedsAreValues /\ WinsafSpec => []RefereesCounted
<1>1. SolventInv => RefereesCounted
  BY DEF SolventInv, BooksInv, ReferralInv
<1> QED  BY <1>1, SolventAlways, PTL

\* Who referred whom and who owns which code stays for good under every message, the
\* sales that are credited by a code and migrations among them.
THEOREM BindingsPermanentInContract == SeedsAreValues /\ WinsafSpec => BindingsPermanent
<1>1. SolventInv /\ [WinsafNext]_vars => [BindingsKept]_referralVars
  BY ReferralStep, MoveKeepsBindings DEF SolventInv, BooksInv, WinsafInv
<1> QED  BY <1>1, SolventAlways, PTL DEF WinsafSpec, BindingsPermanent, BindingsKept

\* All the state of the contract keeps its types, the configuration among those the
\* operator may choose, the slots among the rounds that exist.
THEOREM WinsafTypeCorrect == SeedsAreValues /\ WinsafSpec => []WinsafTypeOK
<1>1. SolventInv => WinsafTypeOK
  <2> SUFFICES ASSUME SolventInv PROVE WinsafTypeOK
    OBVIOUS
  <2> USE DEF SolventInv, BooksInv, WinsafInv
  <2>1. TypeOK /\ ReferralTypeOK /\ TreasuryTypeOK
    BY DEF LotteryInv, ReferralInv
  <2>2. /\ DOMAIN requests \subseteq DOMAIN rounds
        /\ \A r \in DOMAIN requests : requests[r] \in RandomnessRequest
        /\ height \in 0..MaxHeight
    BY DEF SlotsInv
  <2>3. [config EXCEPT !.paused = FALSE] \in Settings
    BY DEF ConfigInv
  <2> QED  BY <2>1, <2>2, <2>3 DEF WinsafTypeOK
<1> QED  BY <1>1, SolventAlways, PTL
=============================================================================
