------------------------------ MODULE Referral ------------------------------
(***************************************************************************)
(* The referral subsystem of contracts/winsaf/src/contract.rs: codes, the  *)
(* permanent binding of a referee to a referrer, and the ledger of each    *)
(* referrer's accrued and paid earnings.  BuyTickets credits the ledger    *)
(* (Credit); ReferralNext lets it do so with any amount in Credits.  A     *)
(* code is its normalised form; addresses and codes are well formed.       *)
(***************************************************************************)
EXTENDS Basics

CONSTANTS
  Codes,        \* normalised referral codes
  Credits,      \* the referral cuts a sale may credit
  MaxLifetime   \* bound of the model on what one referrer ever earns

ASSUME ReferralAssumption ==
  /\ Credits \subseteq Nat \ {0}
  /\ MaxLifetime \in Nat

VARIABLES
  codes,      \* REFERRAL_CODES: code -> its owner
  referrer,   \* REFERRER: referee -> referrer
  earnings,   \* REFERRAL_EARNINGS: referrer -> accrued and not yet claimed
  totals      \* REFERRAL_TOTALS: referrer -> lifetime aggregates

referralVars == <<codes, referrer, earnings, totals>>

ReferrerTotals == [lifetime_earned : Nat, lifetime_claimed : Nat, referees : Nat]

ReferralTypeOK ==
  /\ codes \in [Codes -> Maybe]
  /\ referrer \in [Accounts -> Maybe]
  /\ earnings \in [Accounts -> Nat]
  /\ totals \in [Accounts -> ReferrerTotals]

ReferralInit ==
  /\ codes = [c \in Codes |-> Nobody]
  /\ referrer = [a \in Accounts |-> Nobody]
  /\ earnings = [a \in Accounts |-> 0]
  /\ totals = [a \in Accounts |->
                [lifetime_earned |-> 0, lifetime_claimed |-> 0, referees |-> 0]]

\* The account a code stands for: none for an unknown code or for no code at all.
CodeOwner(code) == IF code \in Codes THEN codes[code] ELSE Nobody

\* resolve_buyer_referrer: a binding wins over a code, one's own code counts for none.
ResolveBuyerReferrer(buyer, code) ==
  IF referrer[buyer] # Nobody THEN referrer[buyer]
  ELSE IF CodeOwner(code) = buyer THEN Nobody
  ELSE CodeOwner(code)

\* With a slip, for the checks: earnings are overwritten.
CreditOverwriting(account, amount) ==
  /\ totals[account].lifetime_earned + amount <= MaxLifetime
  /\ earnings' = [earnings EXCEPT ![account] = amount]
  /\ totals' = [totals EXCEPT ![account].lifetime_earned = @ + amount]
  /\ UNCHANGED <<codes, referrer>>

\* credit_referral
Credit(account, amount) ==
  /\ totals[account].lifetime_earned + amount <= MaxLifetime
  /\ earnings' = [earnings EXCEPT ![account] = @ + amount]
  /\ totals' = [totals EXCEPT ![account].lifetime_earned = @ + amount]
  /\ UNCHANGED <<codes, referrer>>

\* With a slip: not once, but again and again.
BindReferrerAgain(referee, target) ==
  /\ target \in Accounts \ {referee}
  /\ referrer' = [referrer EXCEPT ![referee] = target]
  /\ totals' = [totals EXCEPT ![target].referees = @ + 1]
  /\ UNCHANGED <<codes, earnings>>

\* execute_bind_referrer, once per referee, to the account named or the code's owner.
BindReferrer(referee, target) ==
  /\ referrer[referee] = Nobody
  /\ target \in Accounts \ {referee}
  /\ referrer' = [referrer EXCEPT ![referee] = target]
  /\ totals' = [totals EXCEPT ![target].referees = @ + 1]
  /\ UNCHANGED <<codes, earnings>>

BindByCode(referee, code) == BindReferrer(referee, CodeOwner(code))

\* With a slip: a code that is taken can be registered.
RegisterTakenCode(sender, code, may_register_new) ==
  /\ may_register_new
  /\ codes' = [codes EXCEPT ![code] = sender]
  /\ UNCHANGED <<referrer, earnings, totals>>

\* execute_register_code; may_register_new: registration is open or sender is the admin.
RegisterCode(sender, code, may_register_new) ==
  /\ codes[code] = sender \/ (codes[code] = Nobody /\ may_register_new)
  /\ codes' = [codes EXCEPT ![code] = sender]
  /\ UNCHANGED <<referrer, earnings, totals>>

\* With a slip: the minimum is paid, whatever has been earned.
ClaimReferralMinimum(claimant, min_claim) ==
  /\ earnings' = [earnings EXCEPT ![claimant] = @ - min_claim]
  /\ totals' = [totals EXCEPT ![claimant].lifetime_claimed = @ + min_claim]
  /\ UNCHANGED <<codes, referrer>>

\* execute_claim_referral pays all of earnings[claimant].
ClaimReferral(claimant, min_claim) ==
  /\ earnings[claimant] # 0
  /\ earnings[claimant] >= min_claim
  /\ earnings' = [earnings EXCEPT ![claimant] = 0]
  /\ totals' = [totals EXCEPT ![claimant].lifetime_claimed = @ + earnings[claimant]]
  /\ UNCHANGED <<codes, referrer>>

\* A sale to buyer under a code, its referral cut being amount.
CreditSale(buyer, code, amount) ==
  /\ ResolveBuyerReferrer(buyer, code) # Nobody
  /\ Credit(ResolveBuyerReferrer(buyer, code), amount)

ReferralNext ==
  \/ \E buyer \in Accounts, code \in Codes, amount \in Credits :
       CreditSale(buyer, code, amount)
  \/ \E referee, target \in Accounts : BindReferrer(referee, target)
  \/ \E referee \in Accounts, code \in Codes : BindByCode(referee, code)
  \/ \E sender \in Accounts, code \in Codes, open \in BOOLEAN :
       RegisterCode(sender, code, open)
  \/ \E claimant \in Accounts, min_claim \in Credits \cup {0} : ClaimReferral(claimant, min_claim)

ReferralSpec == ReferralInit /\ [][ReferralNext]_referralVars
-----------------------------------------------------------------------------
(* Properties *)

\* A referrer's ledger balances: what is still owed is what was ever credited
\* less what was ever paid, over any interleaving of sales, bindings and claims.
EarningsBalance ==
  \A a \in Accounts :
    totals[a].lifetime_earned = totals[a].lifetime_claimed + earnings[a]

Referees(a) == {b \in Accounts : referrer[b] = a}

\* The two records of who referred whom agree, and nobody refers themselves.
RefereesCounted ==
  \A a \in Accounts :
    /\ totals[a].referees = Cardinality(Referees(a))
    /\ a \notin Referees(a)

\* A binding and the ownership of a code are for good: no later code, binding or
\* registration moves a referee, or a code, to someone else.
BindingsPermanent ==
  [][/\ \A a \in Accounts : referrer[a] # Nobody => referrer'[a] = referrer[a]
     /\ \A c \in Codes : codes[c] # Nobody => codes'[c] = codes[c]
    ]_referralVars
=============================================================================
