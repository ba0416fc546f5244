--------------------------- MODULE ReferralProofs ---------------------------
(***************************************************************************)
(* The referral ledger's invariants, for any finite set of accounts, any   *)
(* codes and any amounts.                                                  *)
(***************************************************************************)
EXTENDS Referral, FiniteSetTheorems, TLAPS

\* A code stands for an account or for nobody, whatever the buyer sends along.
LEMMA CodeOwnerType ==
  ASSUME ReferralTypeOK, NEW code
  PROVE  CodeOwner(code) \in Maybe
  BY DEF CodeOwner, ReferralTypeOK, Maybe

LEMMA ResolveType ==
  ASSUME ReferralTypeOK, NEW buyer \in Accounts, NEW code
  PROVE  ResolveBuyerReferrer(buyer, code) \in Maybe
<1>1. CodeOwner(code) \in Maybe
  BY CodeOwnerType
<1>2. referrer[buyer] \in Maybe /\ Nobody \in Maybe
  BY DEF ReferralTypeOK, Maybe
<1> QED  BY <1>1, <1>2 DEF ResolveBuyerReferrer

\* What a step may do to the ledger, without the way a referrer is found.
ReferralMove ==
  \/ \E account \in Accounts, amount \in Nat : Credit(account, amount)
  \/ \E target : \E referee \in Accounts : BindReferrer(referee, target)
  \/ \E sender \in Accounts, code \in Codes : \E open : RegisterCode(sender, code, open)
  \/ \E claimant \in Accounts, min_claim \in Nat : ClaimReferral(claimant, min_claim)
  \/ UNCHANGED referralVars

LEMMA ReferralSteps ==
  ASSUME ReferralTypeOK, [ReferralNext]_referralVars
  PROVE  ReferralMove
<1> USE DEF ReferralMove
<1>1. CASE \E buyer \in Accounts, code \in Codes, amount \in Credits :
             CreditSale(buyer, code, amount)
  <2>1. PICK buyer \in Accounts, code \in Codes, amount \in Credits :
          CreditSale(buyer, code, amount)
    BY <1>1
  <2>2. ResolveBuyerReferrer(buyer, code) \in Accounts
    BY <2>1, ResolveType DEF CreditSale, Maybe
  <2>3. amount \in Nat
    BY ReferralAssumption
  <2> QED  BY <2>1, <2>2, <2>3 DEF CreditSale
<1>2. CASE \E referee, target \in Accounts : BindReferrer(referee, target)
  BY <1>2
<1>3. CASE \E referee \in Accounts, code \in Codes : BindByCode(referee, code)
  BY <1>3 DEF BindByCode
<1>4. CASE \E sender \in Accounts, code \in Codes, open \in BOOLEAN :
             RegisterCode(sender, code, open)
  BY <1>4
<1>5. CASE \E claimant \in Accounts, min_claim \in Credits \cup {0} :
             ClaimReferral(claimant, min_claim)
  BY <1>5, ReferralAssumption
<1>6. CASE UNCHANGED referralVars
  BY <1>6
<1> QED  BY <1>1, <1>2, <1>3, <1>4, <1>5, <1>6 DEF ReferralNext

-----------------------------------------------------------------------------
(* The invariant *)

ReferralInv == ReferralTypeOK /\ EarningsBalance /\ RefereesCounted

LEMMA ReferralInitInv == ReferralInit => ReferralInv
<1> SUFFICES ASSUME ReferralInit PROVE ReferralInv
  OBVIOUS
<1>1. ReferralTypeOK
  BY DEF ReferralInit, ReferralTypeOK, Maybe, ReferrerTotals
<1>2. EarningsBalance
  BY DEF ReferralInit, EarningsBalance
<1>3. ASSUME NEW a \in Accounts
      PROVE  totals[a].referees = Cardinality(Referees(a)) /\ a \notin Referees(a)
  <2>1. Referees(a) = {}
    BY BasicsAssumption DEF ReferralInit, Referees
  <2> QED  BY <2>1, FS_EmptySet DEF ReferralInit
<1> QED  BY <1>1, <1>2, <1>3 DEF ReferralInv, RefereesCounted

\* A step that leaves the bindings and their counts alone keeps RefereesCounted.
LEMMA RefereesUntouched ==
  ASSUME RefereesCounted, UNCHANGED referrer,
         \A a \in Accounts : totals'[a].referees = totals[a].referees
  PROVE  RefereesCounted'
  BY DEF RefereesCounted, Referees

LEMMA CreditInv ==
  ASSUME ReferralInv, NEW account \in Accounts, NEW amount \in Nat, Credit(account, amount)
  PROVE  ReferralInv'
<1> USE DEF ReferralInv
<1>1. ReferralTypeOK'
  BY DEF ReferralTypeOK, Credit, ReferrerTotals
<1>2. EarningsBalance'
  BY DEF ReferralTypeOK, Credit, EarningsBalance, ReferrerTotals
<1>3. \A a \in Accounts : totals'[a].referees = totals[a].referees
  BY DEF ReferralTypeOK, Credit, ReferrerTotals
<1>4. UNCHANGED referrer
  BY DEF Credit
<1> QED  BY <1>1, <1>2, <1>3, <1>4, RefereesUntouched

LEMMA ClaimInv ==
  ASSUME ReferralInv, NEW claimant \in Accounts, NEW min_claim \in Nat,
         ClaimReferral(claimant, min_claim)
  PROVE  ReferralInv'
<1> USE DEF ReferralInv
<1>1. ReferralTypeOK'
  BY DEF ReferralTypeOK, ClaimReferral, ReferrerTotals
<1>2. EarningsBalance'
  BY DEF ReferralTypeOK, ClaimReferral, EarningsBalance, ReferrerTotals
<1>3. \A a \in Accounts : totals'[a].referees = totals[a].referees
  BY DEF ReferralTypeOK, ClaimReferral, ReferrerTotals
<1>4. UNCHANGED referrer
  BY DEF ClaimReferral
<1> QED  BY <1>1, <1>2, <1>3, <1>4, RefereesUntouched

LEMMA RegisterInv ==
  ASSUME ReferralInv, NEW sender \in Accounts, NEW code \in Codes, NEW open,
         RegisterCode(sender, code, open)
  PROVE  ReferralInv'
<1> USE DEF ReferralInv
<1>1. ReferralTypeOK'
  BY DEF ReferralTypeOK, RegisterCode, Maybe
<1>2. EarningsBalance'
  BY DEF RegisterCode, EarningsBalance
<1>3. RefereesCounted'
  BY RefereesUntouched DEF RegisterCode
<1> QED  BY <1>1, <1>2, <1>3

\* A binding adds the referee, unbound before, to the referees of its target.
LEMMA BindInv ==
  ASSUME ReferralInv, NEW referee \in Accounts, NEW target, BindReferrer(referee, target)
  PROVE  ReferralInv'
<1> USE DEF ReferralInv
<1>1. target \in Accounts /\ target # referee /\ target # Nobody
  BY BasicsAssumption DEF BindReferrer
<1>2. ReferralTypeOK'
  BY <1>1 DEF ReferralTypeOK, BindReferrer, ReferrerTotals, Maybe
<1>3. EarningsBalance'
  BY <1>1 DEF ReferralTypeOK, BindReferrer, EarningsBalance, ReferrerTotals
<1>4. ASSUME NEW a \in Accounts
      PROVE  totals'[a].referees = Cardinality(Referees(a)') /\ a \notin Referees(a)'
  <2>1. /\ totals[a].referees = Cardinality(Referees(a))
        /\ a \notin Referees(a)
    BY DEF RefereesCounted
  <2>2. IsFiniteSet(Referees(a))
    BY BasicsAssumption, FS_Subset DEF Referees
  <2>3. CASE a = target
    <3>1. Referees(a)' = Referees(a) \cup {referee}
      BY <1>1, <2>3 DEF Referees, BindReferrer, ReferralTypeOK
    <3>2. referee \notin Referees(a)
      BY <1>1, <2>3 DEF Referees, BindReferrer
    <3>3. Cardinality(Referees(a)') = Cardinality(Referees(a)) + 1
      BY <2>2, <3>1, <3>2, FS_AddElement
    <3>4. totals'[a].referees = totals[a].referees + 1
      BY <2>3 DEF BindReferrer, ReferralTypeOK, ReferrerTotals
    <3> QED  BY <1>1, <2>1, <2>3, <3>1, <3>3, <3>4
  <2>4. CASE a # target
    <3>1. Referees(a)' = Referees(a)
      BY <1>1, <2>4, BasicsAssumption DEF Referees, BindReferrer, ReferralTypeOK
    <3>2. totals'[a].referees = totals[a].referees
      BY <2>4 DEF BindReferrer, ReferralTypeOK, ReferrerTotals
    <3> QED  BY <2>1, <3>1, <3>2
  <2> QED  BY <2>3, <2>4
<1> QED  BY <1>2, <1>3, <1>4 DEF RefereesCounted

LEMMA MoveInv ==
  ASSUME ReferralInv, ReferralMove
  PROVE  ReferralInv'
<1>1. CASE \E account \in Accounts, amount \in Nat : Credit(account, amount)
  BY <1>1, CreditInv
<1>2. CASE \E target : \E referee \in Accounts : BindReferrer(referee, target)
  BY <1>2, BindInv
<1>3. CASE \E sender \in Accounts, code \in Codes : \E open : RegisterCode(sender, code, open)
  BY <1>3, RegisterInv
<1>4. CASE \E claimant \in Accounts, min_claim \in Nat : ClaimReferral(claimant, min_claim)
  BY <1>4, ClaimInv
<1>5. CASE UNCHANGED referralVars
  <2>1. UNCHANGED <<codes, referrer, earnings, totals>>
    BY <1>5 DEF referralVars
  <2>2. ReferralTypeOK' /\ EarningsBalance'
    BY <2>1 DEF ReferralInv, ReferralTypeOK, EarningsBalance
  <2>3. RefereesCounted'
    BY <2>1, RefereesUntouched DEF ReferralInv
  <2> QED  BY <2>2, <2>3 DEF ReferralInv
<1> QED  BY <1>1, <1>2, <1>3, <1>4, <1>5 DEF ReferralMove

LEMMA ReferralNextInv == ReferralInv /\ [ReferralNext]_referralVars => ReferralInv'
  BY ReferralSteps, MoveInv DEF ReferralInv

\* No move binds anew who is bound, or hands on a code that is owned.
BindingsKept ==
  /\ \A a \in Accounts : referrer[a] # Nobody => referrer'[a] = referrer[a]
  /\ \A c \in Codes : codes[c] # Nobody => codes'[c] = codes[c]

LEMMA MoveKeepsBindings ==
  ASSUME ReferralInv, ReferralMove
  PROVE  BindingsKept
<1> USE DEF ReferralInv, BindingsKept
<1>1. ASSUME NEW account \in Accounts, NEW amount \in Nat, Credit(account, amount)
      PROVE  BindingsKept
  BY <1>1 DEF Credit
<1>2. ASSUME NEW referee \in Accounts, NEW target, BindReferrer(referee, target)
      PROVE  BindingsKept
  BY <1>2 DEF BindReferrer, ReferralTypeOK
<1>3. ASSUME NEW sender \in Accounts, NEW code \in Codes, NEW open,
             RegisterCode(sender, code, open)
      PROVE  BindingsKept
  BY <1>3 DEF RegisterCode, ReferralTypeOK
<1>4. ASSUME NEW claimant \in Accounts, NEW min_claim \in Nat, ClaimReferral(claimant, min_claim)
      PROVE  BindingsKept
  BY <1>4 DEF ClaimReferral
<1>5. CASE UNCHANGED referralVars
  BY <1>5 DEF referralVars
<1> HIDE DEF BindingsKept
<1> QED  BY <1>1, <1>2, <1>3, <1>4, <1>5 DEF ReferralMove

-----------------------------------------------------------------------------
(* The theorems *)

\* The referral ledger is well typed and balanced at all times, and counts the
\* referees of everyone right, over any sales, bindings and claims.
THEOREM ReferralInvariant == ReferralSpec => []ReferralInv
  BY ReferralInitInv, ReferralNextInv, PTL DEF ReferralSpec

\* The ledger's four maps keep their types, under any step of the subsystem.
THEOREM ReferralTypeCorrect == ReferralSpec => []ReferralTypeOK
<1>1. ReferralInv => ReferralTypeOK
  BY DEF ReferralInv
<1> QED  BY <1>1, ReferralInvariant, PTL

\* What a referrer was credited is what is owed plus what was paid.
THEOREM EarningsBalanceAlways == ReferralSpec => []EarningsBalance
<1>1. ReferralInv => EarningsBalance
  BY DEF ReferralInv
<1> QED  BY <1>1, ReferralInvariant, PTL

\* The number of referees in a referrer's totals is the number of accounts bound
\* to it, and nobody is their own referrer.
THEOREM RefereesCountedAlways == ReferralSpec => []RefereesCounted
<1>1. ReferralInv => RefereesCounted
  BY DEF ReferralInv
<1> QED  BY <1>1, ReferralInvariant, PTL

\* A binding and the ownership of a code are for good.
THEOREM BindingsArePermanent == ReferralSpec => BindingsPermanent
<1>1. ReferralInv /\ [ReferralNext]_referralVars => [BindingsKept]_referralVars
  BY ReferralSteps, MoveKeepsBindings DEF ReferralInv
<1> QED  BY <1>1, ReferralInvariant, PTL DEF ReferralSpec, BindingsPermanent, BindingsKept
=============================================================================
