------------------------------- MODULE MCAudit -------------------------------
(***************************************************************************)
(* The instance of Audit for TLC: a ticket of either number domain may be  *)
(* sold, and the reveals hash it.                                          *)
(***************************************************************************)
EXTENDS MCWinsaf, Audit

\* A slip of the first domain and one that only the second admits.
AuditPicks == {Lucky, Later}
AuditPayments == {<<>>, <<Money(TicketPrice)>>}

\* All of a sale goes to the pool, and alice is the only buyer.
AuditSplit == [prize_bps |-> 10000, referral_bps |-> 0, treasury_bps |-> 0]
AuditBounded ==
  /\ ~config.paused /\ \A a \in Accounts : referrer[a] = Nobody
  /\ \A r \in DOMAIN rounds : Owners(tickets[r]) \subseteq {alice}
  /\ Cardinality({r \in DOMAIN rounds : tickets[r] # <<>>}) <= MaxTicketsSold
  /\ bank = TotalPools

Entropies == {<<>>} \cup {<< <<alice, picks>> >> : picks \in AuditPicks}

\* A reveal takes a closed round and the block after its commitment's.
AuditValues ==
  Digests \cup {MCRevealSeed(value, entropy, time, block) :
                  value \in Nonces, entropy \in Entropies,
                  time \in StartTime + 1..Horizon, block \in 2..MaxHeight}
=============================================================================
