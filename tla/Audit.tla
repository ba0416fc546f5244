-------------------------------- MODULE Audit --------------------------------
(***************************************************************************)
(* The contract with someone who watches it and writes down what the       *)
(* contract itself forgets: the beacon key a round was closed under, and   *)
(* the number domains in force while the round was in flight.  The three   *)
(* variables are history: no action of the contract reads them.  With them *)
(* it can be said of every round, long after, how its outcome came about.  *)
(***************************************************************************)
EXTENDS Winsaf

VARIABLES
  closing_key,  \* round -> the configured drand key when its slot was created
  domains,      \* round -> the number domains in force while it was in flight
  last_domain   \* round -> the last of them, so of a settled round that of its draw

auditVars == <<vars, closing_key, domains, last_domain>>

AuditInit ==
  /\ WinsafInit
  /\ closing_key = << >>
  /\ domains = [r \in {1} |-> {Domain(config)}]
  /\ last_domain = [r \in {1} |-> Domain(config)]

\* What the observer notes of a step.
Observe ==
  /\ closing_key' = [r \in DOMAIN requests' |->
       IF r \in DOMAIN requests THEN closing_key[r] ELSE config.drand_pubkey]
  /\ domains' = [r \in DOMAIN rounds' |->
       (IF r \in DOMAIN rounds THEN domains[r] ELSE {})
         \cup (IF r = current_round' THEN {Domain(config')} ELSE {})]
  /\ last_domain' = [r \in DOMAIN rounds' |->
       IF r = current_round' THEN Domain(config') ELSE last_domain[r]]

AuditNext == WinsafNext /\ Observe

AuditSpec == AuditInit /\ [][AuditNext]_auditVars
-----------------------------------------------------------------------------
(* Properties *)

Settled(r) == rounds[r].status = "Settled"

\* A settled round has the numbers of the value its slot still holds, under the
\* domain in force when it was drawn, and keeps them when the domain is migrated
\* afterwards; a round that was not drawn has none.
DrawnFromSlot ==
  \A r \in DOMAIN rounds :
    IF Settled(r)
      THEN /\ Fulfilled(r)
           /\ rounds[r].winning_numbers
                = WinningNumbersFor(requests[r].randomness, last_domain[r])
      ELSE rounds[r].winning_numbers = {}

\* The number domain can be migrated while tickets are sold and while a closed round
\* waits for its draw, and then a round is drawn under another domain than some of
\* its tickets were sold under.  It takes such a migration: of a round in flight under
\* one domain only, all tickets and, once drawn, the numbers are of that domain.
DrawnAsSold ==
  \A r \in DOMAIN rounds : \A d \in domains[r] :
    domains[r] = {d} =>
      /\ \A i \in DOMAIN tickets[r] : InDomain(tickets[r][i].numbers, d)
      /\ Settled(r) => InDomain(rounds[r].winning_numbers, d)

\* That value is the outcome of round r, and its numbers are made of it.
Yields(r, value) ==
  /\ requests[r].randomness = value
  /\ Settled(r) => rounds[r].winning_numbers = WinningNumbersFor(value, last_domain[r])

\* Anyone can recompute the numbers of a round from public values: if a beacon was
\* submitted, from the signature of the very beacon the round was bound to at its
\* close, under the key configured then (a cancelled round, whose slot nobody reads
\* any more, may be filled under a later key); if a value was revealed, from the
\* committed one, the tickets the round has to this day, and the time and height of a
\* block after the commitment's.
OutcomeAuditable ==
  \A r \in DOMAIN requests :
    LET slot == requests[r]
    IN  Fulfilled(r) =>
          IF slot.signature # NoValue
            THEN /\ slot.signature.round = slot.beacon_round
                 /\ rounds[r].status # "Cancelled" => slot.signature.key = closing_key[r]
                 /\ Yields(r, Sha256(slot.signature))
            ELSE \E value \in Nonces, time \in StartTime..now,
                    block \in slot.commit_height + 1..height :
                   /\ slot.commitment = Sha256(value)
                   /\ Yields(r, RevealSeed(value, Entropy(r), time, block))
=============================================================================
