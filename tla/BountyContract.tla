--------------------------- MODULE BountyContract ---------------------------
(***************************************************************************)
(* The Soroban contract of contracts/src/lib.rs: its storage and the       *)
(* balances its token transfers move.  A call is one transaction: a panic, *)
(* in the contract or in a token, leaves everything as it was, so a call   *)
(* that panics is a step that is not enabled.                              *)
(***************************************************************************)
EXTENDS Integers, FiniteSets, FiniteSetsExt

CONSTANTS
  Accounts,     \* creators, hunters and fee recipients
  Contract,     \* current_contract_address()
  Tokens,
  Ids,          \* the ids the run can assign, 0..n: a bound on create_bounty()
  Amounts, FeeBps,   \* the arguments creators pass
  Supply,       \* what an account holds of each token at the start
  I128Max,
  NoOne         \* an absent storage entry

ASSUME BountyAssumption ==
  /\ Contract \notin Accounts
  /\ NoOne \notin Accounts \cup {Contract}
  /\ Amounts \subseteq Int /\ FeeBps \subseteq Nat /\ Supply \in Nat
  /\ I128Max \in Nat

VARIABLES
  feeRecipient, nextId, bounties, balance,
  early         \* has a bounty been created before initialize()?

bountyVars == <<feeRecipient, nextId, bounties, balance, early>>

BPS == 10000

Bounty ==
  [creator : Accounts, hunter : Accounts, token : Tokens,
   amount : Amounts, protocol_fee_bps : FeeBps, released : BOOLEAN]

NoBounty == [released |-> NoOne]

Stored == {id \in Ids : bounties[id] # NoBounty}

BountyInit ==
  /\ feeRecipient = NoOne
  /\ nextId = 0          \* unwrap_or(0) before initialize(), stored after it
  /\ bounties = [id \in Ids |-> NoBounty]
  /\ balance = [t \in Tokens |-> [a \in Accounts \cup {Contract} |->
                                    IF a = Contract THEN 0 ELSE Supply]]
  /\ early = FALSE

-----------------------------------------------------------------------------

\* Balances of one token after a transfer.
Moved(b, from, to, n) ==
  [a \in DOMAIN b |-> b[a] - (IF a = from THEN n ELSE 0) + (IF a = to THEN n ELSE 0)]

Initialize(a) ==
  /\ feeRecipient = NoOne
  /\ feeRecipient' = a
  /\ nextId' = 0
  /\ UNCHANGED <<bounties, balance, early>>

CreateBounty(b) ==
  /\ b.amount > 0 /\ b.protocol_fee_bps <= BPS
  /\ ~b.released
  /\ nextId \in Ids
  /\ balance[b.token][b.creator] >= b.amount
  /\ balance' = [balance EXCEPT ![b.token] = Moved(@, b.creator, Contract, b.amount)]
  /\ bounties' = [bounties EXCEPT ![nextId] = b]
  /\ nextId' = nextId + 1
  /\ early' = (early \/ feeRecipient = NoOne)
  /\ UNCHANGED feeRecipient

Fee(b) == (b.amount * b.protocol_fee_bps) \div BPS

PayoutOnTop(b) == b.amount

Payout(b) == b.amount - Fee(b)

\* The product is taken in i128 with overflow-checks on.
FeeFits(b) == b.amount * b.protocol_fee_bps <= I128Max

\* release_bounty(), called by the creator: the fee first, unless it is zero,
\* then the payout, which may be zero.
ReleaseBounty(id) ==
  LET b == bounties[id]
      afterFee == Moved(balance[b.token], Contract, feeRecipient, Fee(b))
  IN  /\ b # NoBounty
      /\ ~b.released
      /\ feeRecipient # NoOne
      /\ FeeFits(b)
      /\ balance[b.token][Contract] >= Fee(b)
      /\ afterFee[Contract] >= Payout(b)
      /\ balance' = [balance EXCEPT ![b.token] =
                       Moved(afterFee, Contract, b.hunter, Payout(b))]
      /\ bounties' = [bounties EXCEPT ![id].released = TRUE]
      /\ UNCHANGED <<feeRecipient, nextId, early>>

BountyNext ==
  \/ \E a \in Accounts : Initialize(a)
  \/ \E b \in Bounty : CreateBounty(b)
  \/ \E id \in Ids : ReleaseBounty(id)

BountySpec == BountyInit /\ [][BountyNext]_bountyVars

-----------------------------------------------------------------------------
(* Properties.                                                             *)

\* The storage and the balances keep their types; no balance is negative.
BountyTypeOK ==
  /\ feeRecipient \in Accounts \cup {NoOne}
  /\ nextId \in Nat
  /\ bounties \in [Ids -> Bounty \cup {NoBounty}]
  /\ balance \in [Tokens -> [Accounts \cup {Contract} -> Nat]]
  /\ early \in BOOLEAN

Open(t) == {id \in Stored : bounties[id].token = t /\ ~bounties[id].released}

Owed(t) == MapThenSumSet(LAMBDA id : bounties[id].amount, Open(t))

\* Whatever order bounties are created and released in, the contract can pay
\* every bounty that is still open, in every token, and holds nothing besides: a
\* release pays the whole amount out, as fee and payout together, rounding
\* included.  create_bounty() does not ask for initialize(), which starts the ids
\* again at 0, so the second half is so only if no bounty was created before it.
Solvent ==
  \A t \in Tokens :
    /\ balance[t][Contract] >= Owed(t)
    /\ ~early => balance[t][Contract] = Owed(t)

=============================================================================
