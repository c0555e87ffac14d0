-------------------------- MODULE UserOpSubmission --------------------------
(***************************************************************************)
(* From a simulated job to a UserOperation on the chain: execute_erc4337   *)
(* and submit_user_operation_with_pre_verification_retry of src/worker,    *)
(* with the BundlerClient of src/relayer/erc4337 and the PaymasterSigner   *)
(* of src/relayer/paymaster they call.                                     *)
(*                                                                         *)
(* An attempt is one run of execute_erc4337.  All attempts here are of one *)
(* smart wallet, so they read and spend the same EntryPoint nonce.  The    *)
(* bundler and the chain are external.  A hash is the tuple of the fields  *)
(* it covers and a signature is the hash it signs; U256 has 2 * Half bits, *)
(* so a uint128 is below 2^Half.                                           *)
(***************************************************************************)
EXTENDS Naturals, Sequences, FiniteSets, FiniteSetsExt

CONSTANTS
    Attempts,     \* of one wallet, each of a job of its own
    Half,         \* bits of a uint128
    Estimates,    \* what eth_estimateUserOperationGas may answer
    Prices,       \* fees the bundler may recommend, with the base fee
    Rejections,   \* texts of a rejected eth_sendUserOperation, see Required
    Grace,        \* CLOCK_SKEW_GRACE_SECS
    Window,       \* validity_window_secs of the paymaster
    Timeout,      \* USER_OP_CONFIRMATION_TIMEOUT
    MaxTime

VARIABLES
    attempt,      \* attempt[a]: the await an attempt is at, and its operation
    nonce,        \* chain: the wallet's nonce at the EntryPoint
    deployed,     \* chain: the wallet has code
    mempool,      \* bundler: operations it may include
    receipts,     \* chain: hash and outcome of every included operation
    now

vars == <<attempt, nonce, deployed, mempool, receipts, now>>

NoData == <<>>
MaxUint128 == 2 ^ Half - 1
MaxUint == 2 ^ (2 * Half) - 1
SatAdd(x, y) == Min({x + y, MaxUint})

\* Mutant of PackTwo: the halves are exchanged.
PackSwapped(high, low) == (low % 2 ^ Half) * 2 ^ Half + (high % 2 ^ Half)

\* pack_two_uint128: what does not fit in 128 bits is cut off.
PackTwo(high, low) == (high % 2 ^ Half) * 2 ^ Half + (low % 2 ^ Half)

\* unpack_two_uint128_from_hex.
UnpackTwo(packed) == <<packed \div 2 ^ Half, packed % 2 ^ Half>>

\* The operation a worker builds (UserOperation of src/types).
Blank == [calls |-> "none", nonce |-> 0, init |-> FALSE, limits |-> 0, pvg |-> 0,
          fees |-> 0, paymaster |-> NoData, signature |-> NoData]

\* compute_paymaster_hash: all fields but paymasterAndData and signature, and
\* the validity.
PaymasterHash(op, until, after) ==
    <<op.calls, op.nonce, op.init, op.limits, op.pvg, op.fees, until, after>>

\* compute_user_op_hash: all fields but the signature.
OpHash(op) == [op EXCEPT !.signature = NoData]

\* to_rpc_user_operation: what the bundler sees of the gas fields.
Rpc(op) ==
    LET gas == UnpackTwo(op.limits)
        fee == UnpackTwo(op.fees)
    IN [verification |-> gas[1], call |-> gas[2], pvg |-> op.pvg,
        priority |-> fee[1], max |-> fee[2]]

\* fetch_gas_prices_from_bundler: the recommendation, with a floor of twice
\* the base fee plus the priority fee, and the priority at most the whole.
GasPrices(p) ==
    LET max == Max({p.max, SatAdd(Min({2 * p.base, MaxUint}), p.priority)})
    IN [max |-> max, priority |-> Min({p.priority, max})]

\* Mutant of ApplySignatures: the paymaster data of the first submission is
\* kept for the second.
ApplySignaturesOnce(op) ==
    LET data == [until |-> now + Window, after |-> IF now > Grace THEN now - Grace ELSE 0]
        sponsored == IF op.paymaster # NoData /\ op.signature # NoData THEN op
                     ELSE [op EXCEPT !.paymaster =
                             [until |-> data.until, after |-> data.after,
                              signed |-> PaymasterHash(op, data.until, data.after)]]
    IN [sponsored EXCEPT !.signature = OpHash(sponsored)]

\* Mutant of SignPaymaster: a zero validUntil, which the EntryPoint takes for
\* no end.
SignPaymasterForever(op) ==
    LET after == IF now > Grace THEN now - Grace ELSE 0
    IN [until |-> 0, after |-> after, signed |-> PaymasterHash(op, 0, after)]

\* sign_paymaster_data.
SignPaymaster(op) ==
    LET until == now + Window
        after == IF now > Grace THEN now - Grace ELSE 0
    IN [until |-> until, after |-> after, signed |-> PaymasterHash(op, until, after)]

\* sign_user_operation_for_submission: the paymaster first, the owner over it.
ApplySignatures(op) ==
    LET sponsored == [op EXCEPT !.paymaster = SignPaymaster(op)]
    IN [sponsored EXCEPT !.signature = OpHash(sponsored)]

\* parse_required_pre_verification_gas: the first number after the last
\* "minimum" of the text, or else its last number.  A text is the numbers in
\* it and how many of them stand before that word (all, without the word).
Required(text) ==
    IF ~text.low \/ text.numbers = <<>> THEN NoData
    ELSE IF text.before < Len(text.numbers) THEN <<text.numbers[text.before + 1]>>
    ELSE <<text.numbers[Len(text.numbers)]>>

\* buffered_pre_verification_gas: a tenth and 1000 on top, 2 here.
Buffered(minimum) == SatAdd(SatAdd(minimum, minimum \div 10), 2)
-----------------------------------------------------------------------------
\* An attempt begins with the first draft; when it has ended only history is
\* left: what was sent, and when last.
NoAttempt == [at |-> "nonce", draft |-> 1, op |-> Blank, answer |-> NoData,
              sent |-> {}, since |-> 0, asked |-> NoData, result |-> "none"]

Init ==
    /\ attempt = [a \in Attempts |-> NoAttempt]
    /\ nonce = 0
    /\ deployed = FALSE
    /\ mempool = {}
    /\ receipts = {}
    /\ now = 0

Update(a, changed) == attempt' = [attempt EXCEPT ![a] = changed]
Worker == UNCHANGED <<nonce, deployed, mempool, receipts, now>>

\* A RelayerResult is returned; what was sent remains known as history.
Finished(a, result) ==
    [attempt[a] EXCEPT !.at = "ended", !.result = result, !.op = Blank, !.draft = 0,
                       !.answer = NoData, !.asked = NoData]

\* build_user_op_draft, first await: get_sender_nonce.
ReadNonce(a) ==
    /\ attempt[a].at = "nonce"
    /\ Update(a, [attempt[a] EXCEPT !.at = "code", !.op.calls = a, !.op.nonce = nonce])
    /\ Worker

\* Mutant of ReadCode: the second draft keeps what the first one found.
ReadCodeOnce(a) ==
    /\ attempt[a].at = "code"
    /\ \/ /\ attempt[a].draft = 1
          /\ Update(a, [attempt[a] EXCEPT !.at = "nonce", !.draft = 2, !.op.init = ~deployed])
       \/ /\ attempt[a].draft = 2
          /\ Update(a, [attempt[a] EXCEPT !.at = "estimate"])
    /\ Worker

\* Its second await: get_init_code_if_needed.  The first draft is only made to
\* have paymaster data for the second; the placeholder gas fields and the fee
\* hints of both are replaced by Estimate.
ReadCode(a) ==
    /\ attempt[a].at = "code"
    /\ \/ /\ attempt[a].draft = 1
          /\ Update(a, [attempt[a] EXCEPT !.at = "nonce", !.draft = 2, !.op.init = ~deployed])
       \/ /\ attempt[a].draft = 2
          /\ Update(a, [attempt[a] EXCEPT !.at = "estimate", !.op.init = ~deployed])
    /\ Worker

\* The second draft is estimated; apply_gas_fields enters the answer and fresh
\* prices.
Estimate(a) ==
    /\ attempt[a].at = "estimate"
    /\ \E e \in Estimates, p \in Prices :
         LET fees == GasPrices(p)
         IN Update(a, [attempt[a] EXCEPT
              !.at = "sign",
              !.answer = [estimate |-> e, prices |-> p],
              !.op.limits = PackTwo(e.verification, e.call),
              !.op.pvg = e.pvg,
              !.op.fees = PackTwo(fees.priority, fees.max)])
    /\ Worker

\* A call before the submission fails, from the lookup of the bundler, the
\* key and the paymaster signer to the signing, or the bundler refuses to estimate, as
\* it may when nonce, code or fees changed after the first draft, over which
\* the paymaster data of the second is signed.
GiveUp(a) ==
    /\ attempt[a].at \in {"nonce", "code", "estimate", "sign"}
    /\ Update(a, Finished(a, "failed"))
    /\ Worker

\* Mutant of Sign: the wallet's nonce is read again for the second submission.
SignFresh(a) ==
    /\ attempt[a].at = "sign"
    /\ Update(a, [attempt[a] EXCEPT
         !.at = "send",
         !.op = ApplySignatures(IF attempt[a].sent = {} THEN @
                                ELSE [@ EXCEPT !.nonce = nonce, !.init = ~deployed])])
    /\ Worker

Sign(a) ==
    /\ attempt[a].at = "sign"
    /\ Update(a, [attempt[a] EXCEPT !.at = "send", !.op = ApplySignatures(@)])
    /\ Worker
-----------------------------------------------------------------------------
Covered(op, t) ==
    /\ op.signature = OpHash(op)
    /\ op.paymaster.signed = PaymasterHash(op, op.paymaster.until, op.paymaster.after)
    /\ op.paymaster.after <= t
    /\ op.paymaster.until = 0 \/ t <= op.paymaster.until

\* What the EntryPoint would run now.
Includable(op) ==
    /\ op.nonce = nonce
    /\ op.init = ~deployed
    /\ Covered(op, now)

\* A submission of a is refused with a text that names a minimum above what
\* was sent, for the first time.
BelowMinimum(a, text) ==
    /\ attempt[a].sent = {}
    /\ Required(text) # NoData
    /\ attempt[a].op.pvg < Required(text)[1]

\* Only preVerificationGas changes.
Bumped(op, minimum) == [op EXCEPT !.pvg = Buffered(minimum)]

\* eth_sendUserOperation is answered with a hash, by an error, or not at all.
\* One refusal is followed by a retry, signed again; any other is the error of
\* the attempt.  A bundler of several nodes may keep what it refused.
Send(a) ==
    LET op == attempt[a].op
        sent == [attempt[a] EXCEPT !.sent = @ \cup {op}, !.since = now]
        kept == IF Includable(op) THEN mempool \cup {op} ELSE mempool
    IN /\ attempt[a].at = "send"
       /\ \/ /\ Includable(op)
             /\ mempool' = kept
             /\ Update(a, [sent EXCEPT !.at = "wait"])
          \/ /\ mempool' \in {mempool, kept}
             /\ \E text \in Rejections :
                  Update(a, IF BelowMinimum(a, text)
                            THEN [sent EXCEPT !.at = "sign", !.asked = Required(text),
                                              !.op = Bumped(op, Required(text)[1])]
                            ELSE [Finished(a, "failed") EXCEPT !.sent = sent.sent, !.since = now])
       /\ UNCHANGED <<nonce, deployed, receipts, now>>

\* Mutant of ReceiptsOf: the receipt of whatever operation spent the nonce.
ReceiptsOfNonce(op) == {r \in receipts : r.hash.nonce = op.nonce}

\* eth_getUserOperationReceipt.
ReceiptsOf(op) == {r \in receipts : r.hash = OpHash(op)}

\* wait_for_receipt: the receipt decides, or the deadline.  A poll that fails
\* or finds nothing is repeated.
Poll(a) ==
    /\ attempt[a].at = "wait"
    /\ \/ \E r \in ReceiptsOf(attempt[a].op) :
            Update(a, Finished(a, IF r.success THEN "succeeded" ELSE "reverted"))
       \/ /\ now >= attempt[a].since + Timeout
          /\ Update(a, Finished(a, "timeout"))
    /\ Worker
-----------------------------------------------------------------------------
(* The bundler and the chain. *)

\* An operation is in a block; the others of its nonce have become invalid.
\* One that the bundler drops is one that never is.
Include(op, success) ==
    /\ op \in mempool
    /\ Includable(op)
    /\ nonce' = nonce + 1
    /\ deployed' = TRUE
    /\ receipts' = receipts \cup {[hash |-> OpHash(op), success |-> success]}
    /\ mempool' = {o \in mempool : o.nonce # op.nonce}
    /\ UNCHANGED <<attempt, now>>

Tick ==
    /\ now < MaxTime
    /\ now' = now + 1
    /\ UNCHANGED <<attempt, nonce, deployed, mempool, receipts>>

Next ==
    \/ \E a \in Attempts : \/ ReadNonce(a) \/ ReadCode(a) \/ Estimate(a)
                           \/ GiveUp(a) \/ Sign(a) \/ Send(a) \/ Poll(a)
    \/ \E op \in mempool, success \in BOOLEAN : Include(op, success)
    \/ Tick

Spec == Init /\ [][Next]_vars
=============================================================================
