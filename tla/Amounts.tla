------------------------------ MODULE Amounts ------------------------------
(***************************************************************************)
(* The amounts of a protocol request and the unsigned arithmetic of the    *)
(* protocol adapters.  A request carries a human amount (amount) and a     *)
(* base-unit amount (amount_raw), both optional texts; every adapter       *)
(* resolves the pair with its own copy of the same two functions, which    *)
(* are modelled here once.  U256::MAX is scaled down to the width in which *)
(* TLC can multiply two of them.  Err is the Err of a checked operation:   *)
(* no amount equals it, and an operation on it gives it back.              *)
(***************************************************************************)
EXTENDS Integers, SequencesExt

MaxUint == 2 ^ 15 - 1
Err == -1

\* The texts a client sends, as the parsers tell them apart.
Absent == [kind |-> "absent"]
MaxText == [kind |-> "max"]
Malformed == [kind |-> "malformed"]       \* "", "-1", "1.2.3", "1e5"
Number(whole, digits) == [kind |-> "number", whole |-> whole, digits |-> digits]

IsText(t) ==
    \/ t \in {Absent, MaxText, Malformed}
    \/ t = Number(t.whole, t.digits) /\ t.whole \in Nat /\ t.digits \in Seq(0..9)

IsMax(r) == MaxText \in {r.amount, r.amount_raw}

Unchecked(n) == n                         \* mutant of Checked

\* A result that does not fit in the width of the type is an error.
Checked(n) == IF n \in 0..MaxUint THEN n ELSE Err
CheckedAdd(a, b) == IF Err \in {a, b} THEN Err ELSE Checked(a + b)
CheckedMul(a, b) == IF Err \in {a, b} THEN Err ELSE Checked(a * b)
CheckedDiv(a, b) == IF Err \in {a, b} \/ b = 0 THEN Err ELSE a \div b
CheckedMulDiv(a, b, c) == CheckedDiv(CheckedMul(a, b), c)
DivUp(a, b) == (a + b - 1) \div b
SaturatingSub(a, b) == IF a > b THEN a - b ELSE 0
Lesser(a, b) == IF a < b THEN a ELSE b

\* Mutant of ParseDecimal: missing decimals are not filled up.
ParseDecimalUnpadded(text, decimals) ==
    IF text.kind # "number" \/ Len(text.digits) > decimals THEN Err
    ELSE Checked(FoldLeft(LAMBDA acc, digit : 10 * acc + digit, text.whole, text.digits))

\* "12.5" with 3 decimals is the digits 12500.  An asset whose decimals the
\* adapter does not know (Err) has no human amounts.
ParseDecimal(text, decimals) ==
    IF text.kind # "number" \/ Len(text.digits) > decimals THEN Err
    ELSE LET zeros == [i \in 1..decimals - Len(text.digits) |-> 0]
         IN Checked(FoldLeft(LAMBDA acc, digit : 10 * acc + digit,
                             text.whole, text.digits \o zeros))

ParseRaw(text) ==
    IF text.kind = "number" /\ text.digits = <<>> THEN Checked(text.whole) ELSE Err

\* Exactly one of the two fields, and "max" only where the caller allows it.
ResolveAmount(r, decimals, allowMax) ==
    IF Absent \notin {r.amount, r.amount_raw} THEN Err
    ELSE IF IsMax(r) THEN (IF allowMax THEN MaxUint ELSE Err)
    ELSE IF r.amount # Absent THEN ParseDecimal(r.amount, decimals)
    ELSE ParseRaw(r.amount_raw)

\* What the code puts in place of "max" once it knows the number.
WithAmountRaw(r, n) ==
    [r EXCEPT !.amount = Absent, !.amount_raw = Number(n, <<>>)]

\* The amount in base units that the text of a request means.
Meaning(r, decimals) ==
    IF r.amount = Absent THEN r.amount_raw.whole
    ELSE r.amount.whole * 10 ^ decimals
         + FoldLeft(LAMBDA acc, n : acc + n, 0,
                    [i \in DOMAIN r.amount.digits |-> r.amount.digits[i] * 10 ^ (decimals - i)])
=============================================================================
