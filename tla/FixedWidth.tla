----------------------------- MODULE FixedWidth -----------------------------
(***************************************************************************)
(* The integer arithmetic of the on-chain program and of its client.       *)
(*                                                                         *)
(* The program computes in u128 and stores u64.  The u128 operations of    *)
(* the program multiply at most two u64 values (or a u64 and 10^12), which *)
(* a u128 always holds, so they are plain integer operations here.  What   *)
(* can bite is the step back to u64: `as u64' drops the high bits even in  *)
(* a build with overflow checks, checked_add(..).unwrap() aborts the       *)
(* transaction, saturating_sub stops at zero.                              *)
(***************************************************************************)
EXTENDS Integers

CONSTANT U64Max          \* the largest u64; small in the model-checking runs

ASSUME U64MaxAssumption == U64Max \in Nat \ {0}

U64 == 0 .. U64Max

U16Max == 65535
U16 == 0 .. U16Max

\* Rust's `x as u64' for a non-negative x.
AsU64(x) == x % (U64Max + 1)

\* Faulty variant: an ordinary subtraction.
PlainSub(x, y) == x - y

\* Rust's saturating_sub on unsigned integers.
SaturatingSub(x, y) == IF y <= x THEN x - y ELSE 0

Abs(x) == IF x >= 0 THEN x ELSE -x

\* BN.div of bn.js: the quotient is truncated toward zero.
BnDiv(x, y) == IF (x >= 0) = (y > 0) THEN Abs(x) \div Abs(y)
                                     ELSE -(Abs(x) \div Abs(y))
=============================================================================
