-------------------------------- MODULE FeeMath --------------------------------
(***************************************************************************)
(* The lot the live session loop draws on each job of the main pool        *)
(* (is_fee_random): whether that job becomes a fee round, which            *)
(* FeeExchange leaves open.  No variables: what is said of it is proved in *)
(* FeeExchangeProofs.                                                      *)
(***************************************************************************)
EXTENDS Integers, FiniteSets

\* gen_range(1..1000): 1000 itself is never drawn.
Secret == 1..999

\* A rate is a binary fraction x / unit (an f32, which times 1000.0 is exact in an
\* f64).  One that is not positive is taken for 0.001 and only then is 1000.0 * fee
\* cut to an integer, so that 0.005, as an f32 a little less, makes 4.
PerMille(x, unit) == IF x <= 0 THEN 1 ELSE (1000 * x) \div unit

Threshold(max) == IF 1000 - max <= 0 THEN 0 ELSE 1000 - max

FeeRound(secret, max) == secret >= Threshold(max)

\* The secrets that make a fee round at a rate.
Lots(x, unit) == {secret \in Secret : FeeRound(secret, PerMille(x, unit))}
================================================================================
