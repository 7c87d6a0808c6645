---------------------------- MODULE MC_Hysteresis ----------------------------
(* TLC's instance of Hysteresis: the default configuration (half-life of 3  *)
(* samples, 0.5^(1/3) = 0.7937, threshold 2.0), with scores in tenths.      *)
EXTENDS Hysteresis

TenthsDecay == [s \in 0 .. 49 |-> (s * 7937) \div 10000]
=============================================================================
