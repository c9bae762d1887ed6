----------------------------- MODULE MCForecaster -----------------------------
(* Model values for Forecaster.                                            *)
EXTENDS Forecaster

CONSTANTS k1, k2, c1
=============================================================================
