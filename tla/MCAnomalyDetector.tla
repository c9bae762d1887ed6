-------------------------- MODULE MCAnomalyDetector --------------------------
(* Model values for AnomalyDetector.  Two spans of one service share an    *)
(* alert key; the forecaster fires for one metric of the service.          *)
EXTENDS AnomalyDetector

CONSTANTS s1, a1, a2, kind, metric

ForecastMetric == {<<s1, metric>>}
=============================================================================
