----------------------------- MODULE MCAnalysis -----------------------------
(***************************************************************************)
(* The analyzers that run beside detection and forecasting, for TLC:       *)
(* RcaEngine, DependencyMap, JvmAnalyzer and BurnRate.  They share no      *)
(* variable, so one run explores each while the other three are at rest.   *)
(***************************************************************************)
EXTENDS RcaEngine, DependencyMap, JvmAnalyzer, BurnRate

MCServices == <<"s1", "s2", "s3">>
MCBurnServices == <<"b1">>

\* A small heap, a nearly full one with a long pause, one above the heap's size
\* that comes a minute late, and one that lacks the size; the threads grow.
MCSample ==
    {[heap |-> 1, gc |-> 0, threads |-> 1, late |-> 0],
     [heap |-> 3, gc |-> 3, threads |-> 2, late |-> 0],
     [heap |-> 5, gc |-> 3, threads |-> 2, late |-> 1],
     [heap |-> NoMax, gc |-> 2, threads |-> 3, late |-> 0]}

Symmetry == Permutations(Anomaly) \cup Permutations(JvmService)

RcaRests ==
    /\ rcaNow = 0 /\ crashes = 0 /\ memory = {}
    /\ \A a \in Anomaly : inserted[a] = Never
GraphRests == edges = << >> /\ todo = << >> /\ running /\ reading = Idle
JvmRests == jvmNow = 0 /\ jvmPosts = 0
BurnRests ==
    /\ burnNow = 0 /\ burnWake = 0 /\ waiting = << >>
    /\ \A s \in BurnService : Points(s, Slow) = {}

AnalysisInit == RcaInit /\ GraphInit /\ JvmInit /\ BurnInit

AnalysisNext ==
    \/ GraphRests /\ JvmRests /\ BurnRests /\ RcaNext
       /\ UNCHANGED <<graphVars, jvmVars, burnVars>>
    \/ RcaRests /\ JvmRests /\ BurnRests /\ GraphNext
       /\ UNCHANGED <<rcaVars, jvmVars, burnVars>>
    \/ RcaRests /\ GraphRests /\ BurnRests /\ JvmNext
       /\ UNCHANGED <<rcaVars, graphVars, burnVars>>
    \/ RcaRests /\ GraphRests /\ JvmRests /\ BurnNext
       /\ UNCHANGED <<rcaVars, graphVars, jvmVars>>

AnalysisSpec ==
    AnalysisInit /\ [][AnalysisNext]_<<rcaVars, graphVars, jvmVars, burnVars>>
=============================================================================
