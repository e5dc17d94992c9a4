---------------------------- MODULE MCWaveAnalysis ----------------------------
(* Small instances of WaveAnalysis.                                        *)
EXTENDS WaveAnalysis

Strong == [validated |-> TRUE, rsi |-> TRUE, macd |-> FALSE, spike |-> FALSE,
           divergence |-> FALSE, turning |-> TRUE, atr |-> TRUE, longTerm |-> TRUE]

Weak == [Strong EXCEPT !.validated = FALSE, !.rsi = FALSE, !.longTerm = FALSE]

MCSignals == {[d \in Directions |-> Strong],
              [d \in Directions |-> IF d = "bullish" THEN Weak ELSE Strong]}

\* The price has come back from the last pivot, or gone beyond it.
MCDrifts == {-500, 700}

Edge(n, r, win) == [n |-> n, r |-> r, win |-> win]

Past(bullish, bearish, pattern, pair) ==
    [own |-> [d \in Directions |-> IF d = "bullish" THEN bullish ELSE bearish],
     pattern |-> [d \in Directions |-> pattern], pair |-> pair]

\* Both directions have lost; one has, of a pattern that has won; one has badly.
MCHistories == {Past(Edge(3, -100, 400), Edge(3, -700, 100), NoEdge, NoEdge),
                Past(Edge(3, -100, 400), NoEdge, Edge(4, 200, 600), Edge(50, -20, 460)),
                Past(NoEdge, Edge(5, -400, 300), Edge(5, -90, 400), Edge(8, 30, 500))}
=============================================================================
