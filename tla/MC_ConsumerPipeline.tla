------------------------ MODULE MC_ConsumerPipeline ------------------------
\* Instances of ConsumerPipeline for TLC: two pods and two short queues.
EXTENDS ConsumerPipeline, TLC

CONSTANTS pod1, pod2, q1, q2

TwoAndOne == (q1 :> 2) @@ (q2 :> 1)
TwoAndNone == (q1 :> 2) @@ (q2 :> 0)
=============================================================================
