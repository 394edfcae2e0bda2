----------------------------- MODULE MC_Settings -----------------------------
\* Instances of Settings for TLC: ann's updates go to any worker, bob's to one.
EXTENDS Settings

CONSTANTS ann, bob, w1, w2

OneOnAny == {<<ann, w1>>, <<ann, w2>>, <<bob, w2>>}
=============================================================================
