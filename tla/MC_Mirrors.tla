----------------------------- MODULE MC_Mirrors -----------------------------
\* Instances of Mirrors for TLC: two users, each with a worker of his own.
EXTENDS Mirrors

CONSTANTS ann, bob, w1, w2

OneWorkerEach == {<<ann, w1>>, <<bob, w2>>}
=============================================================================
