----------------------------- MODULE MCPoolSize -----------------------------
\* Bounded instances of PoolSize.
EXTENDS PoolSize
=============================================================================
