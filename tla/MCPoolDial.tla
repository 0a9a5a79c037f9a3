----------------------------- MODULE MCPoolDial -----------------------------
\* Bounded instances of PoolDial.
EXTENDS PoolDial, TLC

\* Dialers and sshConns run the same code and no property tells them apart.
DialSymmetry == Permutations(Dialers) \cup Permutations(Conns)
=============================================================================
