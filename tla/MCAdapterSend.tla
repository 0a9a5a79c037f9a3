--------------------------- MODULE MCAdapterSend ---------------------------
\* Bounded instances of AdapterSend.
EXTENDS AdapterSend, TLC

\* Writers run the same code and no property tells them apart.
WriterSymmetry == Permutations(Writers)
=============================================================================
