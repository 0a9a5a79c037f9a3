--------------------------- MODULE MCAdapterResume ---------------------------
\* Bounded instances of AdapterResume.
EXTENDS AdapterResume
=============================================================================
