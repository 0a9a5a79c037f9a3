-------------------------- MODULE MCAdapterReceive --------------------------
\* Bounded instances of AdapterReceive.
EXTENDS AdapterReceive
=============================================================================
