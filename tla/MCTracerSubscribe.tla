-------------------------- MODULE MCTracerSubscribe --------------------------
EXTENDS TracerSubscribe
MCKinds == <<"rid", "scd">>
=============================================================================
