---------------------------- MODULE MCSession ------------------------------
\* Model values of Session.
EXTENDS Session

MCData == <<"d1", "d2">>
=============================================================================
