---------------------------- MODULE MCUdpRelay -----------------------------
\* Scripts of UdpRelay: changes of outbound, lookups between other frames.
EXTENDS UdpRelay

MCScripts ==
  {<<"a", "name", "b">>, <<"name", "a", "ip">>, <<"a", "b", "a">>, <<"ip", "a", "a">>}
=============================================================================
