-------------------------- MODULE MCSessionProcess --------------------------
EXTENDS SessionProcess
\* The server itself runs inside a session of another server, whose marker it
\* inherited; the consumer passes its own environment on.
MCInherited  == <<"outer">>
MCConfigured == <<"outer">>
=============================================================================
