----------------------------- MODULE MCWsProxy ------------------------------
EXTENDS WsProxy

\* An observer of every server; an admin by a change of rights only.
MCCallers == {{<<"is", "session">>, <<"is", "enabled">>} \cup ({"granted"} \X Servers)}
=============================================================================
