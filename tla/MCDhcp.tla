------------------------------- MODULE MCDhcp -------------------------------
\* Servers and addresses for model-checking Dhcp.
EXTENDS Dhcp

CONSTANTS ipA, ipB, s1, s2

TwoServers  == (ipA :> s1) @@ (ipB :> s2)
OneServer   == (ipA :> s1) @@ (ipB :> s1)
BothMasks   == (s1 :> "255.0.0.0") @@ (s2 :> "255.255.0.0")
OneMask     == s1 :> "255.0.0.0"
FirstMask   == (s1 :> "255.0.0.0") @@ (s2 :> NONE)
==============================================================================
