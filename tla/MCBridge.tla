------------------------------ MODULE MCBridge ------------------------------
EXTENDS Bridge

\* Two candidate uplinks, so that the first may lose its bridge while the
\* second keeps one.
MCCandidates == <<"u1", "u2">>

MCBridges == {"br1", "br2"}

\* Every combination of explicit bridge, OVN port and device id.
MCNetConfs == [brName : {"", "br1"}, ovnPort : {"", "p1"}, deviceID : {"", "d1"}]

=============================================================================
