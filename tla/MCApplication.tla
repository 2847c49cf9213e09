---------------------------- MODULE MCApplication ----------------------------
\* Instances of Application for TLC: two tabs of one device, two functions and
\* two ports, where a tab and a connection that broke can be three alike; and
\* three tabs on one function (MCPagesListed).
EXTENDS Application
=============================================================================
