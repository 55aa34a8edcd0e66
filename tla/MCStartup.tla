----------------------------- MODULE MCStartup -----------------------------
\* Instance of Startup: two servers, three ports, one of them on both.
EXTENDS Startup

MCPorts == <<<<8080, 8081>>, <<8080>>>>
=============================================================================
