---------------------------- MODULE MCMcpRelay ----------------------------
EXTENDS McpRelay, TLC
=============================================================================
