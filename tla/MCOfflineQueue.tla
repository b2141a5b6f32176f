--------------------------- MODULE MCOfflineQueue ---------------------------
EXTENDS OfflineQueue

MCPriorities == {0, 3}
MCMaxSizes == {0, 2}
MCBatchSizes == {1, 2}
=============================================================================
