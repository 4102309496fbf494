------------------------------- MODULE MCBulk -------------------------------
EXTENDS Bulk
BulkIds == {1, 2, 3}
BulkLengths == <<3, 0, 4>>
BulkRequests == <<3, 1, 2>>
=============================================================================
