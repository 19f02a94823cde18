--------------------------- MODULE MCBulkTransfer ---------------------------
EXTENDS BulkTransfer

\* Every size up to five buckets.
MCSizes == 0 .. 5 * BUCKET
=============================================================================
