-------------------------- MODULE MCStoragePipeline --------------------------
EXTENDS StoragePipeline
=============================================================================
