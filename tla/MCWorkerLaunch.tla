--------------------------- MODULE MCWorkerLaunch ---------------------------
EXTENDS WorkerLaunch
=============================================================================
