-------------------------- MODULE MCWorkerDispatch --------------------------
EXTENDS WorkerDispatch
=============================================================================
