---------------------------- MODULE MCDeepResearch ----------------------------
EXTENDS DeepResearch
AllRequests == {"new", "list", "prompt"}
Kinds == AllFaults
=============================================================================
