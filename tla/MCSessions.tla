----------------------------- MODULE MCSessions -----------------------------
EXTENDS Sessions
\* No fault at all; tasks are cancelled and the process dies; writes fail, those
\* of desktop writers among them or not.
SomeFaults == {{}, {"cancel", "crash"}, {"crash", "fail"}, {"cut"}}
CutOnly == {{"cut"}}
NoFaults == {{}}
=============================================================================
