--------------------------- MODULE MCLimitResume ---------------------------
(* Instances of LimitResume for TLC: which incidents may happen in a run.     *)
EXTENDS LimitResume

\* Crashes, failures and interference.
MCFaults == {"reopen", "cancel", "relimit", "evidence", "crash", "unkillable", "prep",
             "gone", "git", "spawnfail", "noclaude", "finalize", "tardy", "ends"}
\* With the outcomes that end an episode or begin it anew.
MCEverything == MCFaults \cup {"manual", "requeue"}
\* One reopen.
MCReopens == {"reopen", "tardy", "ends"}
=============================================================================
