--------------------------- MODULE MCProjectSave ---------------------------
EXTENDS ProjectSave, TLC

CONSTANTS a, b, v, w

\* Both files written; one written and the other deleted.
MCTransactions == {a :> v @@ b :> w, a :> w @@ b :> NoFile}
============================================================================
