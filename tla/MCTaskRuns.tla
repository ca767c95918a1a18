----------------------------- MODULE MCTaskRuns -----------------------------
EXTENDS TaskRuns
=============================================================================
