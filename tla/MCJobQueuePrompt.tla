-------------------------- MODULE MCJobQueuePrompt --------------------------
\* Workers are interchangeable, and so are targets.
EXTENDS JobQueueProofs, TLC

Symmetry == Permutations(Worker) \union Permutations(Target)
=============================================================================
