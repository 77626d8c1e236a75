-------------------------- MODULE MCCaptureIntake --------------------------
EXTENDS CaptureIntake, TLC

\* Screenshots, attempts and requests are interchangeable.
Symmetry == Permutations(Files) \cup Permutations(Attempts) \cup Permutations(Handlers)
=============================================================================
