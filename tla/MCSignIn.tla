------------------------------- MODULE MCSignIn -------------------------------
\* SignIn for one person in a small instance.
EXTENDS SignIn, TLC

Symmetry == Permutations(Sids)

\* Guessing and two sessions are two cases: a failure needs a session at most.
OneConcern == user.failed > 0 => Cardinality(Live) <= 1
=============================================================================
