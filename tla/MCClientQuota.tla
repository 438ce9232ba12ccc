--------------------------- MODULE MCClientQuota ---------------------------
EXTENDS ClientQuota, TLC

CONSTANTS e1, e2

MCEmails == {e1, e2}
MCDeadlines == {-1}

\* an edit that sets a deadline and enables, one that delays it and disables
MCEdits == {[exp |-> 1, on |-> TRUE], [exp |-> -1, on |-> FALSE]}

\* The clients are interchangeable: they all renew.
Symmetry == Permutations(MCEmails)

=============================================================================
