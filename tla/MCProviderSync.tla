--------------------------- MODULE MCProviderSync ---------------------------
(* A small instance of ProviderSync.                                        *)
EXTENDS ProviderSync

CONSTANTS m1, m2

\* Which of the two entries a first title resolves to makes no difference.
UpToNames == {<<m1, m1>>, <<m1, m2>>, <<m1, NoMatch>>, <<NoMatch, m1>>, <<NoMatch, NoMatch>>}

\* Entries no title resolves to make none either.
Named == tracked \subseteq {mediaOf[t] : t \in Title}

MCInit == Init /\ mediaOf \in UpToNames /\ Named

\* Beside an import the history has two events, and a kill strikes the import.
MCNext ==
  /\ Next
  /\ imports' = 1 => Len(history') <= 2 /\ \A r \in Runner : ~Interrupt(r)
  /\ imports' > imports => interrupts = 0
  /\ Named'

MCSpec == MCInit /\ [][MCNext]_vars
MCFairSpec == MCSpec /\ Fairness
=============================================================================
