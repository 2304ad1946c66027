------------------------ MODULE MCExchangeSimulator ------------------------
(* Symmetry for the runs of ExchangeSimulator.                             *)
EXTENDS ExchangeSimulator, TLC

\* Descriptors are interchangeable: no action compares them.
Interchangeable == Permutations(Fds)

=============================================================================
