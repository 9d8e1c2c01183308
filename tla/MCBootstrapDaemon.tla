-------------------------- MODULE MCBootstrapDaemon --------------------------
EXTENDS BootstrapDaemon, TLC

\* RPC worker threads are interchangeable.
MCSymmetry == Permutations(Threads)

=============================================================================
