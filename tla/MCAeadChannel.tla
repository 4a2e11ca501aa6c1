----------------------------- MODULE MCAeadChannel -----------------------------
\* Values of the constants for model checking AeadChannel.
EXTENDS AeadChannel

Providers == {"sealing", "mock"}

=============================================================================
