-------------------------- MODULE MCComponentStore --------------------------
\* ComponentStore for TLC: every component is the handle it was written with.
EXTENDS ComponentStore

MCValues == Entity
=============================================================================
