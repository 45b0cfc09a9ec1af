----------------------------- MODULE MCVmCounter -----------------------------
\* One permit, four threads that acquire, try and release in any order, and up
\* to two releases that nobody's acquire() matches.
EXTENDS VmCounter
=============================================================================
