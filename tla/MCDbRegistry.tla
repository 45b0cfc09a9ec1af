---------------------------- MODULE MCDbRegistry ----------------------------
\* Two connections, a statement with two placeholders, two result sets of up to
\* two rows.
EXTENDS DbRegistry
=============================================================================
