--------------------------- MODULE MCTseSigning ------------------------------
\* Two orders of one till and one of another.
EXTENDS TseSigning

CONSTANTS a, b, d1, d2

MCTillOf == <<a, a, b>>
=============================================================================
