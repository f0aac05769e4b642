----------------------------- MODULE MCPbStream -----------------------------
EXTENDS PbStream

\* With Base = 2 the length 0 takes one byte and 2 takes two: one at the limit
\* of 0 and one above it, until a caller lifts the limit.
MCLens  == {0, 2}
MCSizes == {-1}
=============================================================================
