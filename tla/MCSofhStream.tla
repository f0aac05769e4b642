---------------------------- MODULE MCSofhStream ----------------------------
EXTENDS SofhStream

\* With HeaderLen = 2 and Modulus = 6 a body of up to 3 bytes fits the header,
\* and the length field of one of 4 wraps to a total no frame has.
MCLens == {0, 3, 4}
MCSizes == {-1, 2}
=============================================================================
