--------------------------- MODULE MCMemoryCache ---------------------------
EXTENDS MemoryCache

CONSTANTS k1, k2

\* One pattern matches one of the keys.
MCPatterns == {{k1}}
MCBy == {-1, 1, 2}
=============================================================================
