---------------------------- MODULE MCDiscovery ----------------------------
EXTENDS Discovery

CONSTANTS a, b

\* b's sink takes a source of a; no sink takes the source of b.
MCFeeds == {<<a, b>>}
=============================================================================
