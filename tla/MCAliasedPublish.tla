-------------------------- MODULE MCAliasedPublish --------------------------
EXTENDS AliasedPublish

CONSTANTS t1, t2, t3
Perms == Permutations({t1, t2, t3})
=============================================================================
