------------------------------ MODULE MCRepoFile -------------------------------
EXTENDS RepoFile, TLC

CONSTANTS c1, c2, a, b, u, v

Interchangeable == Permutations({c1, c2}) \cup Permutations({a, b}) \cup Permutations({u, v})
===============================================================================
