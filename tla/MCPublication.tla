---------------------------- MODULE MCPublication ----------------------------
EXTENDS Publication, TLC

CONSTANTS a, b, c   \* the chunks

\* The last release keeps the chunk of the second and takes up again one that
\* only the first had; the other chunk of the first is never used again.
Contents ==
    [m \in Manifests |->
        CASE m[2] = 1 -> {a, b}
          [] m[2] = 2 -> {c}
          [] OTHER    -> {a, c}]

\* No definition tells the games apart.
Interchangeable == Permutations(Games)
==============================================================================
