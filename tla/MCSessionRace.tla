---- MODULE MCSessionRace ----
EXTENDS SessionRace, TLC

RaceSymmetry == Permutations(Requests) \cup Permutations(Sids)
====
