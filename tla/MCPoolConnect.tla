----------------------------- MODULE MCPoolConnect -----------------------------
EXTENDS PoolConnect
CONSTANTS a, b
tcp(p) == [scheme |-> "tcp:", url |-> p]
ssl(p) == [scheme |-> "ssl:", url |-> p]
MCLists ==
  { <<tcp(a), tcp(b)>>,                                  \* a pool and a backup
    <<ssl(b)>>,                                          \* one pool over TLS
    <<tcp(NoUrl), ssl(b), tcp(a)>>,                      \* mixed, typed by its last
    <<[scheme |-> "other", url |-> a]>> }                \* not accepted
MCFeeLists == { <<tcp(a), tcp(b)>>, <<ssl(b)>> }
================================================================================
