----------------------------- MODULE MCManagerTm -----------------------------
\* Small instances of ManagerTm: a second of two nanoseconds.
EXTENDS ManagerTm

Span(sec, nsec) == [tv_sec |-> sec, tv_nsec |-> nsec]

\* No delay, one that carries into the seconds, one longer than a second.
MCDelay == {Span(0, 0), Span(0, 1), Span(0, 3)}
=============================================================================
