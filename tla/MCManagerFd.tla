----------------------------- MODULE MCManagerFd -----------------------------
\* A small instance of ManagerFd: three valid keys, that of no descriptor and
\* no socket, and both events. Negative numbers are not written in a .cfg.
EXTENDS ManagerFd

MCFd == {-1, 5}
=============================================================================
