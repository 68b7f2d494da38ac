----------------------------- MODULE MCBlockFlow -----------------------------
\* A small instance of BlockFlow: the three types of block of the repository.
EXTENDS BlockFlow

CONSTANTS hello, hook_zmq, trans_pb
=============================================================================
