----------------------------- MODULE MCHookWire -----------------------------
\* A small instance of HookWire: a part is empty or not, and an empty part
\* comes first, in the middle, last or not at all.
EXTENDS HookWire

MCBuffers == {<<1>>, <<1, 1>>, <<1, 1, 1>>, <<0, 1, 1>>, <<1, 0, 1>>, <<1, 0>>}
=============================================================================
