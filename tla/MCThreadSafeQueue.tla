-------------------------- MODULE MCThreadSafeQueue --------------------------
EXTENDS ThreadSafeQueue

MCSizes == {0, 1, 2}
=============================================================================
