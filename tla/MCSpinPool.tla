------------------------------ MODULE MCSpinPool -----------------------------
EXTENDS SpinPool

\* Fewer chunks than the three threads (moe/forward.rs passes one for each active
\* expert), and more.
NarrowAndWide == {2, 4}
==============================================================================
