------------------------------ MODULE MCRouting ------------------------------
\* Values that a configuration file cannot write down.
EXTENDS Routing

TwoThresholds == {<<80, 50>>, <<70, 40>>}
=============================================================================
