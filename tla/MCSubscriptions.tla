--------------------------- MODULE MCSubscriptions ---------------------------
\* Values that a configuration file cannot write down.
EXTENDS Subscriptions

FromTheStart == {<<0, 1>>}
=============================================================================
