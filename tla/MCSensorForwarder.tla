------------------------- MODULE MCSensorForwarder -------------------------
EXTENDS SensorForwarder
=============================================================================
