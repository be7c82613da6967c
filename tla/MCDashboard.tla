---------------------------- MODULE MCDashboard ----------------------------
EXTENDS Projects

MCPath == <<"muxing", "completed">>
=============================================================================
