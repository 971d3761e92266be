---------------------------- MODULE MCTraceControl ----------------------------
EXTENDS TraceControl
=============================================================================
