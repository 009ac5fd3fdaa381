---------------------------- MODULE MCMonitorRelay ----------------------------
EXTENDS MonitorRelay
\* A value no line has that TLC can compare with numbers.
MCGarbled == -2
================================================================================
