-------------------------- MODULE MCCardReaderMonitor --------------------------
EXTENDS CardReaderMonitor
================================================================================
