---------------------------- MODULE MC_AmqpClient ----------------------------
\* Instances of AmqpClient for TLC: three goroutines asking for channels.
EXTENDS AmqpClient

CONSTANTS consumer, collector, router
=============================================================================
