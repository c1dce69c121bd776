---------------------------- MODULE MCCircuitBreaker ----------------------------
EXTENDS CircuitBreaker
================================================================================
