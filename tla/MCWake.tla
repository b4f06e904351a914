---- MODULE MCWake ----
EXTENDS SeatWake
====
