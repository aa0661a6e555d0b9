---------------------------- MODULE ServerClock ----------------------------
(* What the stores share: the threads of the server and the time in        *)
(* seconds that time.time(), SQLite and Valkey read.                       *)
EXTENDS Integers

CONSTANTS
    Threads,    \* threads and workers of the server
    Horizon,    \* bound: the last second of a behaviour
    None        \* no value

VARIABLE now

Tick == now < Horizon /\ now' = now + 1
=============================================================================
