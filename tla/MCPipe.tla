------------------------------- MODULE MCPipe -------------------------------
(* A pipe of two bytes whose counters wrap at four, with one reader and two  *)
(* writers, which ask for up to two bytes at a time.                         *)
EXTENDS Pipe

CONSTANTS r1, w1, w2
MCReaders == {r1}
MCWriters == {w1, w2}
MCBytes == {0, 1}
=============================================================================
