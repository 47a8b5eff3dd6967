--------------------------------- MODULE Console ---------------------------------
(***************************************************************************)
(* Console input: line editing in the interrupt handler and consoleread    *)
(* (kernel/console.c), with readers that sleep and may be killed. cons.lock*)
(* is kept where a step ends inside it. The PLIC lets one CPU at a time    *)
(* serve the UART, so there is one handler. The echo (consputc) only       *)
(* delays the handler here; its writes to the UART are in Uart.            *)
(***************************************************************************)
EXTENDS Integers, Sequences

CONSTANTS Readers, None,
          INPUT_BUF_SIZE,
          UINT,                \* 2^32, a multiple of INPUT_BUF_SIZE
          MaxRead              \* bound on the n of read

\* Characters: "x" any other than newline, ^D, backspace and ^U.
Typed == {"x", "nl", "eof", "bs", "kill"}
Enders == {"nl", "eof"}

ASSUME ConsoleAssumption ==
  /\ INPUT_BUF_SIZE \in Nat \ {0} /\ UINT \in Nat /\ MaxRead \in Nat
  /\ UINT % INPUT_BUF_SIZE = 0 /\ UINT > INPUT_BUF_SIZE
  /\ {None, "intr"} \cap Readers = {}

VARIABLES r, w, e, buf, clock,       \* cons; clock is cons.lock
          rpc, n, target, killed,    \* each reader
          ipc, ic,                   \* the handler; its character
          rx                         \* the UART's receive register

cons == <<r, w, e, buf, clock>>
readers == <<rpc, n, target, killed>>
consvars == <<cons, readers, ipc, ic, rx>>

\* consoleinit; the indices start at 0, here just below where they wrap.
ConsInit ==
  /\ r = UINT - 1 /\ w = UINT - 1 /\ e = UINT - 1
  /\ buf = [k \in 0..INPUT_BUF_SIZE - 1 |-> "x"] /\ clock = None
  /\ rpc = [p \in Readers |-> "idle"] /\ n = [p \in Readers |-> 0]
  /\ target = [p \in Readers |-> 0] /\ killed = [p \in Readers |-> FALSE]
  /\ ipc = "idle" /\ ic = "x" /\ rx = <<>>

-------------------------------------------------------------------------------
\* consoleread.
RGoto(p, l) == rpc' = [rpc EXCEPT ![p] = l]

BeginRead(p, m) ==
  /\ rpc[p] = "idle"
  /\ RGoto(p, "acquire")
  /\ n' = [n EXCEPT ![p] = m] /\ target' = [target EXCEPT ![p] = m]
  /\ UNCHANGED <<cons, killed, ipc, ic, rx>>

\* Entry, or return from sleep.
AcquireCons(p) ==
  /\ rpc[p] = "acquire" /\ clock = None
  /\ clock' = p /\ RGoto(p, "loop")
  /\ UNCHANGED <<r, w, e, buf, n, target, killed, ipc, ic, rx>>

\* The end of the call, with the lock released.
ReadReturns(p) == /\ RGoto(p, "idle") /\ clock' = None
                  /\ n' = [n EXCEPT ![p] = 0]
                  /\ target' = [target EXCEPT ![p] = 0]

\* Nothing to read: give up if killed, else sleep.
ReadWaits(p) ==
  /\ rpc[p] = "loop" /\ n[p] > 0 /\ r = w
  /\ IF killed[p] THEN ReadReturns(p)
     ELSE RGoto(p, "sleep") /\ clock' = None /\ UNCHANGED <<n, target>>
  /\ UNCHANGED <<r, w, e, buf, killed, ipc, ic, rx>>

\* A character: ^D ends the call, and stays for the next one unless this one
\* has read nothing; newline, a full count or a failed copyout end it too.
ReadChar(p) ==
  LET c == buf[r % INPUT_BUF_SIZE] IN
  /\ rpc[p] = "loop" /\ n[p] > 0 /\ r # w
  /\ r' = IF c = "eof" /\ n[p] < target[p] THEN r ELSE (r + 1) % UINT
  /\ \/ c \in Enders /\ ReadReturns(p)
     \/ c # "eof" /\ ReadReturns(p)              \* either_copyout fails
     \/ /\ c \notin Enders
        /\ n' = [n EXCEPT ![p] = @ - 1]
        /\ UNCHANGED <<rpc, target, clock>>
  /\ UNCHANGED <<w, e, buf, killed, ipc, ic, rx>>

ReadDone(p) ==
  /\ rpc[p] = "loop" /\ n[p] = 0
  /\ ReadReturns(p)
  /\ UNCHANGED <<r, w, e, buf, killed, ipc, ic, rx>>

\* kill(p) sets the flag and makes a sleeper runnable. A killed process exits,
\* and another reader takes its place.
Kill(p) ==
  /\ killed' = [killed EXCEPT ![p] = ~@]
  /\ killed[p] => rpc[p] = "idle"
  /\ rpc' = IF rpc[p] = "sleep" THEN [rpc EXCEPT ![p] = "acquire"] ELSE rpc
  /\ UNCHANGED <<cons, n, target, ipc, ic, rx>>

-------------------------------------------------------------------------------
\* uartintr: uartgetc until there is no more input, consoleintr for each.
uartgetc ==
  /\ ipc = "idle" /\ rx # <<>>
  /\ ipc' = "char" /\ ic' = Head(rx) /\ rx' = Tail(rx)
  /\ UNCHANGED <<cons, readers>>

\* consoleintr of a character to store; a line that is finished, or that fills
\* the buffer, is handed over, and the readers are woken.
Room_OffByOne == (e - r) % UINT <= INPUT_BUF_SIZE
Room == (e - r) % UINT < INPUT_BUF_SIZE
LineDone_AtEnder == ic \in Enders
LineDone == ic \in Enders \/ (e + 1 - r) % UINT = INPUT_BUF_SIZE
Store ==
  /\ ipc = "char" /\ clock = None /\ ic \notin {"bs", "kill"}
  /\ ipc' = "idle" /\ ic' = "x"
  /\ IF Room
     THEN /\ buf' = [buf EXCEPT ![e % INPUT_BUF_SIZE] = ic]
          /\ e' = (e + 1) % UINT
          /\ w' = IF LineDone THEN e' ELSE w
          /\ rpc' = [p \in Readers |-> IF LineDone /\ rpc[p] = "sleep" THEN "acquire"
                                       ELSE rpc[p]]
     ELSE UNCHANGED <<buf, e, w, rpc>>
  /\ UNCHANGED <<r, clock, n, target, killed, rx>>

\* consoleintr of ^H, which erases a character of the line, or of ^U, which
\* erases all of them.
Erase ==
  LET more == e # w /\ (ic = "bs" \/ buf[(e - 1) % INPUT_BUF_SIZE] # "nl") IN
  /\ ipc = "char" /\ clock \in {None, "intr"} /\ ic \in {"bs", "kill"}
  /\ e' = IF more THEN (e - 1) % UINT ELSE e
  /\ IF more /\ ic = "kill" THEN clock' = "intr" /\ UNCHANGED <<ipc, ic>>
     ELSE clock' = None /\ ipc' = "idle" /\ ic' = "x"
  /\ UNCHANGED <<r, w, buf, readers, rx>>

\* The UART receives a character, and interrupts.
DevReceive(c) ==
  /\ rx = <<>>
  /\ rx' = <<c>>
  /\ UNCHANGED <<cons, readers, ipc, ic>>

Reader(p) == \/ AcquireCons(p) \/ ReadWaits(p) \/ ReadChar(p) \/ ReadDone(p) \/ Kill(p)
             \/ \E m \in 1..MaxRead : BeginRead(p, m)
ConsNext == \/ uartgetc \/ Store \/ Erase \/ \E c \in Typed : DevReceive(c)
        \/ \E p \in Readers : Reader(p)

ConsSpec == ConsInit /\ [][ConsNext]_consvars
-------------------------------------------------------------------------------
(* Properties *)

Between(a, b) == [k \in 1..(b - a) % UINT |-> buf[(a + k - 1) % INPUT_BUF_SIZE]]
Line == INSTANCE LineBuffer WITH Chars <- {"x", "nl", "eof"}, SIZE <- INPUT_BUF_SIZE,
                                 ready <- Between(r, w), line <- Between(w, e)
\* The input ring implements LineBuffer, with its unsigned indices wrapping: no
\* character of a finished line can be erased, overwritten or read twice.
IsLineBuffer == Line!Spec

\* No reader sleeps over what it waits for: when one sleeps there is nothing to
\* read, and the buffer is not full, so that the line can still be finished; it
\* has not been killed; and cons.lock is with whom it says.
ReadersServed ==
  /\ \A p \in Readers : rpc[p] = "sleep" => r = w /\ ~killed[p] /\ Room
  /\ \A p \in Readers : rpc[p] = "loop" <=> clock = p
=============================================================================
