---------------------------------- MODULE Uart ----------------------------------
(***************************************************************************)
(* Console output: the transmit buffer of kernel/uart.c, filled by the     *)
(* writers of consolewrite and drained by uartstart, in a writer or in the *)
(* UART's interrupt, and the characters that bypass it (uartputc_sync, by  *)
(* the echo of consoleintr and by kernel printf). Reading LSR and writing  *)
(* THR are separate steps, as these parties have no lock in common.        *)
(***************************************************************************)
EXTENDS Integers, Sequences, FiniteSets

CONSTANTS Writers, Syncs, NoChar,
          UART_TX_BUF_SIZE,
          FIFO,                \* depth of the UART's transmit FIFO
          MaxWrite             \* a writer's characters are numbered modulo this

\* uartinit turns the FIFO on: it is deeper than there are CPUs.
ASSUME FifoAssumption == FIFO > Cardinality(Syncs)

VARIABLES tx, txr, txw, tlock,       \* uart_tx_buf, uart_tx_r, _w, _lock
          hand,                      \* uartstart's c, on its way to THR
          wpc, i,                    \* each writer; its last character
          hpc,                       \* the interrupt handler
          spc,                       \* each party in uartputc_sync
          fifo, irq, lost,           \* the device
          last                       \* history: what each writer got out

uart == <<tx, txr, txw, tlock, hand>>
device == <<fifo, irq, lost, last>>
uartvars == <<uart, wpc, i, hpc, spc, device>>

TXMOD == 2 * UART_TX_BUF_SIZE        \* uart_tx_r and _w are kept modulo this

\* uartinit.
UartInit ==
  /\ tx = [k \in 0..UART_TX_BUF_SIZE - 1 |-> NoChar] /\ txr = 0 /\ txw = 0
  /\ tlock = NoChar /\ hand = NoChar
  /\ wpc = [p \in Writers |-> "idle"] /\ i = [p \in Writers |-> 0]
  /\ hpc = "idle" /\ spc = [q \in Syncs |-> "idle"]
  /\ fifo = <<>> /\ irq = FALSE /\ lost = FALSE
  /\ last = [p \in Writers |-> 0]

TxIdle == fifo = <<>>                \* LSR_TX_IDLE
WriteTHR(c) == IF Len(fifo) < FIFO THEN fifo' = Append(fifo, c) /\ UNCHANGED lost
               ELSE lost' = TRUE /\ UNCHANGED fifo

WakeWriters_Not == wpc
WakeWriters == [p \in Writers |-> IF wpc[p] = "sleep" THEN "acquire" ELSE wpc[p]]

\* uartstart, with uart_tx_lock: take a character and wake the writers, write
\* it, and so on until the buffer is empty or THR is full.
Take ==
  /\ txw # txr /\ TxIdle /\ hand = NoChar
  /\ hand' = tx[txr % UART_TX_BUF_SIZE]
  /\ tx' = [tx EXCEPT ![txr % UART_TX_BUF_SIZE] = NoChar]     \* not read again
  /\ txr' = (txr + 1) % TXMOD
  /\ wpc' = WakeWriters
  /\ UNCHANGED <<txw, tlock, hpc, device>>
Put ==
  /\ hand # NoChar
  /\ WriteTHR(hand) /\ hand' = NoChar
  /\ UNCHANGED <<tx, txr, txw, tlock, wpc, hpc, irq, last>>
Stop ==
  /\ hand = NoChar /\ (txw = txr \/ ~TxIdle)
  /\ tlock' = NoChar
  /\ UNCHANGED <<tx, txr, txw, hand, device>>

\* uartintr after the input: plic_claim, uartstart, plic_complete.
ClaimIrq ==
  /\ hpc = "idle" /\ irq
  /\ irq' = FALSE /\ hpc' = "acquire"
  /\ UNCHANGED <<uart, wpc, i, spc, fifo, lost, last>>
IntrAcquire ==
  /\ hpc = "acquire" /\ tlock = NoChar
  /\ tlock' = "intr" /\ hpc' = "start"
  /\ UNCHANGED <<tx, txr, txw, hand, wpc, i, spc, device>>
IntrStart ==
  /\ hpc = "start"
  /\ Take \/ Put \/ (Stop /\ hpc' = "idle" /\ UNCHANGED wpc)
  /\ UNCHANGED <<i, spc>>

\* consolewrite: uartputc for each character. (A copyin that fails ends it.)
WGoto(p, l) == wpc' = [wpc EXCEPT ![p] = l]
BeginPut(p) ==
  /\ wpc[p] = "idle"
  /\ WGoto(p, "acquire")
  /\ UNCHANGED <<uart, i, hpc, spc, device>>
AcquireTx(p) ==
  /\ wpc[p] = "acquire" /\ tlock = NoChar
  /\ tlock' = p /\ WGoto(p, "put")
  /\ UNCHANGED <<tx, txr, txw, hand, i, hpc, spc, device>>

\* The buffer is full: sleep. Else the character goes in, and uartstart.
Full == txw = (txr + UART_TX_BUF_SIZE) % TXMOD
uartputc(p) ==
  LET k == (i[p] % MaxWrite) + 1 IN
  /\ wpc[p] = "put"
  /\ IF Full
     THEN /\ WGoto(p, "sleep") /\ tlock' = NoChar
          /\ UNCHANGED <<tx, txw, i>>
     ELSE /\ tx' = [tx EXCEPT ![txw % UART_TX_BUF_SIZE] = <<p, k>>]
          /\ txw' = (txw + 1) % TXMOD
          /\ i' = [i EXCEPT ![p] = k]
          /\ WGoto(p, "start") /\ UNCHANGED tlock
  /\ UNCHANGED <<txr, hand, hpc, spc, device>>
uartstart(p) ==
  /\ wpc[p] = "start"
  /\ Take \/ Put \/ (Stop /\ WGoto(p, "idle") /\ UNCHANGED hpc)
  /\ UNCHANGED <<i, spc>>

\* uartputc_sync: spin until THR is empty, then write it.
SyncSpin(q) ==
  /\ spc[q] = "idle" /\ TxIdle
  /\ spc' = [spc EXCEPT ![q] = "thr"]
  /\ UNCHANGED <<uart, wpc, i, hpc, device>>
SyncWrite(q) ==
  /\ spc[q] = "thr"
  /\ WriteTHR(NoChar)
  /\ spc' = [spc EXCEPT ![q] = "idle"]
  /\ UNCHANGED <<uart, wpc, i, hpc, irq, last>>

\* The UART sends, and interrupts when the FIFO gets empty.
DevSend ==
  LET c == Head(fifo) IN
  /\ fifo # <<>>
  /\ fifo' = Tail(fifo)
  /\ irq' = (irq \/ Len(fifo) = 1)
  /\ last' = IF c = NoChar THEN last ELSE [last EXCEPT ![c[1]] = c[2]]
  /\ UNCHANGED <<uart, wpc, i, hpc, spc, lost>>

Writer(p) == BeginPut(p) \/ AcquireTx(p) \/ uartputc(p) \/ uartstart(p)
UartNext == \/ ClaimIrq \/ IntrAcquire \/ IntrStart \/ DevSend
            \/ \E q \in Syncs : SyncSpin(q) \/ SyncWrite(q)
            \/ \E p \in Writers : Writer(p)

UartSpec == UartInit /\ [][UartNext]_uartvars
-------------------------------------------------------------------------------
(* Properties *)

OnTheWay(p) ==
  LET ring == [k \in 1..(txw - txr) % TXMOD |-> tx[(txr + k - 1) % UART_TX_BUF_SIZE]]
      all == fifo \o (IF hand = NoChar THEN <<>> ELSE <<hand>>) \o ring
  IN  SelectSeq(all, LAMBDA c : c # NoChar /\ c[1] = p)
InOrder ==
  /\ ~lost
  /\ \A p \in Writers :
       LET s == <<last[p]>> \o [k \in DOMAIN OnTheWay(p) |-> OnTheWay(p)[k][2]] IN
       /\ \A k \in 2..Len(s) : s[k] = (s[k - 1] % MaxWrite) + 1
       /\ i[p] = s[Len(s)]

OutputMoves ==
  txw # txr =>
    \/ ~TxIdle \/ irq \/ hpc # "idle" \/ tlock # NoChar
    \/ \E q \in Syncs : spc[q] = "thr"
SleepingWriterServed == \A p \in Writers : wpc[p] = "sleep" => txw # txr

\* The characters of a writer leave the UART in the order written, each once:
\* the ones on their way (FIFO, uartstart, buffer) are those after the last one
\* sent, also when the echo and printf write to THR between them. And none gets
\* stuck: while a writer sleeps for room, or characters wait in the buffer,
\* somebody is on the way to send them: the UART, whose interrupt will come, the
\* handler, or a party that is about to write to the UART.
OutputExact == InOrder /\ OutputMoves /\ SleepingWriterServed
=============================================================================
