------------------------------- MODULE Console -------------------------------
(* The console: line editing and input buffer (console.c), the UART driver    *)
(* (uart.c) and its device, which holds the characters to send (thr), those    *)
(* received (rx) and an interrupt request (irq).                               *)
(*                                                                             *)
(* The interrupt handler is a process of its own: the PLIC gives the UART's    *)
(* interrupt to one hart at a time.  cons.lock is a variable because the       *)
(* handler spins on the UART with it; a section under tx_lock is one step.     *)
(* The counters r, w, e wrap at CW, as the code's uint wraps at 2^32.          *)
EXTENDS Integers, SequencesExt

CONSTANTS
  Proc,       \* process slots
  INPUT_BUF,  \* INPUT_BUF_SIZE
  CW,         \* width of the counters, a multiple of INPUT_BUF
  RXFIFO,     \* characters the UART holds for the driver
  Scripts     \* what the user does, one of these: the keys typed, how many of
              \* them while nobody waits for input, and kill() calls

ASSUME WidthAssumption == CW % INPUT_BUF = 0 /\ CW > INPUT_BUF

VARIABLES
  chan,       \* chan[p]: what p sleeps on, NoChan if it does not
  cons,       \* buf, r, w, e
  consLock,   \* the handler holds cons.lock
  txBusy,     \* tx_busy
  thr,        \* characters in the UART's transmit FIFO
  rx,         \* characters in its receive FIFO
  irq,        \* the UART requests an interrupt
  hand,       \* the handler: "idle", "ack", "rx" or "echo"
  echo,       \* characters the handler has still to echo
  ahead,      \* keys the user types while nobody waits for input
  typed,      \* what the user has still to type
  keys,       \* history: the keys that came, and how much had been read then
  lost,       \* history: a key found the buffer full
  taken       \* history: the characters consoleread() has taken

device == <<thr, rx, irq>>
driver == <<cons, consLock, txBusy, hand, echo>>
ghosts == <<keys, taken, lost>>
user == <<typed, ahead>>
consoleVars == <<chan, device, driver, user, ghosts>>

NoChan == <<"none", 0>>
TxChan == <<"tx", 0>>
ConsChan == <<"cons", 0>>
WakeUp(c) == [p \in Proc |-> IF chan[p] = c THEN NoChan ELSE chan[p]]

UartInit == txBusy = FALSE /\ thr = 0 /\ rx = <<>> /\ irq = FALSE
ConsoleInit ==
  /\ UartInit /\ chan = [p \in Proc |-> NoChan]
  /\ cons = [buf |-> [i \in 0 .. INPUT_BUF - 1 |-> "nul"], r |-> 0, w |-> 0, e |-> 0]
  /\ consLock = FALSE /\ hand = "idle" /\ echo = 0
  /\ (\E s \in Scripts : typed = s.keys /\ ahead = s.ahead) /\ keys = <<>> /\ taken = <<>> /\ lost = FALSE

Inc(x) == (x + 1) % CW
Dec(x) == (x + CW - 1) % CW
Used(from, to) == (to + CW - from) % CW
Slot(x) == x % INPUT_BUF

-----------------------------------------------------------------------------
(* The device *)

\* The transmit FIFO runs empty: an interrupt.
DeviceSent ==
  /\ thr > 0 /\ thr' = 0 /\ irq' = TRUE
  /\ UNCHANGED <<chan, rx, driver, user, ghosts>>
\* A key: an interrupt.
DeviceKey ==
  /\ typed # <<>> /\ Len(rx) < RXFIFO
  /\ (\E p \in Proc : chan[p] = ConsChan) \/ Used(cons.r, cons.e) + Len(rx) < ahead
  /\ rx' = Append(rx, Head(typed)) /\ typed' = Tail(typed) /\ irq' = TRUE
  /\ UNCHANGED <<chan, thr, driver, ahead, ghosts>>

-----------------------------------------------------------------------------
(* uartintr() *)

IntrAck ==
  /\ hand = "idle" /\ irq
  /\ irq' = FALSE /\ hand' = "ack"
  /\ UNCHANGED <<chan, thr, rx, cons, consLock, txBusy, echo, user, ghosts>>

\* The loop over uartgetc() ends when no character is there.
Loop == IF rx = <<>> THEN "idle" ELSE "rx"

IntrTx_mut ==
  /\ hand = "ack" /\ hand' = Loop
  /\ txBusy' = IF thr = 0 THEN FALSE ELSE txBusy
  /\ UNCHANGED <<chan, device, cons, consLock, echo, user, ghosts>>
IntrTx ==
  /\ hand = "ack" /\ hand' = Loop
  /\ IF thr = 0 THEN txBusy' = FALSE /\ chan' = WakeUp(TxChan) ELSE UNCHANGED <<txBusy, chan>>
  /\ UNCHANGED <<device, cons, consLock, echo, user, ghosts>>

\* consoleintr(): the erased characters, what is echoed for them, and the
\* buffer after the key.
CtrlU == "U"
Erased(key) ==
  IF key = "H" /\ cons.e # cons.w THEN 1
  ELSE IF key = CtrlU
  THEN Min({n \in 0 .. Used(cons.w, cons.e) :
              \/ n = Used(cons.w, cons.e)
              \/ cons.buf[Slot(cons.e + CW - n - 1)] = "nl"})
  ELSE 0
HasSpace == Used(cons.r, cons.e) < INPUT_BUF
Edit(key) == key \in {"H", CtrlU}
Stored(key) == ~Edit(key) /\ HasSpace
\* The line goes to the readers.
Completes_mut(key) == key \in {"nl", "D"}
Completes(key) == key \in {"nl", "D"} \/ Used(cons.r, Inc(cons.e)) = INPUT_BUF

\* Characters that consputc() sends: a backspace takes three.
Echoes(key) == IF Stored(key) THEN 1 ELSE 3 * Erased(key)

IntrKey ==
  /\ hand = "rx"
  /\ LET key == Head(rx) IN
     /\ cons' = IF Stored(key)
                THEN [cons EXCEPT !.buf[Slot(cons.e)] = key, !.e = Inc(@),
                                  !.w = IF Completes(key) THEN Inc(cons.e) ELSE @]
                ELSE [cons EXCEPT !.e = (@ + CW - Erased(key)) % CW]
     /\ chan' = IF Stored(key) /\ Completes(key) THEN WakeUp(ConsChan) ELSE chan
     /\ echo' = Echoes(key)
     /\ keys' = Append(keys, [key |-> key, read |-> Len(taken)])
     /\ lost' = (lost \/ ~(Stored(key) \/ Edit(key)))
  /\ rx' = Tail(rx)
  /\ consLock' = TRUE /\ hand' = "echo"
  /\ UNCHANGED <<thr, irq, txBusy, user, taken>>

\* consputc(): uartputc_sync() spins until the transmit FIFO is empty.
IntrEcho ==
  /\ hand = "echo" /\ echo > 0 /\ thr = 0
  /\ thr' = 1 /\ echo' = echo - 1
  /\ UNCHANGED <<chan, rx, irq, cons, consLock, txBusy, hand, user, ghosts>>
IntrEchoed ==
  /\ hand = "echo" /\ echo = 0 /\ hand' = Loop /\ consLock' = FALSE
  /\ UNCHANGED <<chan, device, cons, txBusy, echo, user, ghosts>>

Interrupt == IntrAck \/ IntrTx \/ IntrKey \/ IntrEcho \/ IntrEchoed

-----------------------------------------------------------------------------
(* System calls *)

\* consoleread() of n characters after got, until it has to sleep: what it has
\* then, how far the read index is, and whether the call returns.
RECURSIVE ConsRead(_, _, _)
ConsRead(r, got, n) ==
  LET c == cons.buf[Slot(r)] IN
  IF Len(got) = n THEN [got |-> got, r |-> r, done |-> TRUE]
  ELSE IF r = cons.w THEN [got |-> got, r |-> r, done |-> FALSE]
  ELSE IF c = "D" THEN [got |-> got, r |-> IF got = <<>> THEN Inc(r) ELSE r, done |-> TRUE]
  ELSE IF c = "nl" THEN [got |-> Append(got, c), r |-> Inc(r), done |-> TRUE]
  ELSE ConsRead(Inc(r), Append(got, c), n)

\* The characters from index a up to index b.
Between(a, b) == [i \in 1 .. Used(a, b) |-> cons.buf[Slot(a + i - 1)]]

\* uartwrite() of one character: p sleeps while the UART is busy.
UartPut(p) ==
  /\ IF txBusy THEN chan' = [chan EXCEPT ![p] = TxChan] /\ UNCHANGED <<thr, txBusy>>
     ELSE thr' = thr + 1 /\ txBusy' = TRUE /\ chan' = chan
  /\ UNCHANGED <<rx, irq, cons, consLock, hand, echo, user, ghosts>>

-----------------------------------------------------------------------------
(* Properties *)

\* What the user has typed, edited: the characters of the finished lines and
\* those of the line that is still being edited.  At most INPUT_BUF characters
\* wait to be read: a key that finds so many is dropped, and the one that makes
\* them so many ends the line, as nl and ^D do.
KeyEdits(s, k) ==
  LET n == Len(s.input) + Len(s.line) - k.read IN
  IF k.key = "H" THEN [s EXCEPT !.line = SubSeq(@, 1, Len(@) - 1)]
  ELSE IF k.key = CtrlU THEN [s EXCEPT !.line = <<>>]
  ELSE IF n = INPUT_BUF THEN s
  ELSE IF k.key \in {"nl", "D"} \/ n + 1 = INPUT_BUF
  THEN [input |-> s.input \o Append(s.line, k.key), line |-> <<>>]
  ELSE [s EXCEPT !.line = Append(@, k.key)]
Edited == FoldLeft(KeyEdits, [input |-> <<>>, line |-> <<>>], keys)

\* Readers get the edited input, in order and with no loss but that of a full
\* buffer, whatever the timing of keys, interrupts and reads and through the
\* wrap of r, w and e: what was taken and what lies between r and w is the input,
\* between w and e is the unfinished line, and a full buffer is handed over even
\* without a newline (consoleintr, consoleread).
InputAsEdited ==
  /\ taken \o Between(cons.r, cons.w) = Edited.input
  /\ Between(cons.w, cons.e) = Edited.line
=============================================================================
