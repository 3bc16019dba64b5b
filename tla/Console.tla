------------------------------ MODULE Console ------------------------------
(***************************************************************************)
(* kernel/uart.c with the interrupt path of kernel/trap.c, kernel/plic.c   *)
(* and kernel/spinlock.c: a process in consoleread() on CPU 1, a process   *)
(* in uartwrite() or printf() on CPU 2, and the UART's interrupts, which   *)
(* either CPU takes when its interrupts are on.  A CPU's program counter   *)
(* is a stack: the interrupt handler on top of what it interrupted.        *)
(*                                                                         *)
(* The UART and the PLIC are external: a transmit FIFO, a receive FIFO and *)
(* two interrupt conditions; one request is in service at a time.          *)
(***************************************************************************)
EXTENDS Naturals, Sequences

CONSTANTS
  INPUT_BUF_SIZE,     \* size of cons.buf
  IndexBits,          \* width of cons.r, cons.w, cons.e (32 in the code)
  FirstIndex,         \* their common value when the behaviour starts
  Keys,               \* characters typed, out of AllKeys
  ReadLen, WriteLen,  \* n of consoleread(); characters of a uartwrite()
  Calls,              \* what the processes do, out of {"read", "write", "printf", "kill"}
  RxDepth, MaxKeys    \* bounds: characters waiting in the UART; typed in a behaviour

VARIABLES
  lock,                        \* CPU holding cons.lock, uart_tx_lock, pr.lock (0: free)
  ie, noff, intena,            \* sstatus.SIE; struct cpu
  pc,                          \* of each CPU: stack of locations
  r, w, e, cbuf,               \* cons
  n, killed,                   \* of the reader: bytes still wanted; p->killed
  uart_tx_busy, left,          \* left: characters uartwrite() has still to send
  key,                         \* character in consoleintr()
  txfifo, thre, rx,            \* UART: characters queued, THR-empty condition, received
  pending, service,            \* PLIC: request pending; request in service
  nkeys

consVars == <<r, w, e, cbuf>>
txVars == <<uart_tx_busy, left>>
cpuVars == <<lock, ie, noff, intena, pc>>
uartVars == <<txfifo, thre, rx, nkeys>>
plicVars == <<pending, service>>
vars == <<cpuVars, consVars, n, killed, txVars, key, uartVars, plicVars>>

AllKeys == {"x", "nl", "^D", "^H", "^U", "^C"}
Cpus == {1, 2}
Reader == 1      \* CPU of the process in consoleread()
Writer == 2      \* CPU of the process in uartwrite() and printf()
Locks == {"cons", "tx", "pr"}

Idx == 0..(2^IndexBits - 1)
Plus(i, k) == (i + k) % 2^IndexBits
Minus(i, j) == (i + 2^IndexBits - j) % 2^IndexBits    \* unsigned subtraction
Slot(i) == i % INPUT_BUF_SIZE

\* A location; in acquire() and uartputc_sync(), also the lock wanted or the number
\* of characters to send, and where to go on afterwards.
Loc(at) == [at |-> at, lk |-> "none", k |-> 0, next |-> "none"]
Acquire(l, next) == [Loc("acquire") EXCEPT !.lk = l, !.next = next]
Putc(k, next) == IF k = 0 THEN Loc(next) ELSE [Loc("putc") EXCEPT !.k = k, !.next = next]

Init ==
  /\ lock = [l \in Locks |-> 0]
  /\ ie = [c \in Cpus |-> TRUE] /\ noff = [c \in Cpus |-> 0] /\ intena = [c \in Cpus |-> FALSE]
  /\ pc = [c \in Cpus |-> <<Loc("idle")>>]
  /\ r = FirstIndex /\ w = FirstIndex /\ e = FirstIndex
  /\ cbuf = [s \in 0..(INPUT_BUF_SIZE - 1) |-> "x"]
  /\ n = 0 /\ killed = FALSE
  /\ uart_tx_busy = 0 /\ left = 0 /\ key = "x"
  /\ txfifo = 0 /\ thre = FALSE /\ rx = <<>> /\ nkeys = 0
  /\ pending = FALSE /\ service = FALSE

Here(c) == Head(pc[c])
Goto(c, loc) == pc' = [pc EXCEPT ![c] = <<loc>> \o Tail(@)]
Step(c, from, to) == Here(c).at = from /\ Goto(c, to)

(* ---- spinlock.c ---- *)

\* Faulty variant: interrupts stay on.
push_off_IntrOn(c) ==
  /\ intena' = IF noff[c] = 0 THEN [intena EXCEPT ![c] = ie[c]] ELSE intena
  /\ noff' = [noff EXCEPT ![c] = @ + 1]
  /\ UNCHANGED ie

push_off(c) ==
  /\ intena' = IF noff[c] = 0 THEN [intena EXCEPT ![c] = ie[c]] ELSE intena
  /\ noff' = [noff EXCEPT ![c] = @ + 1]
  /\ ie' = [ie EXCEPT ![c] = FALSE]

\* Faulty variant: interrupts are turned on whatever they were before.
pop_off_Always(c) ==
  /\ noff' = [noff EXCEPT ![c] = @ - 1]
  /\ ie' = [ie EXCEPT ![c] = noff[c] = 1]
  /\ UNCHANGED intena

pop_off(c) ==
  /\ noff' = [noff EXCEPT ![c] = @ - 1]
  /\ ie' = [ie EXCEPT ![c] = @ \/ (noff[c] = 1 /\ intena[c])]
  /\ UNCHANGED intena

\* acquire(): push_off(), then the swap, which succeeds when the lock is free.
AcquireEnter(c) ==
  /\ Step(c, "acquire", [Here(c) EXCEPT !.at = "spin"])
  /\ push_off(c)
  /\ UNCHANGED <<lock, consVars, n, killed, txVars, key, uartVars, plicVars>>

AcquireSwap(c) ==
  /\ Step(c, "spin", Loc(Here(c).next)) /\ lock[Here(c).lk] = 0
  /\ lock' = [lock EXCEPT ![Here(c).lk] = c]
  /\ UNCHANGED <<ie, noff, intena, consVars, n, killed, txVars, key, uartVars, plicVars>>

release(c, l) == lock' = [lock EXCEPT ![l] = 0] /\ pop_off(c)

\* sleep() gives up the lock and the CPU, whose scheduler() runs with interrupts on.
sleep(c, l) ==
  /\ Goto(c, Loc("asleep"))
  /\ lock' = [lock EXCEPT ![l] = 0]
  /\ noff' = [noff EXCEPT ![c] = 0] /\ ie' = [ie EXCEPT ![c] = TRUE] /\ UNCHANGED intena

\* wakeup(): the process of CPU c, if asleep, goes on in sleep(), which takes l again.
Woken(stacks, c, l, next) ==
  [stacks EXCEPT ![c] = [k \in DOMAIN @ |-> IF @[k].at = "asleep" THEN Acquire(l, next) ELSE @[k]]]

(* ---- output: uartputc_sync(), printf(), uartwrite() ---- *)

WriteTHR == txfifo' = txfifo + 1 /\ thre' = FALSE

PutcEnter(c) ==
  /\ Step(c, "putc", [Here(c) EXCEPT !.at = "poll"])
  /\ push_off(c)
  /\ UNCHANGED <<lock, consVars, n, killed, txVars, key, uartVars, plicVars>>

\* while((ReadReg(LSR) & LSR_TX_IDLE) == 0);
PutcPoll(c) ==
  /\ txfifo = 0
  /\ Step(c, "poll", [Here(c) EXCEPT !.at = "write"])
  /\ UNCHANGED <<lock, ie, noff, intena, consVars, n, killed, txVars, key, uartVars, plicVars>>

PutcWrite(c) ==
  /\ Step(c, "write", Putc(Here(c).k - 1, Here(c).next))
  /\ WriteTHR /\ pop_off(c)
  /\ UNCHANGED <<lock, consVars, n, killed, txVars, key, rx, nkeys, plicVars>>

\* The process on CPU 2 calls printf(), or write() of WriteLen characters (a newline
\* counts for two, as uartwrite() sends a carriage return before it).
StartOutput ==
  /\ Here(Writer).at = "idle"
  /\ \/ "printf" \in Calls /\ Goto(Writer, Acquire("pr", "printf")) /\ UNCHANGED left
     \/ "write" \in Calls /\ Goto(Writer, Acquire("tx", "uartwrite")) /\ left' = WriteLen
  /\ UNCHANGED <<lock, ie, noff, intena, consVars, n, killed, uart_tx_busy, key, uartVars, plicVars>>

Printf ==
  /\ \/ Step(Writer, "printf", Putc(1, "printed")) /\ UNCHANGED <<lock, ie, noff, intena>>
     \/ Step(Writer, "printed", Loc("idle")) /\ release(Writer, "pr")
  /\ UNCHANGED <<consVars, n, killed, txVars, key, uartVars, plicVars>>

UartwriteSend ==
  /\ left > 0 /\ uart_tx_busy = 0
  /\ Step(Writer, "uartwrite", Loc("uartwrite"))
  /\ WriteTHR /\ uart_tx_busy' = 1 /\ left' = left - 1
  /\ UNCHANGED <<lock, ie, noff, intena, consVars, n, killed, key, rx, nkeys, plicVars>>

UartwriteSleep ==
  /\ Here(Writer).at = "uartwrite" /\ left > 0 /\ uart_tx_busy = 1
  /\ sleep(Writer, "tx")
  /\ UNCHANGED <<consVars, n, killed, txVars, key, uartVars, plicVars>>

UartwriteReturn ==
  /\ left = 0
  /\ Step(Writer, "uartwrite", Loc("idle"))
  /\ release(Writer, "tx")
  /\ UNCHANGED <<consVars, n, killed, txVars, key, uartVars, plicVars>>

(* ---- input: consoleread() ---- *)

StartRead ==
  /\ "read" \in Calls
  /\ Step(Reader, "idle", Acquire("cons", "consoleread"))
  /\ n' = ReadLen
  /\ UNCHANGED <<lock, ie, noff, intena, consVars, killed, txVars, key, uartVars, plicVars>>

\* A killed reader returns -1.  Whatever consoleread() returns, usertrap() then makes a
\* killed process exit: the next process to read is another one.
ReadEmpty ==
  /\ Here(Reader).at = "consoleread" /\ r = w
  /\ \/ ~killed /\ Goto(Reader, Loc("sleep")) /\ UNCHANGED <<lock, ie, noff, intena, killed, n>>
     \/ killed /\ Goto(Reader, Loc("idle")) /\ release(Reader, "cons") /\ killed' = FALSE /\ n' = 0
  /\ UNCHANGED <<consVars, txVars, key, uartVars, plicVars>>

ReadSleep ==
  /\ Here(Reader).at = "sleep"
  /\ sleep(Reader, "cons")
  /\ UNCHANGED <<consVars, n, killed, txVars, key, uartVars, plicVars>>

\* One character: the end-of-file mark is left for the next call when this one has
\* bytes to return; either_copyout() may fail.
ReadChar ==
  LET c == cbuf[Slot(r)] IN
  /\ Here(Reader).at = "consoleread" /\ r # w
  /\ r' = IF c = "^D" /\ n < ReadLen THEN r ELSE Plus(r, 1)
  /\ \E copied \in (IF c = "^D" THEN {0} ELSE {0, 1}) :
       IF copied = 0 \/ c = "nl" \/ n = 1
       THEN n' = 0 /\ Goto(Reader, Loc("idle")) /\ release(Reader, "cons") /\ killed' = FALSE
       ELSE n' = n - 1 /\ UNCHANGED <<pc, lock, ie, noff, intena, killed>>
  /\ UNCHANGED <<w, e, cbuf, txVars, key, uartVars, plicVars>>

\* kill() by another process: a sleeping reader is made runnable.
Kill ==
  /\ "kill" \in Calls
  /\ ~killed /\ pc[Reader][Len(pc[Reader])].at # "idle"
  /\ killed' = TRUE
  /\ pc' = Woken(pc, Reader, "cons", "consoleread")
  /\ UNCHANGED <<lock, ie, noff, intena, consVars, n, txVars, key, uartVars, plicVars>>

(* ---- the interrupt: kerneltrap() or usertrap(), uartintr(), consoleintr() ---- *)

\* The hardware turns interrupts off and enters the handler.
Trap(c) ==
  /\ pending /\ ie[c]
  /\ pc' = [pc EXCEPT ![c] = <<Loc("claim")>> \o @]
  /\ ie' = [ie EXCEPT ![c] = FALSE]
  /\ UNCHANGED <<lock, noff, intena, consVars, n, killed, txVars, key, uartVars, plicVars>>

\* plic_claim(): zero when the other CPU was first.
Claim(c) ==
  /\ Step(c, "claim", IF pending THEN Loc("uartintr") ELSE Loc("return"))
  /\ pending' = FALSE /\ service' = (service \/ pending)
  /\ UNCHANGED <<lock, ie, noff, intena, consVars, n, killed, txVars, key, uartVars>>

\* Reading the ISR acknowledges the THR-empty condition, unless it reports received data.
UartintrAck(c) ==
  /\ Step(c, "uartintr", Acquire("tx", "txdone"))
  /\ thre' = (thre /\ rx # <<>>)
  /\ UNCHANGED <<lock, ie, noff, intena, consVars, n, killed, txVars, key, txfifo, rx, nkeys, plicVars>>

\* Faulty variant: uart_tx_busy is cleared, and nobody woken.
UartintrTx_NoWakeup(c) ==
  /\ Here(c).at = "txdone"
  /\ uart_tx_busy' = IF txfifo = 0 THEN 0 ELSE uart_tx_busy
  /\ Goto(c, Loc("rx"))
  /\ release(c, "tx")
  /\ UNCHANGED <<consVars, n, killed, left, key, uartVars, plicVars>>

UartintrTx(c) ==
  LET done == txfifo = 0 /\ uart_tx_busy = 1
      after == [pc EXCEPT ![c] = <<Loc("rx")>> \o Tail(@)]
  IN  /\ Here(c).at = "txdone"
      /\ uart_tx_busy' = IF done THEN 0 ELSE uart_tx_busy
      /\ pc' = IF done THEN Woken(after, Writer, "tx", "uartwrite") ELSE after
      /\ release(c, "tx")
      /\ UNCHANGED <<consVars, n, killed, left, key, uartVars, plicVars>>

\* uartgetc(); with nothing received, USR is read and LSR tested again.
UartintrRx(c) ==
  /\ \/ rx # <<>> /\ Step(c, "rx", Acquire("cons", "consoleintr")) /\ key' = Head(rx) /\ rx' = Tail(rx)
     \/ rx = <<>> /\ Step(c, "rx", Loc("ghost")) /\ UNCHANGED <<key, rx>>
     \/ Step(c, "ghost", IF rx = <<>> THEN Loc("complete") ELSE Loc("rx")) /\ UNCHANGED <<key, rx>>
  /\ UNCHANGED <<lock, ie, noff, intena, consVars, n, killed, txVars, txfifo, thre, nkeys, plicVars>>

\* myproc() on CPU c: the interrupt came upon a process, not upon scheduler().
RunsProcess(c) == pc[c][Len(pc[c])].at # "asleep"

\* Faulty variant: the limit lets one character too many in.
HasRoom_OneMore == Minus(e, r) <= INPUT_BUF_SIZE

HasRoom == Minus(e, r) < INPUT_BUF_SIZE

\* Characters that backspace takes out of the line being typed.
Erased == IF e # w THEN 1 ELSE 0

\* The characters that consoleintr() echoes: a newline is two, an erased character three.
Echo(c) ==
  CASE key = "^U" -> 3 * Minus(e, w)
    [] key = "^H" -> 3 * Erased
    [] key = "^C" -> IF RunsProcess(c) THEN 2 ELSE 0
    [] OTHER -> IF ~HasRoom THEN 0 ELSE IF key = "nl" THEN 2 ELSE 1

ConsoleintrEcho(c) ==
  /\ Step(c, "consoleintr", Putc(Echo(c), "edit"))
  /\ UNCHANGED <<lock, ie, noff, intena, consVars, n, killed, txVars, key, uartVars, plicVars>>

\* The line is handed over to readers.
HandsOver == key \in {"nl", "^D"} \/ Minus(Plus(e, 1), r) = INPUT_BUF_SIZE

\* ^C kills the process that the interrupt came upon.  A killed writer still ends its
\* uartwrite(), and the next output is another process's: only a reader looks.
ConsoleintrEdit(c) ==
  LET after == [pc EXCEPT ![c] = <<Loc("rx")>> \o Tail(@)]
      store == key \in {"x", "nl", "^D"} /\ HasRoom
  IN
  /\ Here(c).at = "edit"
  /\ e' = CASE store -> Plus(e, 1) [] key = "^U" -> w [] key = "^H" -> Minus(e, Erased) [] OTHER -> e
  /\ cbuf' = IF store THEN [cbuf EXCEPT ![Slot(e)] = key] ELSE cbuf
  /\ w' = IF store /\ HandsOver THEN Plus(e, 1) ELSE w
  /\ pc' = IF store /\ HandsOver THEN Woken(after, Reader, "cons", "consoleread") ELSE after
  /\ killed' = (killed \/ (key = "^C" /\ c = Reader /\ pc[c][Len(pc[c])].at \notin {"idle", "asleep"}))
  /\ release(c, "cons") /\ key' = "x"
  /\ UNCHANGED <<r, n, txVars, uartVars, plicVars>>

\* plic_complete(), if a request was claimed, and the return from the trap.
TrapReturn(c) ==
  /\ Here(c).at \in {"complete", "return"}
  /\ service' = (service /\ Here(c).at = "return")
  /\ pc' = [pc EXCEPT ![c] = Tail(@)]
  /\ ie' = [ie EXCEPT ![c] = TRUE]
  /\ UNCHANGED <<lock, noff, intena, consVars, n, killed, txVars, key, uartVars, pending>>

(* ---- external: the UART, the PLIC and the keyboard ---- *)

UartSend ==
  /\ txfifo > 0 /\ txfifo' = txfifo - 1
  /\ thre' = (txfifo = 1)
  /\ UNCHANGED <<cpuVars, consVars, n, killed, txVars, key, rx, nkeys, plicVars>>

UartReceive ==
  /\ nkeys < MaxKeys /\ nkeys' = nkeys + 1 /\ Len(rx) < RxDepth
  /\ \E k \in Keys : rx' = Append(rx, k)
  /\ UNCHANGED <<cpuVars, consVars, n, killed, txVars, key, txfifo, thre, plicVars>>

PlicRequest ==
  /\ (thre \/ rx # <<>>) /\ ~pending /\ ~service
  /\ pending' = TRUE
  /\ UNCHANGED <<cpuVars, consVars, n, killed, txVars, key, uartVars, service>>

\* Nothing happens until another character is typed.
Quiet ==
  /\ nkeys = MaxKeys /\ rx = <<>> /\ ~thre /\ ~pending /\ txfifo = 0
  /\ \A c \in Cpus : Here(c).at \in {"idle", "asleep"}
  /\ UNCHANGED vars

CpuStep(c) ==
  \/ AcquireEnter(c) \/ AcquireSwap(c) \/ PutcEnter(c) \/ PutcPoll(c) \/ PutcWrite(c)
  \/ Claim(c) \/ UartintrAck(c) \/ UartintrTx(c) \/ UartintrRx(c)
  \/ ConsoleintrEcho(c) \/ ConsoleintrEdit(c) \/ TrapReturn(c)
  \/ c = Writer /\ (Printf \/ UartwriteSend \/ UartwriteSleep \/ UartwriteReturn)
  \/ c = Reader /\ (ReadEmpty \/ ReadSleep \/ ReadChar)

Next ==
  \/ \E c \in Cpus : CpuStep(c) \/ Trap(c)
  \/ StartOutput \/ StartRead \/ Kill
  \/ UartSend \/ UartReceive \/ PlicRequest \/ Quiet

Spec == Init /\ [][Next]_vars

\* A CPU that can go on does; the UART sends what it has been given; a request reaches
\* the PLIC, and a CPU whose interrupts stay on takes it.
Fairness ==
  /\ \A c \in Cpus : WF_vars(CpuStep(c)) /\ WF_vars(Trap(c))
  /\ WF_vars(UartSend) /\ WF_vars(PlicRequest)

FairSpec == Spec /\ Fairness
-----------------------------------------------------------------------------
Ats == {"idle", "acquire", "spin", "asleep", "putc", "poll", "write", "printf", "printed", "uartwrite",
  "consoleread", "sleep", "claim", "uartintr", "txdone", "rx", "ghost", "consoleintr", "edit",
  "complete", "return"}

(* Type invariant.  No interrupt nests: the handler runs with interrupts off *)
(* although it acquires and releases locks (kerneltrap() panics otherwise).  *)
TypeOK ==
  /\ lock \in [Locks -> {0} \cup Cpus]
  /\ ie \in [Cpus -> BOOLEAN] /\ noff \in [Cpus -> 0..2] /\ intena \in [Cpus -> BOOLEAN]
  /\ \A c \in Cpus : /\ Len(pc[c]) \in {1, 2} /\ (Len(pc[c]) = 2 => ~ie[c])
                     /\ \A k \in DOMAIN pc[c] : pc[c][k].at \in Ats
  /\ r \in Idx /\ w \in Idx /\ e \in Idx /\ cbuf \in [0..(INPUT_BUF_SIZE - 1) -> {"x", "nl", "^D"}]
  /\ n \in 0..ReadLen /\ killed \in BOOLEAN /\ uart_tx_busy \in {0, 1} /\ left \in 0..WriteLen
  /\ key \in AllKeys /\ txfifo \in Nat /\ thre \in BOOLEAN /\ rx \in Seq(Keys)
  /\ pending \in BOOLEAN /\ service \in BOOLEAN /\ nkeys \in 0..MaxKeys

(* No CPU waits for a spinlock that it holds itself, in the code it runs or  *)
(* in code that its interrupt came upon (panic "acquire", or a CPU spinning  *)
(* for ever): acquire() turns interrupts off before it takes the lock.       *)
NoSelfDeadlock ==
  \A c \in Cpus : Here(c).at \in {"acquire", "spin"} => lock[Here(c).lk] # c

(* The transmit FIFO never holds more than one character per CPU and one:    *)
(* uart_tx_busy and the polling of LSR are enough for no character to be     *)
(* lost, although uartputc_sync() does not take uart_tx_lock.                *)
TxFifoBounded == txfifo <= 3

(* A reader asleep in consoleread() has no line to read: each hand-over      *)
(* wakes it, and it checks under cons.lock.                                  *)
AsleepWithoutLine == pc[Reader][Len(pc[Reader])].at = "asleep" => r = w

Taken(from, to) == [k \in 1..Minus(to, from) |-> cbuf[Slot(Plus(from, k - 1))]]
Line == INSTANCE LineInput WITH
  Chars <- {"x"}, Enders <- {"nl", "^D"}, Size <- INPUT_BUF_SIZE,
  lines <- Taken(r, w), line <- Taken(w, e)

(* The ring of cons.buf with its three wrapping indices implements the line  *)
(* discipline of LineInput, through any overflow of the indices.             *)
ImplementsLineInput == Line!LineSpec

(* uartwrite() returns: every character it sends is followed by an interrupt *)
(* that finds the transmitter idle and wakes it, whatever uartputc_sync()    *)
(* on another CPU or in the handler sends in between.                        *)
UartwriteReturns == []<>(left = 0)
=============================================================================
