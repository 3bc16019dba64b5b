----------------------------- MODULE MCDevices ------------------------------
(***************************************************************************)
(* The devices, each by itself: the clock (Timer), the console while it is *)
(* written to, while it is read, while its reader may be killed and while  *)
(* longer lines are typed that nobody reads (Console), and the SD card     *)
(* (SdCard).  A behaviour is one of one of them while the variables of the *)
(* others rest.                                                            *)
(***************************************************************************)
EXTENDS Timer

VARIABLES
  part,
  con_lock, ie, noff, intena, con_pc, r, w, e, cbuf, con_n, con_killed, uart_tx_busy, left,
  key, txfifo, thre, rx, pending, service, nkeys,
  phase, retry, answers, offset, disk, dev, stat, fifo, sd_lock, sd_pc, call, buf, last, ios

AllKeys == {"x", "nl", "^D", "^H", "^U", "^C"}

Output == INSTANCE Console WITH
  INPUT_BUF_SIZE <- 2, IndexBits <- 2, FirstIndex <- 3, ReadLen <- 2, WriteLen <- 2,
  Keys <- AllKeys, Calls <- {"write", "printf"}, RxDepth <- 1, MaxKeys <- 1,
  lock <- con_lock, pc <- con_pc, n <- con_n, killed <- con_killed

Input == INSTANCE Console WITH
  INPUT_BUF_SIZE <- 2, IndexBits <- 2, FirstIndex <- 3, ReadLen <- 2, WriteLen <- 2,
  Keys <- AllKeys \ {"^U"}, Calls <- {"read"}, RxDepth <- 1, MaxKeys <- 3,
  lock <- con_lock, pc <- con_pc, n <- con_n, killed <- con_killed

Killing == INSTANCE Console WITH
  INPUT_BUF_SIZE <- 2, IndexBits <- 2, FirstIndex <- 3, ReadLen <- 2, WriteLen <- 2,
  Keys <- AllKeys \ {"^U"}, Calls <- {"read", "kill"}, RxDepth <- 1, MaxKeys <- 2,
  lock <- con_lock, pc <- con_pc, n <- con_n, killed <- con_killed

\* A line of two characters that can still be edited takes a buffer of three or more:
\* in Input's, ^U would do what ^H does.
Editor == INSTANCE Console WITH
  INPUT_BUF_SIZE <- 4, IndexBits <- 3, FirstIndex <- 6, ReadLen <- 2, WriteLen <- 2,
  Keys <- {"x", "nl", "^H", "^U"}, Calls <- {}, RxDepth <- 1, MaxKeys <- 4,
  lock <- con_lock, pc <- con_pc, n <- con_n, killed <- con_killed

Card == INSTANCE SdCard WITH
  Procs <- {1, 2}, NBLOCKS <- 4, SectorsPerBlock <- 2, Base <- 4, RETRIES <- 3, MaxIo <- 3,
  lock <- sd_lock, pc <- sd_pc

conVars == <<con_lock, ie, noff, intena, con_pc, r, w, e, cbuf, con_n, con_killed,
             uart_tx_busy, left, key, txfifo, thre, rx, pending, service, nkeys>>
sdVars == <<phase, retry, answers, offset, disk, dev, stat, fifo, sd_lock, sd_pc, call, buf, last, ios>>
allVars == <<part, vars, conVars, sdVars>>

AllInit ==
  /\ part \in {"timer", "output", "input", "killing", "editor", "card"}
  /\ Init /\ Card!Init /\ IF part = "editor" THEN Editor!Init ELSE Output!Init
  /\ part # "card" => \A s \in DOMAIN disk : disk[s] = 0

AllNext ==
  \/ part = "timer" /\ Next /\ UNCHANGED <<part, conVars, sdVars>>
  \/ part = "output" /\ Output!Next /\ UNCHANGED <<part, vars, sdVars>>
  \/ part = "input" /\ Input!Next /\ UNCHANGED <<part, vars, sdVars>>
  \/ part = "killing" /\ Killing!Next /\ UNCHANGED <<part, vars, sdVars>>
  \/ part = "editor" /\ Editor!Next /\ UNCHANGED <<part, vars, sdVars>>
  \/ part = "card" /\ Card!Next /\ UNCHANGED <<part, vars, conVars>>

AllSpec == AllInit /\ [][AllNext]_allVars
-----------------------------------------------------------------------------
\* Type invariants of the clock, of the console, whose interrupts do not nest, and
\* of the SD card driver.
DevicesTypeOK ==
  /\ part = "timer" => TypeOK
  /\ part = "input" => Input!TypeOK
  /\ part = "killing" => Killing!TypeOK
  /\ part = "output" => Output!TypeOK
  /\ part = "editor" => Editor!TypeOK
  /\ part = "card" => Card!TypeOK

\* printf(), uartwrite() and consoleread() against the interrupt handler: no CPU
\* spins on a lock that it holds itself, the transmit FIFO never takes a character
\* it has no room for, and a reader asleep in consoleread() has no finished line.
ConsoleSafe ==
  /\ part \in {"input", "killing", "output", "editor"} => Input!NoSelfDeadlock /\ Input!TxFifoBounded
  /\ part \in {"input", "killing"} => Input!AsleepWithoutLine

\* The circular buffer of consoleintr() and consoleread() is a line editor.
Line == INSTANCE LineInput WITH
  Chars <- {"x"}, Enders <- {"nl", "^D"}, Size <- 2,
  lines <- IF part \in {"input", "killing"} THEN Input!Taken(r, w) ELSE <<>>,
  line <- IF part \in {"input", "killing"} THEN Input!Taken(w, e) ELSE <<>>
EditedLine == INSTANCE LineInput WITH
  Chars <- {"x"}, Enders <- {"nl"}, Size <- 4,
  lines <- IF part = "editor" THEN Editor!Taken(r, w) ELSE <<>>,
  line <- IF part = "editor" THEN Editor!Taken(w, e) ELSE <<>>
ImplementsLineInput == Line!LineSpec /\ EditedLine!LineSpec

\* sd_init() mounts a card only if a poll found it ready, and gives a ready one
\* up only at the last poll; sd_disk_rw() writes no sector below the file
\* blocks of the partition, and reads back the block that it wrote last.
CardSafe == part = "card" => Card!InitVerdict /\ Card!WritesInPartition /\ Card!BlockIntact

\* Until a call has failed the controller is never given a command while it transfers
\* for another.
OneTransfer == Card!OneTransfer
=============================================================================
