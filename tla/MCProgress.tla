----------------------------- MODULE MCProgress -----------------------------
(***************************************************************************)
(* Progress under fair scheduling, in four systems: processes that contend *)
(* for a sleep-lock (Sleeplock); init, its child and its grandchild, which *)
(* fork, wait and exit on one CPU (Proc); a write to the console while a   *)
(* key is typed (Console); and three system calls in a log that has room   *)
(* for two (Log).  A behaviour is one of one of them while the variables   *)
(* of the others rest.                                                     *)
(***************************************************************************)
EXTENDS Sleeplock

VARIABLES
  part,
  proc_state, proc_chan, proc_killed, proc_pid, proc_parent, nextpid, cpu, scan,
  wait_lock, proc_lock, ctx, proc_pc, i, j, arg,
  lock, ie, noff, intena, con_pc, r, w, e, cbuf, n, killed, uart_tx_busy, left, key,
  txfifo, thre, rx, pending, service, nkeys,
  disk, logd, head, lh, outstanding, committing, cache, log_pc, op, tail, sec, boot, nops, wrote

Processes == INSTANCE Proc WITH
  NPROC <- 3, NCPU <- 1, MaxPid <- 3, KillPids <- {},
  state <- proc_state, chan <- proc_chan, killed <- proc_killed, pid <- proc_pid,
  parent <- proc_parent, plock <- proc_lock, pc <- proc_pc

Console == INSTANCE Console WITH
  INPUT_BUF_SIZE <- 2, IndexBits <- 2, FirstIndex <- 3, ReadLen <- 2, WriteLen <- 2,
  Keys <- {"x"}, Calls <- {"write"}, RxDepth <- 1, MaxKeys <- 1,
  pc <- con_pc

Calls == INSTANCE Log WITH
  Procs <- 1..3, Blocks <- {1}, MAXOPBLOCKS <- 2, LOGBLOCKS <- 4, OpBlocks <- 1, MaxOps <- 3,
  pc <- log_pc

procVars == <<proc_state, proc_chan, proc_killed, proc_pid, proc_parent, nextpid, cpu, scan,
              wait_lock, proc_lock, ctx, proc_pc, i, j, arg>>
conVars == <<lock, ie, noff, intena, con_pc, r, w, e, cbuf, n, killed, uart_tx_busy, left, key,
             txfifo, thre, rx, pending, service, nkeys>>
logVars == <<disk, logd, head, lh, outstanding, committing, cache, log_pc, op, tail, sec, boot,
             nops, wrote>>
allVars == <<part, vars, procVars, conVars, logVars>>

AllInit ==
  /\ part \in {"sleeplock", "proc", "console", "log"}
  /\ Init /\ Processes!Init /\ Console!Init /\ Calls!Init

AllNext ==
  \/ part = "sleeplock" /\ Next /\ UNCHANGED <<part, procVars, conVars, logVars>>
  \/ part = "proc" /\ Processes!Next /\ UNCHANGED <<part, vars, conVars, logVars>>
  \/ part = "console" /\ Console!Next /\ UNCHANGED <<part, vars, procVars, logVars>>
  \/ part = "log" /\ Calls!Next /\ UNCHANGED <<part, vars, procVars, conVars>>

AllFair ==
  /\ AllInit /\ [][AllNext]_allVars
  /\ \/ part = "sleeplock" /\ Fairness
     \/ part = "proc" /\ Processes!Fairness
     \/ part = "console" /\ Console!Fairness
     \/ part = "log" /\ Calls!Fairness
-----------------------------------------------------------------------------
\* The process table: no spinlock is held forever, a RUNNABLE process gets the CPU
\* from the round robin of scheduler() although two others want it too, and init
\* reaps its zombie children, the one that reparent() gave it included.
ProcProgress == part = "proc" => Processes!ProcProgress

\* uartwrite() returns: the interrupt that says the transmitter is empty comes,
\* and wakes the writer, although a key may be typed at any time.
UartwriteReturns == part = "console" => Console!UartwriteReturns

\* begin_op() returns while others call too: the two wakeup(&log) lose no sleeper.
\* (With MaxOps calls in all: begin_op() has no queue, and an endless stream of new
\* calls could take the room before a woken process each time.)
BeginOpReturns == part = "log" => Calls!BeginOpReturns
=============================================================================
