----------------------------- MODULE MCStorage ------------------------------
(***************************************************************************)
(* The file system's structure and what keeps it through a crash, each by  *)
(* itself: the log on its disk (Log), and the inode table and the          *)
(* directory tree on an atomic disk (Fs).  A behaviour is one of one of    *)
(* them while the variables of the other rest.                             *)
(***************************************************************************)
EXTENDS Log

VARIABLES
  part,
  dinode, dents, store, itable, ilk, cwd, ofile, fs_pc, th, active, at, ncalls, ncrashes

\* The root, a file in a directory, and two names in the current directory, one
\* of which is there.
DownPaths == {<<"/">>, <<"a">>, <<"/", "a", "b">>, <<"b">>}

Tree == INSTANCE Fs WITH
  NPROC <- 2, NINODES <- 4, NINODE <- 4, Paths <- DownPaths,
  Calls <- {"open", "creat", "mkdir", "link", "unlink", "chdir", "close"},
  MaxCalls <- 2, MaxCrashes <- 1, pc <- fs_pc, boot <- at

treeVars == <<dinode, dents, store, itable, ilk, cwd, ofile, fs_pc, th, active, at, ncalls, ncrashes>>
allVars == <<part, vars, treeVars>>

AllInit ==
  /\ part \in {"log", "tree"} /\ Init /\ Tree!Init
  /\ part = "log" => ofile = [p \in 1..2 |-> 0]

AllNext ==
  \/ part = "log" /\ Next /\ UNCHANGED <<part, treeVars>>
  \/ part = "tree" /\ Tree!Next /\ UNCHANGED <<part, vars>>

AllSpec == AllInit /\ [][AllNext]_allVars
-----------------------------------------------------------------------------
\* The inode table: the types; ip->ref counts the pointers to an entry, no inode
\* has two, and iput()'s acquiresleep() does not sleep.
InodesExact == part = "tree" => Tree!InodesExact

\* The panics of ilock(), dirlookup() and sys_unlink() are out of reach.
TreeNoPanic == part = "tree" => Tree!NoPanic

\* What a crash leaves is a consistent tree: no entry names a free inode, and no
\* inode has fewer links recorded than entries naming it.
TreeConsistent == part = "tree" => Tree!TreeConsistent
=============================================================================
