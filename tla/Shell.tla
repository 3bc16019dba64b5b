------------------------------- MODULE Shell -------------------------------
(***************************************************************************)
(* user/sh.c: the recursive-descent parser, on every short command line,   *)
(* the NULs nulterminate() writes into the line, and the processes of      *)
(* runcmd(), with their descriptors and waits.  A line is a sequence of    *)
(* characters, "a" for any that is neither blank nor symbol; positions are *)
(* indices into it, and its end stands for the terminating NUL.  Commands  *)
(* are records with the type of the C structure.  A panic of the parser is *)
(* the command Panic.                                                      *)
(***************************************************************************)
EXTENDS Integers, Sequences, FiniteSets

CONSTANTS Chars,       \* characters of a line
          MaxLine,     \* bound: the length of a line
          MAXARGS,
          NOFILE       \* descriptors of a process

VARIABLES line,        \* buf of main()
          cmd,         \* the parsed command, None before parsecmd()
          buf,         \* the line after nulterminate()
          execs,       \* the programs run: their words and descriptors
          procs,       \* the processes of the command
          mode,        \* what the programs wait for: the end of their input, or readers
          failed       \* a system call has failed (one may)

vars == <<line, cmd, buf, execs, procs, mode, failed>>

None == [type |-> "none"]
Panic == [type |-> "panic"]
NoProcess == [p \in {} |-> None]
Blank == " "
Symbols == {"<", "|", ">", "&", ";", "(", ")"}

Init == /\ line \in UNION {[1 .. n -> Chars] : n \in 0 .. MaxLine}
        /\ cmd = None /\ buf = line /\ execs = {}
        /\ procs = NoProcess /\ mode = "none" /\ failed = FALSE

-----------------------------------------------------------------------------
At(s, p) == IF p <= Len(s) THEN s[p] ELSE "NUL"
RECURSIVE SkipBlank(_, _), SkipWord(_, _)
SkipBlank(s, p) == IF At(s, p) = Blank THEN SkipBlank(s, p + 1) ELSE p
SkipWord(s, p) == IF At(s, p) \in Symbols \cup {Blank, "NUL"} THEN p ELSE SkipWord(s, p + 1)

\* gettoken(): the token, where it lies and where the next one starts.
TokenAt(s, q) == IF At(s, q) = ">" /\ At(s, q + 1) = ">" THEN "+"
                 ELSE IF At(s, q) \in Symbols \cup {"NUL"} THEN At(s, q) ELSE "a"
TokenEnd(s, q, tok) == CASE tok = "NUL" -> q
                         [] tok = "+" -> q + 2
                         [] tok = "a" -> SkipWord(s, q)
                         [] OTHER -> q + 1
Token(s, tok, q, eq) == [tok |-> tok, w |-> <<q, eq>>, p |-> SkipBlank(s, eq)]
TokenFrom(s, q) == Token(s, TokenAt(s, q), q, TokenEnd(s, q, TokenAt(s, q)))
gettoken(s, ps) == TokenFrom(s, SkipBlank(s, ps))

peek(s, ps, toks) == At(s, SkipBlank(s, ps)) \in toks

\* parseredirs(): each redirection goes around the command so far.  The
\* redirections are collected here and put around it by Redirected.
RECURSIVE parseredirs(_, _, _)
RedirTo(s, p, redirs, t, f) ==
  IF f.tok # "a" THEN [ok |-> FALSE, p |-> p, redirs |-> redirs]
  ELSE parseredirs(s, f.p, Append(redirs, [file |-> f.w, fd |-> IF t.tok = "<" THEN 0 ELSE 1]))
RedirBy(s, p, redirs, t) == RedirTo(s, p, redirs, t, gettoken(s, t.p))
parseredirs(s, p, redirs) ==
  IF peek(s, p, {"<", ">"}) THEN RedirBy(s, p, redirs, gettoken(s, p))
  ELSE [ok |-> TRUE, p |-> p, redirs |-> redirs]
\* redircmd() around a command, the first one innermost.
RECURSIVE Redirected(_, _)
Redirected(c, redirs) ==
  IF redirs = <<>> THEN c
  ELSE Redirected([type |-> "REDIR", cmd |-> c, file |-> redirs[1].file, fd |-> redirs[1].fd],
                  SubSeq(redirs, 2, Len(redirs)))

\* The parsing functions return the command and the position behind it.
Parsed(c, p) == [cmd |-> c, p |-> p]
Failed == Parsed(Panic, 0)

\* The while loop of parseexec(): words, with redirections between them.
RECURSIVE Args(_, _, _, _)
ArgsAfter(s, argv, t, r) == IF r.ok THEN Args(s, r.p, Append(argv, t.w), r.redirs) ELSE Failed
ArgsFrom(s, p, argv, redirs, t) ==
  IF peek(s, p, {"|", ")", "&", ";"}) \/ t.tok = "NUL"
  THEN Parsed(Redirected([type |-> "EXEC", argv |-> argv], redirs), p)
  ELSE IF t.tok # "a" \/ Len(argv) + 1 >= MAXARGS THEN Failed
  ELSE ArgsAfter(s, argv, t, parseredirs(s, t.p, redirs))
Args(s, p, argv, redirs) == ArgsFrom(s, p, argv, redirs, gettoken(s, p))

\* parseblock(): a line in parentheses, and redirections of all of it.
RECURSIVE parseline(_, _), parsepipe(_, _), Backs(_, _, _)
BlockRedirs(l, r) == IF r.ok THEN Parsed(Redirected(l.cmd, r.redirs), r.p) ELSE Failed
BlockClose(s, l) ==
  IF l.cmd = Panic \/ ~peek(s, l.p, {")"}) THEN Failed
  ELSE BlockRedirs(l, parseredirs(s, gettoken(s, l.p).p, <<>>))
parseblock(s, p) == BlockClose(s, parseline(s, gettoken(s, p).p))

ExecArgs(s, r) == IF r.ok THEN Args(s, r.p, <<>>, r.redirs) ELSE Failed
parseexec(s, p) ==
  IF peek(s, p, {"("}) THEN parseblock(s, p) ELSE ExecArgs(s, parseredirs(s, p, <<>>))

\* What follows a pipe symbol.
PipeRest(s, p) == parsepipe(s, p)

PipeWith(e, r) ==
  IF r.cmd = Panic THEN Failed
  ELSE Parsed([type |-> "PIPE", left |-> e.cmd, right |-> r.cmd], r.p)
PipeAfter(s, e) ==
  IF e.cmd = Panic \/ ~peek(s, e.p, {"|"}) THEN e
  ELSE PipeWith(e, PipeRest(s, gettoken(s, e.p).p))
parsepipe(s, p) == PipeAfter(s, parseexec(s, p))

Backs(s, c, p) == IF peek(s, p, {"&"}) THEN Backs(s, [type |-> "BACK", cmd |-> c], gettoken(s, p).p)
                  ELSE Parsed(c, p)
ListWith(b, r) ==
  IF r.cmd = Panic THEN Failed
  ELSE Parsed([type |-> "LIST", left |-> b.cmd, right |-> r.cmd], r.p)
ListAfter(s, b) ==
  IF peek(s, b.p, {";"}) THEN ListWith(b, parseline(s, gettoken(s, b.p).p)) ELSE b
LineAfter(s, e) == IF e.cmd = Panic THEN e ELSE ListAfter(s, Backs(s, e.cmd, e.p))
parseline(s, p) == LineAfter(s, parsepipe(s, p))

\* The words of a command: arguments and files.
RECURSIVE Words(_)
Words(c) == CASE c.type = "EXEC"  -> {c.argv[k] : k \in 1 .. Len(c.argv)}
              [] c.type = "REDIR" -> Words(c.cmd) \cup {c.file}
              [] c.type = "BACK"  -> Words(c.cmd)
              [] c.type \in {"PIPE", "LIST"} -> Words(c.left) \cup Words(c.right)
              [] OTHER -> {}

\* nulterminate(): a NUL behind every word.
nulterminate(s, c) == [p \in 1 .. Len(s) |-> IF \E w \in Words(c) : w[2] = p THEN "NUL" ELSE s[p]]

\* parsecmd(): leftovers are a panic.
Parsecmd ==
  /\ cmd = None
  /\ LET r == parseline(line, 1)
     IN  cmd' = IF r.cmd = Panic \/ SkipBlank(line, r.p) # Len(line) + 1 THEN Panic ELSE r.cmd
  /\ buf' = nulterminate(line, cmd')
  /\ UNCHANGED <<line, execs, procs, mode, failed>>

-----------------------------------------------------------------------------
\* Descriptors: what each one refers to.
Closed == <<"closed", 0>>
Tty == <<"tty", 0>>
Terminal == [fd \in 0 .. NOFILE - 1 |-> IF fd < 3 THEN Tty ELSE Closed]
Close(fds, fd) == [fds EXCEPT ![fd] = Closed]
Lowest(fds) == CHOOSE fd \in DOMAIN fds : /\ fds[fd] = Closed
                                          /\ \A e \in DOMAIN fds : fds[e] = Closed => fd <= e
\* open(), dup() and each end of pipe() take the lowest free descriptor.
Open(fds, what) == [fds EXCEPT ![Lowest(fds)] = what]

\* The children of a PIPE: end is connected to descriptor fd, and the pipe's
\* own descriptors are closed.  The parent closes both ends.
Child(fds, r, w, fd, end) == Close(Close(Open(Close(fds, fd), fds[end]), r), w)
\* Faulty variant: the shell keeps the write end while it waits.
Parent_KeepWrite(fds, r, w) == Close(fds, r)
Parent(fds, r, w) == Close(Close(fds, r), w)

\* runcmd() for command c, which lies at place id of the tree: its parts are at
\* 2 * id and 2 * id + 1.  A process is known by the place it was forked for.
Process(c, fds, id) == [st |-> "run", cmd |-> c, fds |-> fds, id |-> id, kids |-> {}]
Start == /\ cmd \notin {None, Panic} /\ procs = NoProcess
         /\ procs' = [p \in {1} |-> Process(cmd, Terminal, 1)]
         /\ mode' \in {"readers", "writers"}
         /\ UNCHANGED <<line, cmd, buf, execs, failed>>

Becomes(p, q) == procs' = [procs EXCEPT ![p] = q]
Ended(q) == [q EXCEPT !.st = "done", !.fds = [fd \in DOMAIN @ |-> Closed]]
Forks(p, q, kids) == procs' = [k \in DOMAIN procs \cup DOMAIN kids |->
                                 IF k \in DOMAIN kids THEN kids[k] ELSE IF k = p THEN q ELSE procs[k]]
Running(p, type) == procs[p].st = "run" /\ procs[p].cmd.type = type

\* open(), pipe() or fork() fails: a message, and exit(1).  A failed exec() does
\* the same with exit(0).
CallFails(p) ==
  /\ procs[p].st = "run" /\ procs[p].cmd # [type |-> "EXEC", argv |-> <<>>] /\ ~failed
  /\ Becomes(p, Ended(procs[p])) /\ failed' = TRUE
  /\ UNCHANGED <<line, cmd, buf, execs, mode>>

RunExec(p) ==
  LET q == procs[p] IN
  /\ Running(p, "EXEC")
  /\ IF q.cmd.argv = <<>> THEN Becomes(p, Ended(q)) /\ UNCHANGED execs
     ELSE /\ Becomes(p, [q EXCEPT !.st = "program"])
          /\ execs' = execs \cup {[argv |-> q.cmd.argv, fds |-> q.fds]}
  /\ UNCHANGED <<line, cmd, buf, mode, failed>>

RunRedir(p) ==
  LET q == procs[p] IN
  /\ Running(p, "REDIR")
  /\ Becomes(p, [q EXCEPT !.cmd = @.cmd, !.fds = Open(Close(@, q.cmd.fd), <<"file", q.cmd.file[1]>>)])
  /\ UNCHANGED <<line, cmd, buf, execs, mode, failed>>

RunList(p) ==
  LET q == procs[p] IN
  /\ Running(p, "LIST")
  /\ Forks(p, [q EXCEPT !.st = "wait", !.kids = {2 * q.id}],
           [k \in {2 * q.id} |-> Process(q.cmd.left, q.fds, k)])
  /\ UNCHANGED <<line, cmd, buf, execs, mode, failed>>

RunBack(p) ==
  LET q == procs[p] IN
  /\ Running(p, "BACK")
  /\ Forks(p, Ended(q), [k \in {2 * q.id} |-> Process(q.cmd.cmd, q.fds, k)])
  /\ UNCHANGED <<line, cmd, buf, execs, mode, failed>>

\* pipe(), the two forks with what the children do first, and the parent's closes;
\* the second fork may fail after the first.
RunPipe(p) ==
  LET q == procs[p]
      r == Lowest(q.fds)
      w == Lowest(Open(q.fds, <<"r", q.id>>))
      both == Open(Open(q.fds, <<"r", q.id>>), <<"w", q.id>>)
      left == Process(q.cmd.left, Child(both, r, w, 1, w), 2 * q.id)
      right == Process(q.cmd.right, Child(both, r, w, 0, r), 2 * q.id + 1)
  IN /\ Running(p, "PIPE")
     /\ \/ /\ Forks(p, [q EXCEPT !.st = "wait", !.kids = {left.id, right.id}, !.fds = Parent(both, r, w)],
                   [k \in {left.id, right.id} |-> IF k = left.id THEN left ELSE right])
           /\ UNCHANGED failed
        \/ /\ ~failed /\ failed' = TRUE
           /\ Forks(p, Ended(q), [k \in {left.id} |-> left])
     /\ UNCHANGED <<line, cmd, buf, execs, mode>>

\* The wait(0)s of LIST, which goes on with its right part, and of PIPE.
KidsDone(p) == \A k \in procs[p].kids : procs[k].st = "done"
Waited(p) ==
  LET q == procs[p] IN
  /\ q.st = "wait" /\ KidsDone(p)
  /\ Becomes(p, IF q.cmd.type = "LIST" THEN Process(q.cmd.right, q.fds, 2 * q.id + 1) ELSE Ended(q))
  /\ UNCHANGED <<line, cmd, buf, execs, mode, failed>>

\* A program that reads its input to the end stays until nobody can write to its
\* pipe; one that writes without end stays until nobody can read from it.
HeldOpen(what) == \E q \in DOMAIN procs, fd \in 0 .. NOFILE - 1 : procs[q].fds[fd] = what
MayEnd(p) == LET in == procs[p].fds[0]
                 out == procs[p].fds[1]
             IN  /\ mode = "readers" /\ in[1] = "r" => ~HeldOpen(<<"w", in[2]>>)
                 /\ mode = "writers" /\ out[1] = "w" => ~HeldOpen(<<"r", out[2]>>)
ProgramEnds(p) ==
  /\ procs[p].st = "program" /\ MayEnd(p)
  /\ Becomes(p, Ended(procs[p]))
  /\ UNCHANGED <<line, cmd, buf, execs, mode, failed>>

Next == \/ Parsecmd \/ Start
        \/ \E p \in DOMAIN procs :
             \/ CallFails(p) \/ RunExec(p) \/ RunRedir(p) \/ RunList(p) \/ RunBack(p) \/ RunPipe(p)
             \/ Waited(p) \/ ProgramEnds(p)

-----------------------------------------------------------------------------
\* The line as tokens, and the grammar the parser is for:
\*   line ::= pipe "&"* [";" line]      pipe ::= exec ["|" pipe]
\*   exec ::= "(" line ")" redir*  or  redir* (word redir*)*
\*   redir ::= ("<" or ">" or ">>") word
\* Ends(sym, i): where a string of sym that starts at token i can end.
RECURSIVE Tokens(_, _)
Tokens(s, p) == LET t == gettoken(s, p)
                IN  IF t.tok = "NUL" THEN <<>> ELSE <<t>> \o Tokens(s, t.p)
RECURSIVE Ends(_, _, _), Many(_, _, _)
Many(ts, sym, S) ==
  LET T == S \cup UNION {Ends(ts, sym, i) : i \in S} IN IF T = S THEN S ELSE Many(ts, sym, T)
Ends(ts, sym, i) ==
  LET tok(j) == IF j <= Len(ts) THEN ts[j].tok ELSE "NUL"
      sym1(c, S) == {j + 1 : j \in {k \in S : tok(k) = c}}
      after(y, S) == UNION {Ends(ts, y, j) : j \in S}
  IN CASE sym = "redir" -> IF tok(i) \in {"<", ">", "+"} THEN sym1("a", {i + 1}) ELSE {}
       [] sym = "back"  -> sym1("&", {i})
       [] sym = "arg"   -> Many(ts, "redir", sym1("a", {i}))
       [] sym = "exec"  -> Many(ts, "redir", sym1(")", after("line", sym1("(", {i}))))
                           \cup Many(ts, "arg", Many(ts, "redir", {i}))
       [] sym = "pipe"  -> LET e == Ends(ts, "exec", i) IN e \cup after("pipe", sym1("|", e))
       [] sym = "line"  -> LET b == Many(ts, "back", Ends(ts, "pipe", i))
                           IN  b \cup after("line", sym1(";", b))

\* The tokens outside every pair of parentheses.
TopLevel(ts) ==
  {ts[i].tok : i \in {j \in 1 .. Len(ts) :
     Cardinality({k \in 1 .. j : ts[k].tok = "("}) = Cardinality({k \in 1 .. j - 1 : ts[k].tok = ")"})}}

\* parsecmd() accepts exactly the lines of the grammar (but panics at MAXARGS
\* words in one command), loses no word of them, and makes a list where a
\* semicolon stands outside brackets, else a background command where an
\* ampersand does, else a pipe.
ParsesGrammar ==
  cmd # None /\ procs = NoProcess =>
    LET ts == Tokens(line, 1)
        words == {ts[k].w : k \in {j \in 1 .. Len(ts) : ts[j].tok = "a"}}
        inside == TopLevel(ts)
    IN  /\ cmd # Panic => /\ Len(ts) + 1 \in Ends(ts, "line", 1)
                          /\ Words(cmd) = words
                          /\ ";" \in inside => cmd.type = "LIST"
                          /\ ";" \notin inside /\ "&" \in inside => cmd.type = "BACK"
                          /\ inside \cap {";", "&"} = {} /\ "|" \in inside => cmd.type = "PIPE"
        /\ cmd = Panic => Len(ts) + 1 \notin Ends(ts, "line", 1) \/ Cardinality(words) >= MAXARGS

\* After nulterminate() every word reads as the string it was in the line,
\* though the NULs were written over whatever follows the words.
WordsTerminated ==
  cmd \notin {None, Panic} /\ procs = NoProcess =>
    \A w \in Words(cmd) :
      LET ends == {p \in w[1] .. Len(buf) + 1 : At(buf, p) = "NUL"}
          e == CHOOSE p \in ends : \A r \in ends : p <= r
      IN  SubSeq(buf, w[1], e - 1) = SubSeq(line, w[1], w[2] - 1)

\* What a command reads from and writes to, without descriptors.
RECURSIVE Wiring(_, _, _, _)
Wiring(c, in, out, id) ==
  CASE c.type = "EXEC"  -> IF c.argv = <<>> THEN {} ELSE {<<c.argv, in, out>>}
    [] c.type = "REDIR" -> IF c.fd = 0 THEN Wiring(c.cmd, <<"file", c.file[1]>>, out, id)
                           ELSE Wiring(c.cmd, in, <<"file", c.file[1]>>, id)
    [] c.type = "LIST"  -> Wiring(c.left, in, out, 2 * id) \cup Wiring(c.right, in, out, 2 * id + 1)
    [] c.type = "BACK"  -> Wiring(c.cmd, in, out, 2 * id)
    [] c.type = "PIPE"  -> Wiring(c.left, in, <<"w", id>>, 2 * id)
                           \cup Wiring(c.right, <<"r", id>>, out, 2 * id + 1)

\* Every program runs with the descriptors 0 and 1 that its place in the
\* command gives it and with 2 on the terminal, and no other is open; unless a
\* system call failed, every program of the line is run.
PipesWired ==
  LET run == {<<x.argv, x.fds[0], x.fds[1]>> : x \in execs}
      all == Wiring(cmd, Tty, Tty, 1)
  IN  cmd \notin {None, Panic} =>
        /\ run \subseteq all
        /\ procs # NoProcess /\ (\A p \in DOMAIN procs : procs[p].st = "done") /\ ~failed
             => run = all
        /\ \A x \in execs : x.fds[2] = Tty /\ \A fd \in 3 .. NOFILE - 1 : x.fds[fd] = Closed

\* The shell always comes back to its prompt, after a failed open(), pipe(),
\* fork() or exec() too: while a process is left some process can go on, whether
\* the programs read to the end of their input or write until nobody reads.  A
\* pipe end left open by a child or by the waiting shell would hold them all.
NobodyHangs ==
  LET goes(p) == CASE procs[p].st = "run"     -> TRUE
                   [] procs[p].st = "wait"    -> KidsDone(p)
                   [] procs[p].st = "program" -> MayEnd(p)
                   [] OTHER                   -> FALSE
  IN  (\E p \in DOMAIN procs : procs[p].st # "done") => \E p \in DOMAIN procs : goes(p)
=============================================================================
