------------------------------- MODULE Printf -------------------------------
(***************************************************************************)
(* The two printf()s: the kernel's in kernel/uart.c and the user library's *)
(* in user/printf.c, with their printint() and printptr().  Integers keep  *)
(* their width: long has LongBits bits and int has IntBits (64 and 32 in   *)
(* the code), and the digits are built in a buffer of BUFSIZE characters   *)
(* (20).  Arguments are registers, from which va_arg() takes what the      *)
(* directive asks for.  The output is a sequence of characters and of      *)
(* printed numbers; a number is the sequence of its characters.            *)
(***************************************************************************)
EXTENDS Integers, Sequences, SequencesExt

CONSTANTS LongBits, IntBits, BUFSIZE,
          Values       \* register values tried

VARIABLES fmt, args, user, kernel     \* a call, and what each printf() does

vars == <<fmt, args, user, kernel>>

\* The letters of a directive: all that the user library understands.
Directives == {<<"d">>, <<"l", "d">>, <<"l", "l", "d">>, <<"u">>, <<"l", "u">>,
               <<"l", "l", "u">>, <<"x">>, <<"l", "x">>, <<"l", "l", "x">>, <<"p">>,
               <<"c">>, <<"s">>}
\* The format strings tried: directives, characters and unknown directives in
\* twos, as sequences of characters.
Pieces == {<<"%">> \o d : d \in Directives}
          \cup {<<"a">>, <<"d">>, <<"%", "%">>, <<"%", "l">>, <<"%", "a">>}
Formats == {p \o q : p, q \in Pieces}

NoOutput == [out |-> <<>>, used |-> 0]
\* Every call passes enough arguments.
Init == /\ fmt \in Formats /\ args \in [1 .. 2 -> Values]
        /\ user = NoOutput /\ kernel = NoOutput

-----------------------------------------------------------------------------
\* va_arg(): the register as an int, an unsigned int, a long.
Signed(v, bits) == IF v % 2^bits >= 2^(bits - 1) THEN (v % 2^bits) - 2^bits ELSE v % 2^bits
Int32(v) == Signed(v, IntBits)
Uint32(v) == v % 2^IntBits
Int64(v) == Signed(v, LongBits)

\* The tables of digits: the kernel's, and the user library's.
kdigits == <<"0", "1", "2", "3", "4", "5", "6", "7", "8", "9", "a", "b", "c", "d", "e", "f">>
udigits == <<"0", "1", "2", "3", "4", "5", "6", "7", "8", "9", "A", "B", "C", "D", "E", "F">>

\* The digits of x, the last one first; at least one.
RECURSIVE DigitsOf(_, _, _)
DigitsOf(x, b, digits) ==
  <<digits[1 + (x % b)]>> \o (IF x \div b = 0 THEN <<>> ELSE DigitsOf(x \div b, b, digits))

\* printint(): xx is a long, x an unsigned long.
\* Faulty variant: the sign is taken off in the narrow type.
printint_Narrow(xx, b, sgn, digits) ==
  LET x == IF sgn /\ xx < 0 THEN Uint32(-xx) ELSE xx % 2^LongBits
  IN  Reverse(DigitsOf(x, b, digits) \o (IF sgn /\ xx < 0 THEN <<"-">> ELSE <<>>))
printint(xx, b, sgn, digits) ==
  LET x == IF sgn /\ xx < 0 THEN (-xx) % 2^LongBits ELSE xx % 2^LongBits
  IN  Reverse(DigitsOf(x, b, digits) \o (IF sgn /\ xx < 0 THEN <<"-">> ELSE <<>>))

\* printptr(): 0x and all hexadecimal digits, the highest first.
printptr(x, digits) ==
  <<"0", "x">> \o [k \in 1 .. LongBits \div 4 |-> digits[1 + ((x \div 2^(LongBits - 4 * k)) % 16)]]

\* A number printed for argument k as the directive said.
Number(k, dir, text) == [k |-> k, dir |-> dir, text |-> text]
Char(c) == [k |-> 0, dir |-> c, text |-> <<>>]

At(f, i) == IF i <= Len(f) THEN f[i] ELSE "NUL"
\* Whether directive dir is at f[i].
StartsWith(f, i, dir) == \A k \in 1 .. Len(dir) : At(f, i + k - 1) = dir[k]

\* What vprintf() prints for a directive.
Printed(dir, v) ==
  CASE dir = <<"d">> -> printint(Int32(v), 10, TRUE, udigits)
    [] dir = <<"u">> -> printint(Uint32(v), 10, FALSE, udigits)
    [] dir = <<"x">> -> printint(Uint32(v), 16, FALSE, udigits)
    [] dir \in {<<"l", "d">>, <<"l", "l", "d">>} -> printint(Int64(v), 10, TRUE, udigits)
    [] dir \in {<<"l", "u">>, <<"l", "l", "u">>} -> printint(Int64(v), 10, FALSE, udigits)
    [] dir \in {<<"l", "x">>, <<"l", "l", "x">>} -> printint(Int64(v), 16, FALSE, udigits)
    [] dir = <<"p">> -> printptr(v, udigits)
    [] OTHER         -> <<>>         \* the character, or the string there

\* vprintf() of the user library, from position i in state plain or percent.
Skip(dir) == Len(dir)
\* The loop over the format.
RECURSIVE vprintf(_, _, _, _)
vprintf(i, percent, n, out) ==
  LET c0 == At(fmt, i)
      known == {dir \in Directives : StartsWith(fmt, i, dir)}
  IN  IF c0 = "NUL" THEN [out |-> out, used |-> n]
      ELSE IF ~percent
      THEN vprintf(i + 1, c0 = "%", n, IF c0 = "%" THEN out ELSE Append(out, Char(c0)))
      ELSE IF known # {}
      THEN LET dir == CHOOSE dir \in known : TRUE
           IN  vprintf(i + Skip(dir), FALSE, n + 1,
                       Append(out, Number(n + 1, dir, Printed(dir, args[n + 1]))))
      ELSE vprintf(i + 1, FALSE, n,
                   out \o (IF c0 = "%" THEN <<Char("%")>> ELSE <<Char("%"), Char(c0)>>))

\* The kernel's printf(): fewer directives, and %x takes an int.
KernelPrinted(dir, v) ==
  CASE dir = <<"d">>      -> printint(Int32(v), 10, TRUE, kdigits)
    [] dir = <<"l", "d">> -> printint(Int64(v), 10, TRUE, kdigits)
    [] dir = <<"x">>      -> printint(Int32(v), 16, FALSE, kdigits)
    [] dir = <<"p">>      -> printptr(v, kdigits)
    [] OTHER              -> <<>>
KernelDirectives == {<<"d">>, <<"l", "d">>, <<"x">>, <<"p">>, <<"s">>}
RECURSIVE printf(_, _, _)
printf(i, n, out) ==
  LET cx == At(fmt, i)
      c0 == At(fmt, i + 1)
      known == {dir \in KernelDirectives : StartsWith(fmt, i + 1, dir)}
  IN  IF cx = "NUL" THEN [out |-> out, used |-> n]
      ELSE IF cx # "%" THEN printf(i + 1, n, Append(out, Char(cx)))
      ELSE IF known # {}
      THEN LET dir == CHOOSE dir \in known : TRUE
           IN  printf(i + 1 + Len(dir), n + 1,
                      Append(out, Number(n + 1, dir, KernelPrinted(dir, args[n + 1]))))
      ELSE printf(i + 2, n,
                  out \o (IF c0 = "%" THEN <<Char("%")>> ELSE <<Char("%"), Char(c0)>>))

Call == /\ user = NoOutput /\ fmt # <<>>
        /\ user' = vprintf(1, FALSE, 0, <<>>)
        /\ kernel' = printf(1, 0, <<>>)
        /\ UNCHANGED <<fmt, args>>
Next == Call

-----------------------------------------------------------------------------
Numbers(o) == {o.out[k] : k \in {j \in 1 .. Len(o.out) : o.out[j].k # 0}}
\* A digit in the kernel's case, and the number that a text stands for.
Lower(c) == IF \E k \in 1 .. 16 : udigits[k] = c
            THEN kdigits[CHOOSE k \in 1 .. 16 : udigits[k] = c] ELSE c
DigitValue(c) == (CHOOSE k \in 1 .. 16 : kdigits[k] = Lower(c)) - 1
RECURSIVE Value(_, _)
Value(t, b) == IF t = <<>> THEN 0
               ELSE IF t[1] = "-" THEN - Value(Tail(t), b)
               ELSE DigitValue(t[Len(t)]) + b * Value(SubSeq(t, 1, Len(t) - 1), b)
Base(dir) == IF dir[Len(dir)] \in {"x", "p"} THEN 16 ELSE 10
\* The number that a directive denotes for a register.
Denoted(dir, v) == LET bits == IF Len(dir) > 1 \/ dir = <<"p">> THEN LongBits ELSE IntBits
                   IN  IF dir[Len(dir)] = "d" THEN Signed(v, bits) ELSE v % 2^bits

\* printint() never writes past its buffer, the sign of the least long
\* included.
DigitsFit ==
  \A num \in Numbers(user) \cup Numbers(kernel) : num.dir # <<"p">> => Len(num.text) <= BUFSIZE

\* The text that the user's printf() prints reads back as the argument, the
\* least int and the least long too, and the n-th directive of the format has
\* printed the n-th argument.
ReadsBack ==
  LET dirs == {k \in 1 .. Len(user.out) : user.out[k].k # 0}
  IN  /\ \A num \in Numbers(user) : num.dir \notin {<<"c">>, <<"s">>} =>
           /\ LET text == IF num.dir = <<"p">> THEN SubSeq(num.text, 3, Len(num.text)) ELSE num.text
              IN  Value(text, Base(num.dir)) = Denoted(num.dir, args[num.k])
           /\ num.dir # <<"p">> /\ Len(num.text) > 1 => num.text[1] # "0"
      /\ {user.out[k].k : k \in dirs} = 1 .. user.used

\* Where the kernel's printf() understands the directives of a format, and no
\* negative int is printed with %x, it prints what the user's does, but for
\* the case of the digits above 9 (their tables of digits differ).
PrintfsAgree ==
  user.out # <<>> /\ (\A num \in Numbers(user) :
                        /\ num.dir \in KernelDirectives
                        /\ num.dir = <<"x">> => Int32(args[num.k]) >= 0)
    => /\ kernel.used = user.used /\ Len(kernel.out) = Len(user.out)
       /\ \A k \in 1 .. Len(user.out) :
            kernel.out[k] = IF user.out[k].k = 0 \/ user.out[k].dir = <<"s">> THEN user.out[k]
                            ELSE [user.out[k] EXCEPT !.text = [j \in 1 .. Len(@) |-> Lower(@[j])]]
=============================================================================
