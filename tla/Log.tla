--------------------------------- MODULE Log ---------------------------------
(***************************************************************************)
(* log_impl of src/log/log.c: every format over a set of characters, the   *)
(* malformed ones included, one iteration of its loop per step.            *)
(*                                                                         *)
(* A character is its ASCII code.  What one call of __com_putc or          *)
(* __com_puts writes is one element of out; the words of print_level are   *)
(* left out.  int32_t and int64_t are scaled to INT and LONG values, and   *)
(* the buffers with them: each is as long as the longest number needs.     *)
(***************************************************************************)
EXTENDS Integers, Sequences, SequencesExt

CONSTANTS
    Chars,              \* characters of formats
    MaxFormat,          \* bound: length of the format
    CHAR, INT, LONG,    \* number of values of char, int32_t and int64_t
    Ints, Longs,        \* arguments, as unsigned numbers
    Strings,            \* arguments of %s
    BufX, BufLX, BufU, BufLU, BufD, BufLD   \* sizeof(buf) in each print function

\* The least number of each type is left out: its negation is undefined.
ASSUME LogAssumption ==
    /\ Ints \subseteq (0 .. INT - 1) \ {INT \div 2}
    /\ Longs \subseteq (0 .. LONG - 1) \ {LONG \div 2}

NUL == 0
PERCENT == 37
MINUS == 45
ZERO == 48
LETTER == [c |-> 99, d |-> 100, l |-> 108, s |-> 115, u |-> 117, x |-> 120]

RUNNING == 1

VARIABLES
    format,
    buf,                \* the offset of buf in format
    out,                \* what has been written, by call
    args,               \* the argument printed by each call, or 0
    ret                 \* RUNNING, or what log_impl has returned

vars == <<format, buf, out, args, ret>>

signed(val, width) == IF val >= width \div 2 THEN val - width ELSE val

-----------------------------------------------------------------------------
\* Digits that begin before the buffer does are written over something else.
OVERRUN == <<>>
puts(s, size) == IF Len(s) < size THEN s ELSE OVERRUN

hex_digit(d) == IF d < 10 THEN ZERO + d ELSE 97 + d - 10

\* val >>= 4 is arithmetic, as \div is.
print_x(val, size) == [i \in 1 .. size - 1 |-> hex_digit((val \div 16 ^ (size - 1 - i)) % 16)]

\* The loop that fills buf from its end.
digits[val \in Nat] == IF val = 0 THEN <<>> ELSE Append(digits[val \div 10], (val % 10) + ZERO)

print_u(val, size) == IF val = 0 THEN <<ZERO>> ELSE puts(digits[val], size)


print_d(val, size) == IF val < 0 THEN puts(<<MINUS>> \o digits[-val], size) ELSE print_u(val, size)

-----------------------------------------------------------------------------
Init ==
    /\ format \in UNION { [1 .. n -> Chars] : n \in 0 .. MaxFormat }
    /\ buf = 0 /\ out = <<>> /\ args = <<>> /\ ret = RUNNING

at(i) == IF i < Len(format) THEN format[i + 1] ELSE NUL

\* One call to the port, and the buf++ at the end of the iteration.
Write(s, arg, length) ==
    /\ out' = Append(out, s) /\ args' = Append(args, arg)
    /\ buf' = buf + length
    /\ UNCHANGED <<format, ret>>

Return(val) == ret' = val /\ UNCHANGED <<format, buf, out, args>>

Done == ret = RUNNING /\ at(buf) = NUL /\ Return(0)

\* Mutant: only a conversion is stepped over.
text_sticks == ret = RUNNING /\ at(buf) \notin {NUL, PERCENT} /\ UNCHANGED vars

Text == ret = RUNNING /\ at(buf) \notin {NUL, PERCENT} /\ Write(<<at(buf)>>, 0, 1)

\* A conversion of one letter.
Convert ==
    /\ ret = RUNNING /\ at(buf) = PERCENT
    /\ LET letter == at(buf + 1)
       IN  \/ letter = PERCENT /\ Write(<<PERCENT>>, 0, 2)
           \/ letter = LETTER.c /\ \E v \in Ints : Write(<<v % CHAR>>, v, 2)
           \/ letter = LETTER.s /\ \E s \in Strings : Write(s, s, 2)
           \/ letter = LETTER.x /\ \E v \in Ints : Write(print_x(signed(v, INT), BufX), v, 2)
           \/ letter = LETTER.u /\ \E v \in Ints : Write(print_u(v, BufU), v, 2)
           \/ letter = LETTER.d /\ \E v \in Ints : Write(print_d(signed(v, INT), BufD), signed(v, INT), 2)
           \/ letter \notin {PERCENT} \cup { LETTER[f] : f \in DOMAIN LETTER } /\ Return(-1)

\* A conversion of two letters.
ConvertLong ==
    /\ ret = RUNNING /\ at(buf) = PERCENT /\ at(buf + 1) = LETTER.l
    /\ LET letter == at(buf + 2)
       IN  \/ letter = LETTER.x /\ \E v \in Longs : Write(print_x(signed(v, LONG), BufLX), v, 3)
           \/ letter = LETTER.u /\ \E v \in Longs : Write(print_u(v, BufLU), v, 3)
           \/ letter = LETTER.d /\ \E v \in Longs : Write(print_d(signed(v, LONG), BufLD), signed(v, LONG), 3)
           \/ letter \notin {LETTER.x, LETTER.u, LETTER.d} /\ Return(-1)

log_impl == Done \/ Text \/ Convert \/ ConvertLong

Returned == ret # RUNNING /\ UNCHANGED vars

Next == log_impl \/ Returned

\* log_impl waits for nothing.
Spec == Init /\ [][Next]_vars /\ WF_vars(log_impl)

-----------------------------------------------------------------------------
\* The conversions that the comment of log_impl lists.
Conversions ==
    {<<PERCENT, PERCENT>>}
        \cup { <<PERCENT, LETTER[f]>> : f \in DOMAIN LETTER \ {"l"} }
        \cup { <<PERCENT, LETTER.l, LETTER[f]>> : f \in {"x", "u", "d"} }

\* The characters and conversions that f begins with, up to the first thing
\* that is neither.
RECURSIVE pieces(_)
pieces(f) ==
    LET first == { p \in Conversions \cup { <<c>> : c \in Chars \ {PERCENT} } : IsPrefix(p, f) }
    IN  IF first = {} THEN <<>>
        ELSE LET p == CHOOSE p \in first : TRUE
             IN  <<p>> \o pieces(SubSeq(f, Len(p) + 1, Len(f)))

\* The number that s shows in a radix.
value(s, radix) ==
    FoldLeft(LAMBDA sum, c : sum * radix + (IF c >= 97 THEN c - 97 + 10 ELSE c - ZERO), 0, s)

shows_decimal(s, val) ==
    /\ s # <<>>
    /\ IF val < 0 THEN Head(s) = MINUS /\ value(Tail(s), 10) = -val ELSE value(s, 10) = val
    /\ Len(s) > 1 => s[IF val < 0 THEN 2 ELSE 1] # ZERO

shows(piece, s, arg) ==
    CASE Last(piece) \in {LETTER.u, LETTER.d} /\ Len(piece) > 1 -> shows_decimal(s, arg)
      [] Last(piece) = LETTER.x /\ Len(piece) > 1 -> s # <<>> /\ value(s, 16) = arg
      [] Last(piece) = LETTER.s /\ Len(piece) > 1 -> s = arg
      [] Last(piece) = LETTER.c /\ Len(piece) > 1 -> s = <<arg % CHAR>>
      [] OTHER -> s = <<Last(piece)>>


\* log_impl ends for every format, also one that ends within a conversion.
LogReturns == <>(ret # RUNNING)
==============================================================================
