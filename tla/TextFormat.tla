------------------------------ MODULE TextFormat ------------------------------
(***************************************************************************)
(* The three formatters of the C library: _doprnt (doprnt.c) behind        *)
(* printf, vsprintf (vsnprintf.c) behind the commands of the driver, and   *)
(* cstring_formatv (cstring.c) with the strings it writes into.  A step is *)
(* one turn of the loop over the format or, for a c_string, one call.      *)
(* Characters are strings of one character; a long has Wide values and,    *)
(* as on the ARM, the width of an int.  Memory is not exhausted, %f is     *)
(* left out, and no character that is printed is the null.                 *)
(***************************************************************************)
EXTENDS Integers, Sequences, SequencesExt, FiniteSetsExt

CONSTANTS Wide,      \* the number of values of a long
          Reserve,   \* FORMAT_RESERVE
          Specs,     \* the conversions asked for, one to a format
          Values,    \* the integers printed
          Texts,     \* the strings printed, appended and replaced
          MaxOps     \* the number of calls on one c_string

VARIABLES who,     \* the function that formats
          spec,    \* what the format was made of
          fmt,     \* the format
          args,    \* what is left of the variable arguments
          value,   \* the value to be printed, and the * in front of it
          pos,     \* pFormat, fmt
          text,    \* what was written, up to buf or m_pInPtr
          buffer_size,
          op,      \* a call on the c_string under way
          rd,      \* pReader
          want,    \* what the c_string ought to hold
          ops

vars == <<who, spec, fmt, args, value, pos, text, buffer_size, op, rd, want, ops>>

Lower   == <<"0", "1", "2", "3", "4", "5", "6", "7", "8", "9", "a", "b", "c", "d", "e", "f">>
Upper   == <<"0", "1", "2", "3", "4", "5", "6", "7", "8", "9", "A", "B", "C", "D", "E", "F">>
Decimal == {Lower[k] : k \in 1 .. 10}
Place(c) == CHOOSE k \in 0 .. 15 : c \in {Lower[k + 1], Upper[k + 1]}
Copies(c, k) == [j \in 1 .. IF k > 0 THEN k ELSE 0 |-> c]
Radix(c) == CASE c \in {"d", "i", "u"} -> 10 [] c \in {"x", "X", "p"} -> 16 [] c = "o" -> 8
             [] c = "b" -> 2 [] OTHER -> 0

\* The format of a specification; a specification without a conversion is cut short.
Format(s) == s.before \o <<"%">> \o s.flags \o s.width \o s.prec \o s.size \o s.conv \o s.after
Stars(s) == {s.width, s.prec} \cap {<<"*">>, <<".", "*">>}

-----------------------------------------------------------------------------
(* Reading the format.                                                     *)

At(i) == IF i \in DOMAIN fmt THEN fmt[i] ELSE "end"
Past(i, S) == CHOOSE j \in i .. Len(fmt) + 1 : At(j) \notin S /\ \A k \in i .. j - 1 : At(k) \in S
Number(i, j) == FoldLeft(LAMBDA n, c : 10 * n + Place(c), 0, SubSeq(fmt, i, j - 1))

\* Parts 2 and 3 of a conversion; a * takes an argument.
Width(i, a) == IF At(i) = "*" THEN [n |-> Head(a), end |-> i + 1, args |-> Tail(a)]
               ELSE [n |-> Number(i, Past(i, Decimal)), end |-> Past(i, Decimal), args |-> a]
Precision(i, a) ==
    CASE At(i) # "." -> [n |-> -1, end |-> i, args |-> a]
      [] At(i) = "." /\ At(i + 1) = "*" -> [n |-> Head(a), end |-> i + 2, args |-> Tail(a)]
      [] OTHER -> [n |-> Number(i + 1, Past(i + 1, Decimal)), end |-> Past(i + 1, Decimal), args |-> a]

\* Part 4: a char, a short and an int arrive as ints, and a long is as wide.
Modifier(i) == CASE At(i) = "l" -> i + 1
                 [] At(i) = "h" -> IF At(i + 1) = "h" THEN i + 2 ELSE i + 1
                 [] OTHER -> i

\* The digits of an unsigned long, from the last to the first.
ulong_to_string(num, base, digits) ==
    LET str[n \in Nat] == IF n < base THEN <<digits[n + 1]>>
                          ELSE Append(str[n \div base], digits[(n % base) + 1])
    IN  str[num]

\* The number of characters is counted without the sign.
LayoutUnsigned(str, numeric, minus, prec, width, left, zero) ==
    LET body == (IF minus THEN <<"-">> ELSE <<>>) \o str
    IN  IF left THEN body \o Copies(" ", width - Len(str)) ELSE Copies(" ", width - Len(str)) \o body

\* Lengths, padding, sign and zeroes, in the order in which they are written.
Layout(str, numeric, minus, prec, width, left, zero) ==
    LET len      == IF ~numeric /\ prec \in 0 .. Len(str) THEN prec ELSE Len(str)
        zeroes   == IF numeric /\ prec > Len(str) THEN prec - Len(str) ELSE 0
        padding  == width - (len + zeroes + (IF minus THEN 1 ELSE 0))
        withZero == zero /\ ~left /\ ~(numeric /\ prec >= 0)
    IN  (IF left \/ withZero THEN <<>> ELSE Copies(" ", padding))
          \o (IF minus THEN <<"-">> ELSE <<>>)
          \o Copies("0", IF withZero THEN padding ELSE zeroes)
          \o SubSeq(str, 1, len)
          \o (IF left THEN Copies(" ", padding) ELSE <<>>)

\* The text of one conversion; its argument is an integer, or a sequence for a
\* character or a string.
Converted(c, v, prec, width, left, zero) ==
    IF Radix(c) = 0 THEN Layout(v, FALSE, FALSE, prec, width, left, zero)
    ELSE LET minus == c = "d" /\ v < 0
             abs   == IF minus THEN -v ELSE v % Wide
         IN  Layout(ulong_to_string(abs, Radix(c), IF c = "X" THEN Upper ELSE Lower), TRUE, minus,
                    prec, width, left, zero)

\* One turn of the loop: a conversion or, for %%, for one that is not known and
\* for any other character, a character as it is.
Turn(i, a) ==
    LET f == Past(i + 1, {"-", "0"})
        w == Width(f, a)
        p == Precision(w.end, w.args)
        c == Modifier(p.end)
        left == w.n < 0 \/ "-" \in {At(j) : j \in i + 1 .. f - 1}
    IN  IF At(i) = "%" /\ At(i + 1) # "%" /\ At(c) \in {"c", "s", "d", "u", "o", "x", "X", "b"}
        THEN [end |-> c + 1, args |-> Tail(p.args),
              text |-> Converted(At(c), Head(p.args), p.n, IF w.n < 0 THEN -w.n ELSE w.n, left,
                                 "0" \in {At(j) : j \in i + 1 .. f - 1})]
        ELSE [end  |-> IF At(i) = "%" /\ At(i + 1) = "%" THEN i + 2 ELSE i + 1,
              args |-> IF At(i) = "%" /\ At(i + 1) # "%" THEN p.args ELSE a,
              text |-> <<At(i)>>]

Written(t) == pos' = t.end /\ args' = t.args /\ text' = text \o t.text

_doprnt == /\ who = "printf" /\ pos <= Len(fmt) /\ Written(Turn(pos, args))
           /\ UNCHANGED <<who, spec, fmt, value, buffer_size, op, rd, want, ops>>
vsprintf == /\ who = "sprintf" /\ pos <= Len(fmt) /\ Written(Turn(pos, args))
            /\ UNCHANGED <<who, spec, fmt, value, buffer_size, op, rd, want, ops>>

-----------------------------------------------------------------------------
(* The c_string.                                                           *)

\* The null is forgotten.
PutNoNull(b, s) == [text |-> b.text \o s,
                    size |-> IF b.size >= Len(b.text) + Len(s) THEN b.size
                             ELSE Len(b.text) + Len(s) + Reserve]

\* ReserveSpace and the characters that are then put: the buffer grows when
\* they and a null do not fit.
Put(b, s) == LET nNewSize == Len(b.text) + Len(s) + 1
             IN  IF s = <<>> THEN b
                 ELSE [text |-> b.text \o s,
                       size |-> IF b.size >= nNewSize THEN b.size ELSE nNewSize + Reserve]
PutAll(pieces) == LET b == FoldLeft(Put, [text |-> text, size |-> buffer_size], pieces)
                  IN  text' = b.text /\ buffer_size' = b.size

\* The digits of an unsigned long, from the first to the last: the divisor is
\* the largest power of the base that is not larger than the number.
cstring_ntoa(num, base, digits) ==
    LET power[n \in Nat] == IF num \div n < base THEN n ELSE power[n * base]
        from[n \in Nat] == IF n = 0 THEN <<>> ELSE <<digits[((num \div n) % base) + 1]>> \o from[n \div base]
    IN  from[power[1]]

\* Width and zeroes on the left, or the width on the right, piece by piece.
Padded(minus, str, width, left, zero) ==
    LET pad  == width - Len(str) - (IF minus THEN 1 ELSE 0)
        sign == IF minus THEN <<"-">> ELSE <<>>
    IN  IF left THEN <<sign, str, Copies(" ", pad)>>
        ELSE IF zero THEN <<sign, Copies("0", pad), str>>
        ELSE <<Copies(" ", pad), sign, str>>

\* The pieces one conversion puts; # puts its prefix in front of the padding.
PiecesOf(c, v, width, alt, left, zero) ==
    CASE c \in {"c", "s"} -> Padded(FALSE, v, width, left, FALSE)
      [] c \in {"d", "i"} -> Padded(v < 0, cstring_ntoa(IF v < 0 THEN -v ELSE v, 10, Lower), width, left, zero)
      [] c \in {"o", "u", "x", "X", "p"} ->
           <<CASE alt /\ c = "o" -> <<"0">> [] alt /\ c = "X" -> <<"0", "X">>
               [] alt /\ c \in {"x", "p"} -> <<"0", "x">> [] OTHER -> <<>> >>
             \o Padded(FALSE, cstring_ntoa(v % Wide, Radix(c), IF c = "X" THEN Upper ELSE Lower),
                       width, left, zero)

\* One turn of the loop of cstring_formatv.  Each flag is looked for once, in
\* this order.  A format that ends in a conversion is left behind its null.
FormatTurn(i, a) ==
    LET s == IF At(i + 1) = "#" THEN i + 2 ELSE i + 1
        l == IF At(s) = "-" THEN s + 1 ELSE s
        z == IF At(l) = "0" THEN l + 1 ELSE l
        w == Past(z, Decimal)
        p == IF At(w) = "." THEN Past(w + 1, Decimal) ELSE w
        c == IF At(p) # "l" THEN p ELSE IF At(p + 1) = "l" THEN p + 2 ELSE p + 1
    IN  CASE At(i) # "%" -> [end |-> i + 1, args |-> a, pieces |-> <<<<At(i)>>>>]
          [] At(i) = "%" /\ At(i + 1) = "%" -> [end |-> i + 2, args |-> a, pieces |-> <<<<"%">>>>]
          [] At(i) = "%" /\ At(i + 1) # "%" ->
               IF At(c) \in {"c", "d", "i", "o", "s", "u", "x", "X", "p"}
               THEN [end |-> c + 1, args |-> Tail(a),
                     pieces |-> PiecesOf(At(c), Head(a), Number(z, w), s > i + 1, l > s, z > l)]
               ELSE [end |-> c + 1, args |-> a, pieces |-> <<<<"%">>, <<At(c)>>>>]

\* get_new_cstring: a text and its null.
get_new_cstring(s) == text = s /\ buffer_size = Len(s) + 1

FormatStart == /\ who = "cstring" /\ op = "new" /\ op' = "formatting" /\ text' = <<>> /\ buffer_size' = Reserve
               /\ UNCHANGED <<who, spec, fmt, args, value, pos, rd, want, ops>>

cstring_formatv ==
    LET t == FormatTurn(pos, args)
    IN  /\ op = "formatting" /\ pos <= Len(fmt) /\ PutAll(t.pieces) /\ pos' = t.end /\ args' = t.args
        /\ op' = IF pos' > Len(fmt) THEN "idle" ELSE op
        /\ want' = IF pos' > Len(fmt) THEN text' ELSE want
        /\ UNCHANGED <<who, spec, fmt, value, rd, ops>>

Called == who = "cstring" /\ op = "idle" /\ pos = Len(fmt) + 1 /\ ops < MaxOps /\ ops' = ops + 1

\* A block for the new text is allocated, the old one freed.
append_to_cstring(s) ==
    /\ Called /\ text' = text \o s /\ buffer_size' = Len(text) + Len(s) + 1 /\ want' = want \o s
    /\ UNCHANGED <<who, spec, fmt, args, value, pos, op, rd>>

reinit_cstring(s) ==
    /\ Called /\ text' = s /\ buffer_size' = Len(s) + 1 /\ want' = s
    /\ UNCHANGED <<who, spec, fmt, args, value, pos, op, rd>>

\* What the text is with every occurrence of old replaced, from the left.
Replaced(old, new) ==
    LET occurs(p) == p + Len(old) - 1 <= Len(text) /\ SubSeq(text, p, p + Len(old) - 1) = old
        near(p)   == {q \in p - Len(old) + 1 .. p - 1 : q > 0}
        chosen[p \in 1 .. Len(text)] == occurs(p) /\ \A q \in near(p) : ~chosen[q]
    IN  FlattenSeq([p \in 1 .. Len(text) |-> IF chosen[p] THEN new
                                             ELSE IF \E q \in near(p) : chosen[q] THEN <<>> ELSE <<text[p]>>])

\* replace_in_cstring: it works on a copy of the text.
ReplaceStart(old, new) ==
    /\ Called /\ old # <<>> /\ op' = "replacing" /\ rd' = [s |-> text, at |-> 1, old |-> old, new |-> new]
    /\ text' = <<>> /\ buffer_size' = Reserve /\ want' = Replaced(old, new)
    /\ UNCHANGED <<who, spec, fmt, args, value, pos>>

\* What comes before the first character of old is put, then new or, when the
\* rest of old does not follow, that character.
Found(s, i, c) == {j \in i .. Len(s) : s[j] = c}
ReplaceTurn ==
    LET pFound   == Min(Found(rd.s, rd.at, rd.old[1]))
        pCompare == pFound + Len(rd.old)
        same     == pCompare - 1 <= Len(rd.s) /\ SubSeq(rd.s, pFound, pCompare - 1) = rd.old
    IN  /\ op = "replacing" /\ Found(rd.s, rd.at, rd.old[1]) # {}
        /\ PutAll([k \in 1 .. pFound - rd.at |-> <<rd.s[rd.at + k - 1]>>]
                    \o <<IF same THEN rd.new ELSE <<rd.s[pFound]>> >>)
        /\ rd' = [rd EXCEPT !.at = IF same THEN pCompare ELSE pFound + 1]
        /\ UNCHANGED <<who, spec, fmt, args, value, pos, op, want, ops>>

ReplaceEnd == /\ op = "replacing" /\ Found(rd.s, rd.at, rd.old[1]) = {}
              /\ PutAll(<<SubSeq(rd.s, rd.at, Len(rd.s))>>) /\ op' = "idle" /\ rd' = 0
              /\ UNCHANGED <<who, spec, fmt, args, value, pos, want, ops>>

-----------------------------------------------------------------------------
Init == /\ who \in {"printf", "sprintf", "cstring"} /\ spec \in Specs /\ fmt = Format(spec)
        /\ who = "cstring" => Stars(spec) = {}
        /\ \E v \in IF spec.conv \in {<<"s">>, <<"c">>} THEN Texts ELSE Values, w \in {-3, 3}, p \in {-1, 2} :
             /\ spec.conv = <<"c">> => Len(v) = 1
             /\ value = [v |-> v, w |-> w, p |-> p]
             /\ args = (IF spec.width = <<"*">> THEN <<w>> ELSE <<>>)
                         \o (IF spec.prec = <<".", "*">> THEN <<p>> ELSE <<>>) \o <<v>>
             /\ spec.width # <<"*">> => w = 3
             /\ spec.prec # <<".", "*">> => p = 2
        /\ pos = 1 /\ get_new_cstring(<<>>) /\ op = "new" /\ rd = 0 /\ want = <<>> /\ ops = 0

Next == \/ _doprnt \/ vsprintf \/ FormatStart \/ cstring_formatv \/ ReplaceTurn \/ ReplaceEnd
        \/ \E s \in Texts : append_to_cstring(s) \/ reinit_cstring(s)
        \/ \E s, t \in Texts : ReplaceStart(s, t)

Spec == Init /\ [][Next]_vars

-----------------------------------------------------------------------------
(* Properties.                                                             *)

\* What a field of the specification must look like: as wide as asked, blanks
\* on the side the flag names, and between them a text that reads as the value.
ReadsAs(s, c, v) ==
    LET minus  == s # <<>> /\ s[1] = "-"
        digits == IF minus THEN Tail(s) ELSE s
        n      == FoldLeft(LAMBDA m, d : Radix(c) * m + Place(d), 0, digits)
    IN  /\ digits # <<>> /\ (minus <=> (c = "d" /\ v < 0))
        /\ \A k \in DOMAIN digits : \E j \in 1 .. Radix(c) : digits[k] = (IF c = "X" THEN Upper ELSE Lower)[j]
        /\ (IF minus THEN Wide - n ELSE n) = v % Wide

\* The width and the precision of the specification, a negative width standing for the flag.
Given(w, star, default) ==
    CASE w = <<>> -> default [] w # <<>> /\ Last(w) = "*" -> star
      [] OTHER -> FoldLeft(LAMBDA n, c : 10 * n + Place(c), 0, SelectSeq(w, LAMBDA c : c # "."))
IsField(f) ==
    LET c     == spec.conv[1]
        w0    == Given(spec.width, value.w, 0)
        width == IF w0 < 0 THEN -w0 ELSE w0
        left  == w0 < 0 \/ "-" \in ToSet(spec.flags)
        prec  == Given(spec.prec, value.p, -1)
        zero  == "0" \in ToSet(spec.flags) /\ ~left /\ (Radix(c) = 0 \/ prec < 0)
        body  == SelectSeq(f, LAMBDA x : x # " ")
        blanks == Len(f) - Len(body)
    IN  /\ f = IF left THEN body \o Copies(" ", blanks) ELSE Copies(" ", blanks) \o body
        /\ Len(f) >= width /\ (blanks > 0 => Len(f) = width /\ ~zero)
        /\ IF Radix(c) = 0
           THEN LET cut == IF prec \in 0 .. Len(value.v) THEN SubSeq(value.v, 1, prec) ELSE value.v
                IN  body = (IF zero THEN Copies("0", width - Len(cut)) ELSE <<>>) \o cut
           ELSE /\ ReadsAs(body, c, value.v)
                /\ \/ Len(body) = Len(f) /\ zero /\ Len(f) = width
                   \/ LET digits == IF body[1] = "-" THEN Tail(body) ELSE body
                      IN  digits[1] # "0" \/ Len(digits) = 1 \/ Len(digits) = prec

Done == pos > Len(fmt)
Literal(s) == IF s = <<"%", "%">> THEN <<"%">> ELSE s
Known == spec.conv # <<>> /\ spec.conv[1] # "?" /\ "#" \notin ToSet(spec.flags)

\* printf and vsprintf print the literal parts as they are and the argument as
\* the specification says; an unknown or unfinished conversion is printed as it
\* was written.
PrintedAsMeant ==
    Done /\ who \in {"printf", "sprintf"} =>
      LET head == Literal(spec.before)
          n    == Len(text) - Len(head) - Len(spec.after)
      IN  IF Known THEN /\ text = head \o SubSeq(text, Len(head) + 1, Len(head) + n) \o spec.after
                        /\ IsField(SubSeq(text, Len(head) + 1, Len(head) + n))
          ELSE text = head \o SubSeq(fmt, Len(spec.before) + 1, Len(fmt))

\* cstring_formatv agrees with the other two where they mean the same: flags in
\* its order, no precision, no zeroes in front of a string.
SameMeaning ==
    /\ spec.prec = <<>> /\ spec.flags \in {<<>>, <<"-">>, <<"0">>, <<"-", "0">>} /\ Known
    /\ spec.size \in {<<>>, <<"l">>} /\ spec.conv # <<"b">>
    /\ Radix(spec.conv[1]) = 0 => spec.flags \in {<<>>, <<"-">>}
FormattersAgree ==
    op = "idle" /\ ops = 0 /\ SameMeaning =>
      LET head == Literal(spec.before)
          n    == Len(text) - Len(head) - Len(spec.after)
      IN  /\ text = head \o SubSeq(text, Len(head) + 1, Len(head) + n) \o spec.after
          /\ IsField(SubSeq(text, Len(head) + 1, Len(head) + n))

\* A c_string always has room for its text and the null, holds what was put
\* together between two calls; only an unfinished conversion takes the formatter
\* past the end of the format.
CStringExact ==
    who = "cstring" => /\ Len(text) + 1 <= buffer_size
                       /\ op = "idle" => text = want
                       /\ pos > Len(fmt) + 1 => spec.conv = <<>>
=============================================================================
