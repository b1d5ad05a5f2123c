------------------------------ MODULE KeyParsing ------------------------------
(***************************************************************************)
(* How plan9_ether4330.c reads the keys of the network: wepparsekey, and   *)
(* wpaparsekey with parsehex and strtoull.  A text is the sequence of its  *)
(* character codes; a read behind its end finds the null.  The prefix of a *)
(* WPA key, tkip: or ccmp:, is taken as there or not.                      *)
(***************************************************************************)
EXTENDS Integers, Sequences, SequencesExt

CONSTANTS KeyLen,              \* WKeyLen
          MinKeyLen,           \* WMinKeyLen
          MaxKeyLen,           \* WMaxKeyLen
          LongWidth,           \* the number of values of a uint64_t
          WordWidth,           \* the number of values of a uint32_t
          WepTexts, WpaTexts,  \* the texts that are given
          MaxKeys              \* the number of keys given

KeyConstants == /\ KeyLen >= MaxKeyLen /\ MaxKeyLen > MinKeyLen /\ MinKeyLen > 0
                /\ LongWidth > WordWidth /\ WordWidth > 1

VARIABLES key,     \* keys[0]
          before,  \* keys[0] before the last call
          kind,    \* the last call
          text,    \* its text
          iv,      \* the initial value it read
          ret,     \* what it returned
          keys     \* the number of calls

vars == <<key, before, kind, text, iv, ret, keys>>

CharAt(a, i) == IF i \in DOMAIN a THEN a[i] ELSE 0

\* Both parsers take the digits of both cases.
Hex(c) == CASE c \in 48 .. 57 -> c - 48 [] c \in 97 .. 102 -> c - 87 [] c \in 65 .. 70 -> c - 55
            [] OTHER -> -1

\* The place of the first character from i on that is no hexadecimal digit.
HexEnd(a, i) == CHOOSE j \in i .. Len(a) + 1 : Hex(CharAt(a, j)) = -1 /\ \A k \in i .. j - 1 : Hex(a[k]) >= 0

\* The first digit of a byte is its low one.
BytesLow(a, n) == [k \in 1 .. n |-> Hex(a[2 * k - 1]) + 16 * Hex(a[2 * k])]

Bytes(a, n) == [k \in 1 .. n |-> 16 * Hex(a[2 * k - 1]) + Hex(a[2 * k])]
Over(dat, s) == [k \in 1 .. KeyLen |-> IF k <= Len(s) THEN s[k] ELSE dat[k]]
Zeros == [k \in 1 .. KeyLen |-> 0]

-----------------------------------------------------------------------------
\* parsehex: it stops at the first other character, or when the buffer is
\* full; half a byte is stored and refused.
parsehex(dat, a) ==
    LET n    == IF HexEnd(a, 1) - 1 < 2 * KeyLen THEN HexEnd(a, 1) - 1 ELSE 2 * KeyLen
        full == Over(dat, Bytes(a, n \div 2))
    IN  IF n % 2 = 1 THEN [len |-> -1, dat |-> [full EXCEPT ![n \div 2 + 1] = 16 * Hex(a[n])]]
        ELSE [len |-> n \div 2, dat |-> full]

-----------------------------------------------------------------------------
(* strtoull.                                                               *)

Space(c) == c \in {32, 12, 10, 13, 9, 11}
SpaceEnd(a, i) == CHOOSE j \in i .. Len(a) + 1 : ~Space(CharAt(a, j)) /\ \A k \in i .. j - 1 : Space(a[k])

\* What a character counts as; the seven characters behind 9 count on from 10.
Digit(c) == LET u == IF c \in 97 .. 122 THEN c - 32 ELSE c
            IN  IF c < 48 THEN 99 ELSE (IF u >= 65 THEN u - 7 ELSE u) - 48

\* The loop over the digits: the sum is held modulo LongWidth, and a sum that
\* got smaller ends it.
Sum(a, i, base) ==
    LET step(s, c) ==
          LET v == (s.v * base + Digit(c)) % LongWidth
          IN  IF s.stop \/ Digit(c) >= base THEN [s EXCEPT !.stop = TRUE]
              ELSE IF v < s.v THEN [s EXCEPT !.stop = TRUE, !.v = WordWidth - 1, !.over = TRUE]
              ELSE [s EXCEPT !.v = v, !.at = @ + 1, !.any = TRUE]
    IN  FoldLeft(step, [v |-> 0, at |-> i, any |-> FALSE, stop |-> FALSE, over |-> FALSE], SubSeq(a, i, Len(a)))

\* A leading 0 alone is skipped as if it were 0x.
strtoullSkips(a, from) ==
    LET s == Sum(a, IF CharAt(a, from) = 48 THEN from + 2 ELSE from, 16)
    IN  [v |-> s.v, end |-> s.at]

\* With base 16, from place from on: spaces, a sign, 0x, digits.  The end is
\* stored behind what was skipped, digits or not.
strtoull(a, from) ==
    LET i == SpaceEnd(a, from)
        j == IF CharAt(a, i) \in {43, 45} THEN i + 1 ELSE i
        k == IF CharAt(a, j) # 48 THEN j ELSE IF CharAt(a, j + 1) \in {120, 88} THEN j + 2 ELSE j + 1
        s == Sum(a, k, 16)
    IN  [v |-> IF s.any /\ ~s.over /\ CharAt(a, i) = 45 THEN (LongWidth - s.v) % LongWidth ELSE s.v,
         end |-> s.at]

-----------------------------------------------------------------------------
Init == /\ key = [len |-> MinKeyLen, dat |-> Zeros] /\ before = key /\ kind = "none" /\ text = <<>>
        /\ iv = 0 /\ ret = 0 /\ keys = 0

Called(k, a) == /\ keys < MaxKeys /\ keys' = keys + 1 /\ before' = key /\ kind' = k /\ text' = a

\* A key of a known length, as it is or in hexadecimal digits.
wepparsekey(a) ==
    /\ Called("wep", a) /\ UNCHANGED iv
    /\ IF Len(a) \in {MinKeyLen, MaxKeyLen}
       THEN key' = [len |-> Len(a), dat |-> Over(Zeros, a)] /\ ret' = 0
       ELSE IF Len(a) \in {2 * MinKeyLen, 2 * MaxKeyLen} /\ HexEnd(a, 1) > Len(a)
       THEN key' = [len |-> Len(a) \div 2, dat |-> Over(Zeros, Bytes(a, Len(a) \div 2))] /\ ret' = 0
       ELSE UNCHANGED key /\ ret' = -1

\* Digits, @, and the initial value, behind a prefix.
wpaparsekey(prefix, a) ==
    LET h  == parsehex(key.dat, a)
        at == 2 * h.len + 1
        x  == strtoull(a, at + 1)
    IN  /\ Called(IF prefix THEN "wpa" ELSE "bare", a)
        /\ IF ~prefix THEN ret' = 1 /\ UNCHANGED <<key, iv>>
           ELSE IF h.len <= 0 THEN key' = [key EXCEPT !.dat = h.dat] /\ ret' = 1 /\ UNCHANGED iv
           ELSE /\ key' = h
                /\ IF CharAt(a, at) # 64 THEN ret' = 1 /\ UNCHANGED iv
                   ELSE iv' = x.v /\ ret' = (IF x.end = at + 1 THEN -1 ELSE 0)

Next == (\E a \in WepTexts : wepparsekey(a)) \/ (\E p \in BOOLEAN, a \in WpaTexts : wpaparsekey(p, a))

Spec == Init /\ [][Next]_vars

-----------------------------------------------------------------------------
(* Properties.                                                             *)

\* The value of a text of hexadecimal digits.
Value(a) == FoldLeft(LAMBDA v, c : 16 * v + Hex(c), 0, a)
AllHex(a) == HexEnd(a, 1) = Len(a) + 1
\* A WPA key as its sender means it: whole bytes, @, an initial value that fits.
Proper(a) == \E p \in DOMAIN a :
    /\ a[p] = 64 /\ p \in 3 .. 2 * KeyLen + 1 /\ p % 2 = 1 /\ AllHex(SubSeq(a, 1, p - 1))
    /\ p < Len(a) /\ AllHex(SubSeq(a, p + 1, Len(a))) /\ Value(SubSeq(a, p + 1, Len(a))) < LongWidth
At(a) == CHOOSE p \in DOMAIN a : a[p] = 64

\* A proper WPA key is taken, with its bytes and its initial value; of a key
\* that is taken the bytes in front of @ are always right, whatever is behind;
\* one without a prefix changes nothing.
WpaKeysRead ==
    /\ kind = "bare" => ret # 0 /\ key = before
    /\ kind = "wpa" =>
      /\ Proper(text) => ret = 0 /\ iv = Value(SubSeq(text, At(text) + 1, Len(text)))
      /\ ret = 0 => /\ 2 * key.len + 1 = At(text)
                    /\ \A k \in 1 .. key.len : key.dat[k] = Value(SubSeq(text, 2 * k - 1, 2 * k))

\* A WEP key that is taken has its own bytes and no byte of an earlier key; one
\* that is refused changes nothing.
WepKeysRead ==
    kind = "wep" =>
      IF ret # 0 THEN key = before ELSE
      /\ key.len \in {MinKeyLen, MaxKeyLen} /\ \A k \in key.len + 1 .. KeyLen : key.dat[k] = 0
      /\ Len(text) = key.len => SubSeq(key.dat, 1, key.len) = text
      /\ Len(text) = 2 * key.len => \A k \in 1 .. key.len : key.dat[k] = Value(SubSeq(text, 2 * k - 1, 2 * k))
=============================================================================
