---------------------------- MODULE FirmwareLoad ----------------------------
(***************************************************************************)
(* src/plan9_ether4330.c: fwload puts firmware and configuration into the  *)
(* RAM of the wifi chip, reads them back, and lets the chip's processor    *)
(* run.                                                                    *)
(*                                                                         *)
(* The RAM is reached through a window (sbwindow) of Sbwsize bytes, in     *)
(* rounds of CMD53 (sdiorwext).  upload is called twice; each call moves   *)
(* blocks of at most Uploadsz bytes with sbmem, padded to words, then      *)
(* reads them back with sbmem and compares.  All lengths passed to sbmem   *)
(* are multiples of 4, so the byte loop of sbrw is never entered.          *)
(*                                                                         *)
(* A bus access that fails reports nothing to these functions (see module  *)
(* SdioBus): a round then moves part of its data, a window is anything.    *)
(* A byte is a number: 0 null, 1..FwLen those of the firmware, larger ones *)
(* those of the configuration and the token, Old what the RAM held.        *)
(***************************************************************************)
EXTENDS Integers, Sequences, FiniteSets, FiniteSetsExt

CONSTANTS Sbwsize,             \* 0x8000
          Bsize, MaxBlocks,    \* block size of function 1 and blocks of a round: 64, 511
          Uploadsz,            \* 2048
          FwLen,               \* size of the firmware file
          MaxConfig,           \* bound: size of the configuration file
          RamSize,             \* socramsize; rambase is 0
          MaxFaults            \* bound: accesses that fail

ASSUME LoadConstants ==
    /\ \A c \in {Sbwsize, Bsize, Uploadsz, RamSize} : c \in Nat \ {0} /\ c % 4 = 0
    /\ RamSize % Sbwsize = 0 /\ Sbwsize >= Bsize
    /\ MaxBlocks \in Nat \ {0} /\ FwLen \in Nat \ {0} /\ MaxFaults \in Nat
    /\ MaxConfig \in 1..(Uploadsz - 5)
    /\ FwLen + MaxConfig + 12 <= RamSize

Old == -1
Char == "char"
NL == "newline"
Hash == "hash"
CR == "return"
Configs == UNION {[1..k -> {Char, NL, Hash, CR}] : k \in 1..MaxConfig}

VARIABLES phase,   \* what the transfer is for
          pc,      \* "next": at the call; "window", "rounds": inside sbmem;
                   \* "moved": behind it
          ram, window,          \* the chip
          buf, cbuf, off, n,    \* locals of upload
          so, sp, sl, sn,       \* of sbmem: off, done bytes of buf, len, n
          ro, rl,               \* of sbrw and sdiorwext: off, len
          found,                \* findfirmware knows the chip's files
          config,               \* contents of the configuration file
          fwRet, cfgRet,        \* what the calls of upload returned
          running,              \* the chip's processor runs
          faults, failed        \* auxiliary: number of failures, and their phases

sbVars == <<so, sp, sl, sn, ro, rl>>
vars == <<phase, pc, ram, window, buf, cbuf, off, n, sbVars, found, config,
          fwRet, cfgRet, running, faults, failed>>

Writing == {"zero", "fw", "cfg", "token"}
Addresses == 0..(RamSize - 1)

\* sbinit has found a supported chip and halted its processor.
Init == /\ phase = "zero" /\ pc = "next" /\ running = FALSE
        /\ ram = [a \in Addresses |-> Old] /\ window = 0
        /\ buf = <<>> /\ cbuf = [i \in 1..Uploadsz |-> Old] /\ off = 0 /\ n = 0
        /\ so = 0 /\ sp = 0 /\ sl = 0 /\ sn = 0 /\ ro = 0 /\ rl = 0
        /\ found \in BOOLEAN /\ config = <<>>
        /\ fwRet = 0 /\ cfgRet = 0 /\ faults = 0 /\ failed = {}

Fault == /\ faults < MaxFaults /\ faults' = faults + 1
         /\ failed' = failed \cup {phase}
NoFault == UNCHANGED <<faults, failed>>

-----------------------------------------------------------------------------
(* sbmem, sbrw and sdiorwext.                                              *)

\* A first part that ignores where in its window off lies.
FirstPartWhole(o) == Sbwsize

\* ROUNDUP(off, Sbwsize) - off, or a whole window.
FirstPart(o) == IF o % Sbwsize = 0 THEN Sbwsize ELSE Sbwsize - (o % Sbwsize)

Sbmem(len, o) == /\ so' = o /\ sp' = 0 /\ sl' = len /\ sn' = FirstPart(o)
                 /\ pc' = (IF len > 0 THEN "window" ELSE "moved") /\ UNCHANGED <<ro, rl>>

\* One turn of sbmem's loop up to sbrw.  A window register that could not be
\* written leaves the window anywhere.
Window ==
    /\ pc = "window"
    /\ \/ window' = so - (so % Sbwsize) /\ NoFault
       \/ window' \in {a \in Addresses : a % Sbwsize = 0} /\ Fault
    /\ ro' = so % Sbwsize /\ rl' = Min({sn, sl}) /\ pc' = "rounds"
    /\ UNCHANGED <<phase, ram, buf, cbuf, off, n, so, sp, sl, sn, found, config,
                   fwRet, cfgRet, running>>

\* Bytes of the next round of sdiorwext: blocks, or what is left.
RoundBytes(len) ==
    IF len >= MaxBlocks * Bsize THEN MaxBlocks * Bsize
    ELSE IF len > Bsize THEN (len \div Bsize) * Bsize
    ELSE len

\* The first k bytes of the round at the RAM address the chip sees.
At(a) == window + (a % Sbwsize)
Moved(k) ==
    IF phase \in Writing
      THEN /\ ram' = [a \in Addresses |->
                        IF \E i \in 0..(k - 1) : a = At(ro + i)
                          THEN buf[sp + 1 + (CHOOSE i \in 0..(k - 1) : a = At(ro + i))]
                          ELSE ram[a]]
           /\ UNCHANGED cbuf
      ELSE /\ cbuf' = [i \in DOMAIN cbuf |-> IF i \in (sp + 1)..(sp + k)
                                               THEN ram[At(ro + i - sp - 1)] ELSE cbuf[i]]
           /\ UNCHANGED ram

\* One round, and after the last of a window sbmem's step to the next.
Round ==
    /\ pc = "rounds"
    /\ LET m == RoundBytes(rl)
       IN  /\ \/ Moved(m) /\ NoFault
              \/ \E k \in 0..(m - 1) : k % 4 = 0 /\ Moved(k) /\ Fault
           /\ ro' = ro + m /\ rl' = rl - m
           /\ so' = so + m /\ sp' = sp + m /\ sl' = sl - m
           /\ IF rl > m THEN UNCHANGED <<pc, sn>>
              ELSE sn' = Sbwsize /\ pc' = IF sl > m THEN "window" ELSE "moved"
    /\ UNCHANGED <<phase, window, buf, off, n, found, config, fwRet, cfgRet, running>>

-----------------------------------------------------------------------------
(* condense.                                                               *)

\* The bytes of the file, told apart by their position.
Byte(c, i) == IF c[i] = Char THEN FwLen + i ELSE 0

\* op != lp is not asked: blank lines leave nulls.
NewlineAlways(s) == [out |-> Append(s.out, 0), line |-> Len(s.out) + 1, skipping |-> FALSE]

\* What the end of a line does to the output, to lp and to skipping.
Newline(s) == IF Len(s.out) = s.line THEN [s EXCEPT !.skipping = FALSE]
              ELSE [out |-> Append(s.out, 0), line |-> Len(s.out) + 1, skipping |-> FALSE]

\* Output, lp and skipping after character i, from those before it.
Scanned(c, i, s) ==
    CASE c[i] = Hash -> [s EXCEPT !.skipping = TRUE]
      [] c[i] = NL   -> Newline(s)
      [] c[i] = CR   -> s
      [] OTHER       -> IF s.skipping THEN s ELSE [s EXCEPT !.out = Append(@, Byte(c, i))]

Scan(c) ==
    LET scan[i \in 0..Len(c)] ==
          IF i = 0 THEN [out |-> <<>>, line |-> 0, skipping |-> FALSE] ELSE Scanned(c, i, scan[i - 1])
    IN  scan[Len(c)]

\* Zeroes up to a multiple of 4.
Padded(s) == s \o [i \in 1..((4 - (Len(s) % 4)) % 4) |-> 0]

condense(c) ==
    LET s == Scan(c)
    IN  Padded(Append(IF ~s.skipping /\ Len(s.out) # s.line THEN Append(s.out, 0) ELSE s.out, 0))

-----------------------------------------------------------------------------
(* upload and fwload.                                                      *)

\* read_file_in_buffer at offset o, padded.
FwBlock(o) == Padded([i \in 1..Min({Uploadsz, FwLen - o}) |-> o + i])

\* The word behind the configuration cleared first.
Zero ==
    /\ phase = "zero" /\ pc = "next"
    /\ buf' = <<0, 0, 0, 0>> /\ Sbmem(4, RamSize - 4) /\ NoFault
    /\ UNCHANGED <<phase, ram, window, cbuf, off, n, found, config, fwRet, cfgRet, running>>

\* Returns -1 from upload: fwload goes on in any case.
UploadFails ==
    /\ IF phase \in {"fw", "fwcmp"} THEN phase' = "cfg" /\ fwRet' = -1 /\ UNCHANGED cfgRet
                                    ELSE phase' = "token" /\ cfgRet' = -1 /\ UNCHANGED fwRet
    /\ pc' = "next" /\ off' = 0

\* findfirmware, or kernel_allocate for buf, returns null.
UploadRefused ==
    /\ phase \in {"fw", "cfg"} /\ pc = "next" /\ off = 0
    /\ \/ ~found /\ NoFault
       \/ found /\ Fault
    /\ UploadFails
    /\ UNCHANGED <<ram, window, buf, cbuf, n, sbVars, found, config, running>>

\* The next block of the firmware, to write or to compare.
FwNext ==
    /\ phase \in {"fw", "fwcmp"} /\ pc = "next" /\ found /\ off < FwLen
    /\ buf' = FwBlock(off) /\ n' = Len(FwBlock(off)) /\ Sbmem(Len(FwBlock(off)), off) /\ NoFault
    /\ UNCHANGED <<phase, ram, window, cbuf, off, found, config, fwRet, cfgRet, running>>

\* End of file with nothing read back.
FwEndUncompared ==
    /\ phase \in {"fw", "fwcmp"} /\ pc = "next" /\ found /\ off >= FwLen
    /\ phase' = "cfg" /\ off' = 0 /\ n' = 0 /\ NoFault
    /\ UNCHANGED <<pc, ram, window, buf, cbuf, sbVars, found, config, fwRet, cfgRet, running>>

\* End of file: on to the comparison, or out of upload with n = 0.
FwEnd ==
    /\ phase \in {"fw", "fwcmp"} /\ pc = "next" /\ found /\ off >= FwLen
    /\ phase' = (IF phase = "fw" THEN "fwcmp" ELSE "cfg") /\ off' = 0 /\ n' = 0 /\ NoFault
    /\ UNCHANGED <<pc, ram, window, buf, cbuf, sbVars, found, config, fwRet, cfgRet, running>>

\* The configuration is one block, put below the last word of the RAM.
CfgNext ==
    /\ phase = "cfg" /\ pc = "next" /\ found
    /\ \E c \in Configs :
         LET b == condense(c)
         IN  /\ config' = c /\ buf' = b /\ n' = Len(b) /\ off' = RamSize - Len(b) - 4
             /\ Sbmem(Len(b), RamSize - Len(b) - 4)
    /\ NoFault
    /\ UNCHANGED <<phase, ram, window, cbuf, found, fwRet, cfgRet, running>>

\* A block that is never left behind.
FwMovedStays ==
    /\ phase \in {"fw", "fwcmp"} /\ pc = "moved"
    /\ phase = "fwcmp" => SubSeq(cbuf, 1, n) = buf
    /\ pc' = "next" /\ NoFault
    /\ UNCHANGED <<phase, off, ram, window, buf, cbuf, n, sbVars, found, config, fwRet, cfgRet, running>>

FwMoved ==
    /\ phase \in {"fw", "fwcmp"} /\ pc = "moved"
    /\ phase = "fwcmp" => SubSeq(cbuf, 1, n) = buf
    /\ off' = off + n /\ pc' = "next" /\ NoFault
    /\ UNCHANGED <<phase, ram, window, buf, cbuf, n, sbVars, found, config, fwRet, cfgRet, running>>

\* buf is read back from the same place.
CfgWritten ==
    /\ phase = "cfg" /\ pc = "moved"
    /\ phase' = "cfgcmp" /\ Sbmem(n, off) /\ NoFault
    /\ UNCHANGED <<ram, window, buf, cbuf, off, n, found, config, fwRet, cfgRet, running>>

CfgCompared ==
    /\ phase = "cfgcmp" /\ pc = "moved" /\ SubSeq(cbuf, 1, n) = buf
    /\ phase' = "token" /\ pc' = "next" /\ cfgRet' = n /\ NoFault
    /\ UNCHANGED <<ram, window, buf, cbuf, off, n, sbVars, found, config, fwRet, running>>

\* memcmp finds a difference.
CompareFails ==
    /\ phase \in {"fwcmp", "cfgcmp"} /\ pc = "moved" /\ SubSeq(cbuf, 1, n) # buf
    /\ UploadFails /\ NoFault
    /\ UNCHANGED <<ram, window, buf, cbuf, n, sbVars, found, config, running>>

\* Number of words and its complement; (uint32_t) -1 / 4 ends in 0xFFFF.
\* Four equal bytes stand for them.
TokenBytes(ret) == [i \in 1..4 |-> 1000 + (IF ret = -1 THEN 65535 ELSE ret \div 4)]

Token ==
    /\ phase = "token" /\ pc = "next"
    /\ buf' = TokenBytes(cfgRet) /\ Sbmem(4, RamSize - 4) /\ NoFault
    /\ UNCHANGED <<phase, ram, window, cbuf, off, n, found, config, fwRet, cfgRet, running>>

\* After the word at the end: the first upload, or sbreset(armctl).  (The
\* reset vector of a Cr4 core is not written: no firmware for one is found.)
WordWritten ==
    /\ phase \in {"zero", "token"} /\ pc = "moved"
    /\ IF phase = "zero" THEN phase' = "fw" /\ pc' = "next" /\ UNCHANGED running
                         ELSE phase' = "done" /\ running' = TRUE /\ UNCHANGED pc
    /\ NoFault
    /\ UNCHANGED <<ram, window, buf, cbuf, off, n, sbVars, found, config, fwRet, cfgRet>>

-----------------------------------------------------------------------------
Done == phase = "done" /\ UNCHANGED vars

Load == \/ Zero \/ UploadRefused \/ FwNext \/ FwEnd \/ CfgNext \/ FwMoved \/ CfgWritten
        \/ CfgCompared \/ CompareFails \/ Token \/ WordWritten
        \/ Window \/ Round
Next == Load \/ Done

\* One task runs this, and the accesses end (LockReturned of module SdioBus).
Spec == Init /\ [][Next]_vars /\ WF_vars(Load)

-----------------------------------------------------------------------------
(* Properties.                                                             *)

TypeOK == /\ phase \in {"zero", "fw", "fwcmp", "cfg", "cfgcmp", "token", "done"}
          /\ pc \in {"next", "window", "rounds", "moved"}
          /\ ram \in [Addresses -> Int] /\ window \in Addresses
          /\ off \in Nat /\ n \in Nat /\ {so, sp, sl, sn, ro, rl} \subseteq Nat
          /\ fwRet \in {-1, 0} /\ cfgRet \in Int

\* A round never runs over the end of its window, where the chip would wrap
\* around to its beginning, nor over the end of a buffer, and it is made of
\* words.
RoundsInside ==
    /\ Len(buf) <= Uploadsz /\ so + sl <= RamSize
    /\ pc = "rounds" => /\ ro + rl <= Sbwsize /\ sp + rl <= Len(buf)
                        /\ rl > 0 /\ rl % 4 = 0 /\ ro % 4 = 0
LoadInv == TypeOK /\ RoundsInside

\* What condense promises in its comment, position by position: a character
\* is kept unless it is a carriage return, the end of a line or inside a
\* comment; every line with a character left ends with one null; one more
\* null marks the end; nulls pad to words.
Kept(c) == {i \in DOMAIN c : /\ c[i] = Char
                             /\ \A h \in 1..i : c[h] = Hash => \E l \in h..i : c[l] = NL}
Line(c, i) == Cardinality({l \in 1..i : c[l] = NL})
Lines(c) == {Line(c, i) : i \in Kept(c)}
Place(c, i) == Cardinality({j \in Kept(c) : j <= i})
               + Cardinality({l \in Lines(c) : l < Line(c, i)})
Promised(c) ==
    LET used == Cardinality(Kept(c)) + Cardinality(Lines(c)) + 1
    IN  Padded([p \in 1..used |->
                  IF \E i \in Kept(c) : Place(c, i) = p
                    THEN Byte(c, CHOOSE i \in Kept(c) : Place(c, i) = p) ELSE 0])

\* A last line that holds text and then a comment, and does not end, gets no
\* null of its own.
CommentAtEnd(c) == Scan(c).skipping /\ Len(Scan(c).out) # Scan(c).line

\* The uploaded configuration is the condensed one.
ConfigCondensed ==
    phase = "cfg" /\ pc # "next" => buf = Promised(config) \/ CommentAtEnd(config)

\* If both uploads report success and no more than one access failed, before
\* the token was written, then the processor starts with firmware,
\* configuration and its length in place: reading back finds every failure,
\* the ones that put data into a wrong window included.
Image(a) == IF a < FwLen THEN a + 1
            ELSE IF a >= RamSize - 4 THEN TokenBytes(cfgRet)[1]
            ELSE condense(config)[a - (RamSize - 4 - cfgRet) + 1]
BootImage ==
    running /\ found /\ fwRet = 0 /\ cfgRet > 0 /\ faults <= 1 /\ "token" \notin failed =>
       /\ cfgRet = Len(condense(config)) /\ FwLen <= RamSize - 4 - cfgRet
       /\ \A a \in (0..(FwLen - 1)) \cup ((RamSize - 4 - cfgRet)..(RamSize - 1)) : ram[a] = Image(a)
=============================================================================
