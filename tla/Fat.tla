-------------------------------- MODULE Fat --------------------------------
(***************************************************************************)
(* src/fat.c: the FAT reader.  initialize_fat takes the layout of a card   *)
(* from its first sectors; get_file_size, read_file and the directory      *)
(* listing walk directories and cluster chains through a block reader that *)
(* may fail.  The recursion of search_directory_contents is the stack.     *)
(*                                                                         *)
(* A sector of a directory is a sequence of EntriesPerSector entries       *)
(* [lfn, first, text, dir, cluster]: first is the first byte (a sequence   *)
(* number for a long name entry), text a piece of a long name.  A name is  *)
(* one or two pieces.  A FAT sector holds FatPerSector entries.            *)
(***************************************************************************)
EXTENDS Integers, Sequences, FiniteSets

CONSTANTS Media,             \* the cards by name: layout, FAT, sectors, and the files on them
          Paths,             \* the absolute names asked for: sequences of names
          FatPerSector,      \* bytesPerSector / 4
          EntriesPerSector,  \* 512 / 32
          Eoc, Bad,          \* 0x0fffffff and 0x0ffffff7
          MaxCalls, MaxInits, MaxFails  \* bounds

FatConstants == /\ \A k \in DOMAIN Media : \A n \in DOMAIN Media[k].sectors :
                        Len(Media[k].sectors[n]) = EntriesPerSector
                /\ {FatPerSector, EntriesPerSector} \subseteq Nat \ {0}
                /\ {MaxCalls, MaxInits, MaxFails} \subseteq Nat

VARIABLES media,   \* the card in the slot
          part,    \* current_sd_partition and selected_fat_type
          pc,      \* "off", "ready" or where the walk is
          what,    \* the call: "find", "read" or "list"
          path,    \* absolute_file_name
          after,   \* what the memory behind absolute_file_name holds
          stack,   \* the calls of search_directory_contents, innermost last
          result,  \* first cluster found, 0 for none
          out,     \* what was printed: sectors of the file or names
          failed,  \* auxiliary: a read failed during this call
          stale,   \* auxiliary: unusedSectors is that of an earlier card
          calls, inits, fails

vars == <<media, part, pc, what, path, after, stack, result, out, failed, stale, calls, inits, fails>>

M == Media[media]
NoName == <<"", "">>
Full(n) == IF Len(n) = 1 THEN <<n[1], "">> ELSE n

Init == /\ media \in DOMAIN Media /\ pc = "off" /\ what = "none" /\ path = <<>> /\ after \in {"", "junk"}
        /\ part = [fat16 |-> FALSE, root |-> 0, spc |-> 0, data |-> 0, unused |-> 0, reserved |-> 0]
        /\ stack = <<>> /\ result = 0 /\ out = <<>> /\ failed = FALSE /\ stale = FALSE
        /\ calls = 0 /\ inits = 0 /\ fails = 0

-----------------------------------------------------------------------------
(* The card: block_read_handler of sector n.                               *)

Sector(n) == IF n \in DOMAIN M.sectors THEN M.sectors[n] ELSE <<>>

\* The FAT starts after the reserved sectors of the partition; a FAT16 entry
\* has half the size.
PerSector == IF part.fat16 THEN 2 * FatPerSector ELSE FatPerSector

FatSector(n) ==
    LET first == (n - M.first - M.reserved) * PerSector
    IN  [i \in 0 .. PerSector - 1 |->
           IF first >= 0 /\ first + i \in DOMAIN M.fat THEN M.fat[first + i] ELSE 0]

\* A read of the card succeeds or fails.
ReadsOk   == UNCHANGED <<fails, failed>>
ReadFails == fails < MaxFails /\ fails' = fails + 1 /\ failed' = TRUE

\* unusedSectors is set for a card with an MBR and left alone for one without.
Unused(m) == IF m.boot = "mbr" THEN m.first ELSE part.unused

\* initialize_fat: sector 0 is a boot sector, or an MBR that leads to one.
Layout(m) ==
    [fat16 |-> m.fat16, spc |-> m.spc, reserved |-> m.reserved, unused |-> Unused(m),
     root  |-> IF m.fat16 THEN 2 ELSE m.root,
     data  |-> IF m.fat16 THEN Unused(m) + m.fats * m.fatSize + 1
                          ELSE m.reserved + m.hidden + m.fats * m.fatSize]

InitializeFat ==
    /\ pc \in {"off", "ready"} /\ inits < MaxInits /\ inits' = inits + 1
    /\ \/ /\ ReadFails /\ pc' = "off" /\ UNCHANGED stale      \* the first or the second read
          /\ part' \in {part} \cup {[part EXCEPT !.unused = Unused(M)]}
       \/ /\ ReadsOk
          /\ IF M.boot = "none" \/ ~M.bpb
               THEN pc' = "off" /\ part' = [part EXCEPT !.unused = Unused(M)] /\ UNCHANGED stale
               ELSE pc' = "ready" /\ part' = Layout(M) /\ stale' = (Unused(M) # M.first)
    /\ what' = "none" /\ UNCHANGED <<media, path, after, stack, result, out, calls>>

\* The card is taken out and another one put in.
Swap == /\ pc \in {"off", "ready"} /\ inits < MaxInits
        /\ media' \in DOMAIN Media \ {media} /\ pc' = "off" /\ what' = "none"
        /\ UNCHANGED <<part, path, after, stack, result, out, failed, stale, calls, inits, fails>>

-----------------------------------------------------------------------------
(* Walking.  A frame is one call of search_directory_contents: its cluster,*)
(* the FAT sector in its buffer, the sector and the entry it is at, whether*)
(* it is inside a set of long name entries and the name put together.      *)

Component(i) == IF i <= Len(path) THEN Full(path[i])
                ELSE IF after = "" THEN NoName ELSE <<after, "">>

Frame(c, i) == [cluster |-> c, comp |-> i, fatno |-> 0, fat |-> [j \in 0 .. PerSector - 1 |-> 0],
                sec |-> 0, buf |-> <<>>, at |-> 1, lfn |-> FALSE, name |-> NoName]

Top == stack[Len(stack)]
SetTop(f) == [stack EXCEPT ![Len(stack)] = f]
Pop == SubSeq(stack, 1, Len(stack) - 1)

Walking(p) == pc = p /\ UNCHANGED <<media, part, what, path, after, stale, calls, inits>>

Call(w, p) ==
    /\ pc = "ready" /\ calls < MaxCalls /\ calls' = calls + 1
    /\ what' = w /\ path' = p /\ result' = 0 /\ out' = <<>> /\ failed' = FALSE
    /\ stack' = <<Frame(part.root, 1)>> /\ pc' = "chain"
    /\ UNCHANGED <<media, part, after, stale, inits, fails>>

GetFileSize(p) == Call("find", p)
ReadFile(p) == Call("read", p)
PrintRootDirectory == Call("list", <<>>)

\* A FAT sector counted from the start of the card.
FatNoFromCardStart(c) == part.reserved + c \div PerSector

\* getFatEntrySectorAndOffset.  Four bytes are taken whatever the FAT's type.
FatNo(c) == part.unused + part.reserved + c \div PerSector

\* The cluster itself.
FatEntrySame(f) == f.cluster

FatEntry(f) ==
    LET i == f.cluster % PerSector
        high == IF part.fat16 /\ i + 1 < PerSector THEN f.fat[i + 1] % 4096 ELSE 0
    IN  f.fat[i] + 65536 * high

FirstSector(c) == (c - 2) * part.spc + part.data    \* getFirstSectorOfCluster

\* What follows when the frame on top returns found: the caller goes on with
\* the next entry, or with the next sector if the directory was the one named.
Returns(found) ==
    IF found # 0 /\ what = "read"
      THEN stack' = <<Frame(found, 0)>> /\ result' = found /\ pc' = "chain"
    ELSE IF found # 0 \/ Len(stack) = 1
      THEN /\ stack' = <<>> /\ pc' = "ready"
           /\ result' = IF Top.comp = 0 THEN result ELSE found
    ELSE LET up == stack[Len(stack) - 1]
         IN  /\ stack' = [Pop EXCEPT ![Len(stack) - 1] =
                            IF Top.comp # up.comp THEN [up EXCEPT !.sec = @ + 1, !.buf = <<>>] ELSE up]
             /\ pc' = (IF Top.comp # up.comp THEN "sector" ELSE "entry") /\ UNCHANGED result

\* The buffer is read again only for a chain that starts.
NeedsFatOnce(f) == f.fatno = 0

\* The sector of the FAT is read unless it is the one in the buffer.
NeedsFat(f) == f.fatno # FatNo(f.cluster)

Chain ==
    /\ Walking("chain") /\ UNCHANGED out
    /\ IF Top.cluster \in {Eoc, Bad, 0} THEN ReadsOk /\ Returns(0)
       ELSE IF ~NeedsFat(Top)
         THEN ReadsOk /\ stack' = SetTop([Top EXCEPT !.sec = 0]) /\ pc' = "sector" /\ UNCHANGED result
       ELSE \/ ReadFails /\ Returns(0)
            \/ /\ ReadsOk /\ pc' = "sector" /\ UNCHANGED result
               /\ stack' = SetTop([Top EXCEPT !.fatno = FatNo(Top.cluster), !.sec = 0,
                                              !.fat = FatSector(FatNo(Top.cluster))])

\* search_directory_cluster_contents: the next sector, or the next cluster.  A
\* sector that cannot be read, or a name of no length, has nothing in it.
SectorStep ==
    /\ Walking("sector") /\ Top.comp # 0 /\ UNCHANGED <<out, result>>
    /\ IF Top.sec >= part.spc
         THEN /\ ReadsOk /\ pc' = "chain"
              /\ stack' = SetTop([Top EXCEPT !.cluster = FatEntry(Top)])
         ELSE \/ ReadFails /\ pc' = "sector" /\ stack' = SetTop([Top EXCEPT !.sec = @ + 1])
              \/ /\ ReadsOk
                 /\ IF what # "list" /\ Component(Top.comp) = NoName
                      THEN pc' = "sector" /\ stack' = SetTop([Top EXCEPT !.sec = @ + 1])
                      ELSE /\ pc' = "entry"
                           /\ stack' = SetTop([Top EXCEPT !.buf = Sector(FirstSector(Top.cluster) + Top.sec),
                                                          !.at = 1, !.lfn = FALSE])

SectorDone == pc' = "sector" /\ stack' = SetTop([Top EXCEPT !.sec = @ + 1, !.buf = <<>>]) /\ UNCHANGED result

\* A piece of a name goes where its sequence number says.
WithPiece(f, e) ==
    LET name == IF f.lfn THEN f.name ELSE NoName
        k    == e.first % 64
    IN  IF e.first < 128 /\ k \in {1, 2} THEN [name EXCEPT ![k] = e.text] ELSE name

\* print_entries_in_sector prints where search_entries_in_sector compares.
Listed(name) == IF what = "list" THEN Append(out, name) ELSE out

Descend(c, i, f) == /\ stack' = Append(SetTop(f), Frame(c, i)) /\ pc' = "chain" /\ UNCHANGED result

\* search_entries_in_sector and print_entries_in_sector, one entry.  Inside a
\* set of long name entries only the sequence number is looked at.
Entry ==
    /\ Walking("entry") /\ ReadsOk
    /\ IF Top.at > Len(Top.buf) THEN SectorDone /\ UNCHANGED out
       ELSE LET e == Top.buf[Top.at]
                name == WithPiece(Top, e)
                next == [Top EXCEPT !.at = @ + 2, !.lfn = FALSE, !.name = NoName]
            IN  IF ~Top.lfn /\ ~e.lfn
                  THEN /\ UNCHANGED out
                       /\ IF e.first = 0 THEN SectorDone
                          ELSE /\ stack' = SetTop([Top EXCEPT !.at = @ + 1])
                               /\ UNCHANGED <<pc, result>>
                ELSE IF e.first \notin {1, 65}
                  THEN /\ stack' = SetTop([Top EXCEPT !.at = @ + 1, !.lfn = TRUE, !.name = name])
                       /\ UNCHANGED <<pc, result, out>>
                ELSE /\ out' = Listed(name)
                     /\ IF Top.at = Len(Top.buf) THEN SectorDone
                        ELSE LET sfn == Top.buf[Top.at + 1]
                                 same == what # "list" /\ name = Component(Top.comp)
                             IN  IF sfn.dir
                                   THEN Descend(sfn.cluster, IF same THEN Top.comp + 1 ELSE Top.comp, next)
                                 ELSE IF same
                                   THEN IF sfn.cluster # 0 THEN Returns(sfn.cluster) ELSE SectorDone
                                 ELSE stack' = SetTop(next) /\ UNCHANGED <<pc, result>>

\* print_file_cluster_contents: sectors are printed up to the first NUL or the
\* first that cannot be read.  read_file goes on with the next cluster either way.
Printed(c) ==
    LET t == IF c \in DOMAIN M.text THEN M.text[c] ELSE <<>>
    IN  SubSeq(t, 1, CHOOSE k \in 0 .. Len(t) : /\ \A i \in 1 .. k - 1 : ~t[i].nul
                                               /\ k < Len(t) => k > 0 /\ t[k].nul)

FileCluster ==
    /\ Walking("sector") /\ Top.comp = 0
    /\ pc' = "chain" /\ UNCHANGED result
    /\ stack' = SetTop([Top EXCEPT !.cluster = FatEntry(Top)])
    /\ \/ ReadsOk /\ out' = out \o Printed(Top.cluster)
       \/ ReadFails /\ \E k \in 0 .. Len(Printed(Top.cluster)) - 1 :
                         out' = out \o SubSeq(Printed(Top.cluster), 1, k)

Walk == Chain \/ SectorStep \/ Entry \/ FileCluster

Next == \/ InitializeFat \/ Swap
        \/ \E p \in Paths : GetFileSize(p) \/ ReadFile(p)
        \/ PrintRootDirectory
        \/ Walk

Spec == Init /\ [][Next]_vars /\ WF_vars(Walk)

-----------------------------------------------------------------------------
Done == pc = "ready" /\ what # "none"

\* A layout the code means to support: FAT32, hidden sectors equal to the
\* partition's start, and every set of entries within one sector.
Regular == ~M.fat16 /\ M.hidden = M.first /\ M.tidy

Subsequence(p, q) == \E f \in [1 .. Len(p) -> 1 .. Len(q)] :
                        /\ \A i, j \in 1 .. Len(p) : i < j => f[i] < f[j]
                        /\ \A i \in 1 .. Len(p) : Full(p[i]) = Full(q[f[i]])

\* On a regular card that was not swapped for one without an MBR, a search that
\* met no read error finds a file if one has the absolute name asked for, and
\* what it finds has the last name asked for and the other names in order among
\* its directories (the search goes into every directory it passes).
SearchExact ==
    Done /\ what # "list" /\ Regular /\ ~failed /\ ~stale =>
      /\ result # 0 => \E f \in M.files : /\ f.cluster = result /\ Subsequence(path, f.path)
                                              /\ Full(f.path[Len(f.path)]) = Full(path[Len(path)])
      /\ (\E f \in M.files : f.path = path) => result # 0

\* Under the same conditions read_file prints the text of a file with the name
\* asked for, cluster by cluster, and a listing names every file and directory.
WholeText ==
    Done /\ Regular /\ ~failed /\ ~stale =>
      /\ what = "read" => out = <<>> \/ \E f \in M.files : out = f.text /\ f.cluster = result
      /\ what = "list" => {out[i] : i \in 1 .. Len(out)} = {Full(n) : n \in M.names}
=============================================================================
