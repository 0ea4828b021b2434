----------------------------- MODULE FioBuffer ------------------------------
(***************************************************************************)
(* Buffered i/o on a random access binary file (sys/fio): read, write,     *)
(* seek, flush, close, the fset options that touch the buffer, and the     *)
(* file fault on which they rest.  A file has one buffer, which holds the  *)
(* block of the file at boffset.  iop is the next char to be read or       *)
(* written, itop the end of the chars that may be read, otop the end of    *)
(* the chars that may be written without asking flsbuf; all three may be   *)
(* anywhere, and LNOTE gives the position they stand for.                  *)
(*                                                                         *)
(* Pointers into the buffer are counted from bufptr, so that bufptr is 0   *)
(* and buftop is bufsize.  A transfer of n chars goes chunk by chunk, as   *)
(* the loops of read and write do; getc and putc are transfers of one.     *)
(*                                                                         *)
(* Files are opened with read permission and FIRSTBUFOFF is 1.  A program  *)
(* into which an error is raised ends: it does not go on with the file.    *)
(***************************************************************************)
EXTENDS Integers, Sequences

CONSTANTS Char,         \* what programs write
          Junk,         \* what fresh memory holds
          EOF,
          Modes,        \* how files are opened: "ro", "rw", "append", "new"
          CancelModes,  \* in which of them F_CANCEL is used
          BLKSIZE,      \* chars in a block of the device
          BufSizes,     \* values of F_BUFSIZE, the first one included
          MaxXfer,      \* bound on the chars of one read or write
          MaxSize,      \* bound on the size of the file
          MayFail       \* transfers of the device may fail

ASSUME BufferAssumption ==
    /\ Junk \notin Char /\ EOF \notin Char \cup {Junk}
    /\ CancelModes \subseteq Modes /\ Modes \subseteq {"ro", "rw", "append", "new"}
    /\ BLKSIZE \in Nat \ {0} /\ BufSizes \subseteq Nat \ {0}
    /\ MaxXfer \in Nat \ {0} /\ MaxSize \in Nat /\ MayFail \in BOOLEAN

VARIABLES
    disk,       \* the file on the device
    mode,       \* how the file is open, or "closed"
    f,          \* its descriptor
    call,       \* the transfer that is going on
    out,        \* the chars the last step delivered to the program
    status      \* the error that was raised, or "ok"

vars == <<disk, mode, f, call, out, status>>

Lower(a, b) == IF a < b THEN a ELSE b
Higher(a, b) == IF a > b THEN a ELSE b

Block(x) == [k \in 0..x - 1 |-> Junk]

NoCall == [op |-> "none", left |-> 0, done |-> 0]
NoFile == [alloc |-> FALSE, bufsize |-> 1, buf |-> Block(0), boffset |-> 1,
           iop |-> 0, itop |-> 0, otop |-> 0, filsize |-> 0]

\* The file d with the first n chars of the buffer b at offset o.
Patch(d, o, b, n) ==
    [k \in 1..(IF n = 0 THEN Len(d) ELSE Higher(Len(d), o + n - 1)) |->
        IF k \in o..o + n - 1 THEN b[k - o] ELSE IF k <= Len(d) THEN d[k] ELSE Junk]

-----------------------------------------------------------------------------
(* fio.h                                                                   *)

LNOTE(x) == x.boffset + x.iop

Modified(x) == x.otop > 0

\* Mutant: data that was in the buffer beyond iop is forgotten.
UpdateIopOnly(x) ==
    IF x.alloc /\ x.otop = x.bufsize
    THEN LET top == Lower(x.bufsize, Higher(0, x.iop))
         IN  [x EXCEPT !.itop = top, !.otop = top]
    ELSE x

\* Mutant: iop may be anywhere beyond the buffer.
UpdateIopUnbounded(x) ==
    IF x.alloc /\ x.otop = x.bufsize
    THEN LET top == Higher(x.itop, x.iop)
         IN  [x EXCEPT !.itop = top, !.otop = top]
    ELSE x

\* UPDATE_IOP: mark the end of the good data in a buffer that was written into.
UpdateIop(x) ==
    IF x.alloc /\ x.otop = x.bufsize
    THEN LET top == Lower(x.bufsize, Higher(x.itop, x.iop))
         IN  [x EXCEPT !.itop = top, !.otop = top]
    ELSE x

LSEEK(x, off) == [UpdateIop(x) EXCEPT !.iop = off - x.boffset]

-----------------------------------------------------------------------------
(* fmkbfs, frmbfs, ffilsz                                                  *)

MakeBuffer(x) ==
    LET size == ((x.bufsize + BLKSIZE - 1) \div BLKSIZE) * BLKSIZE
    IN  IF x.alloc THEN x
        ELSE [x EXCEPT !.alloc = TRUE, !.bufsize = size, !.buf = Block(size),
                       !.boffset = 0, !.iop = LNOTE(x), !.itop = 0, !.otop = 0]

ReturnBuffer(x) ==
    IF x.alloc
    THEN [x EXCEPT !.alloc = FALSE, !.buf = Block(0), !.boffset = 0,
                   !.iop = LNOTE(x), !.itop = 0, !.otop = 0]
    ELSE x

\* Mutant: FILSIZE is taken for the size of the file.
FilszUncounted(x) == UpdateIop(x)

\* FILSIZE counts what is in the buffer as soon as somebody has asked for it.
Filsz(x) ==
    LET u == UpdateIop(x)
    IN  [u EXCEPT !.filsize = IF Modified(u) THEN Higher(@, u.boffset - 1 + u.itop) ELSE @]

-----------------------------------------------------------------------------
(* fflsbf and awriteb, ffilbf and areadb, with fwatio.                     *)

\* awriteb refuses what is out of bounds or not aligned.
Writable(x) ==
    /\ x.boffset >= 1 /\ x.boffset <= x.filsize + 1
    /\ (x.boffset - 1) % BLKSIZE = 0

\* Mutant: FIO does not keep track of the file size.
WroteUncounted(x) == [x EXCEPT !.otop = 0]

Wrote(x) ==
    [x EXCEPT !.filsize = Higher(@, x.boffset - 1 + x.otop), !.otop = 0]

DiskAfter(x, d) == Patch(d, x.boffset, x.buf, x.otop)

\* The chars of the device that a read of the block at o finds; no read is made
\* of a block that begins beyond the end of the file.
Found(d, o, x) ==
    IF o > x.filsize THEN 0 ELSE Higher(0, Lower(x.bufsize, Len(d) - o + 1))

Filled(x, d, o) ==
    LET n == Found(d, o, x)
    IN  [x EXCEPT !.buf = [k \in DOMAIN @ |-> IF k < n THEN d[o + k] ELSE @[k]],
                  !.itop = n, !.otop = 0]

-----------------------------------------------------------------------------
(* ffault: put the buffer down on the block of the file where LNOTE is.    *)

BlockOf(x, off) == ((off - 1) \div x.bufsize) * x.bufsize + 1

\* Mutant: the chars in front of the first one to be written are not kept.
OverwrittenUnaligned(x, nreserve) == nreserve >= x.bufsize

\* A block that is going to be overwritten as a whole is not read.
Overwritten(x, nreserve) ==
    LNOTE(x) = BlockOf(x, LNOTE(x)) /\ nreserve >= x.bufsize

Flushed(x) == LET u == UpdateIop(x) IN IF Modified(u) THEN Wrote(u) ELSE u

FlushedDisk(x, d) ==
    LET u == UpdateIop(x) IN IF Modified(u) THEN DiskAfter(u, d) ELSE d

Fault(x, d, skip) ==
    LET off == LNOTE(x)
        o   == BlockOf(x, off)
        e   == Flushed(x)
        y   == IF skip THEN [e EXCEPT !.itop = 0] ELSE Filled(e, d, o)
    IN  LSEEK([y EXCEPT !.boffset = o], off)

FlushFails(x) == LET u == UpdateIop(x) IN Modified(u) /\ ~Writable(u)

-----------------------------------------------------------------------------
(* The file is opened and positioned (filopn, fgdev_param).                *)

Init ==
    /\ disk = << >> /\ mode = "closed"
    /\ f = NoFile /\ call = NoCall /\ out = << >> /\ status = "ok"

Open ==
    /\ mode = "closed"
    /\ \E m \in Modes, size \in BufSizes :
         LET d == IF m = "new" THEN << >> ELSE disk
             x == [NoFile EXCEPT !.bufsize = size, !.filsize = Len(d)]
         IN  /\ mode' = m
             /\ disk' = d
             /\ f' = IF m = "append" THEN [x EXCEPT !.iop = Len(d)] ELSE x
    /\ out' = << >>
    /\ UNCHANGED <<call, status>>

Ready == mode # "closed" /\ status = "ok" /\ call = NoCall

\* An error is raised, and the call is over; d is what it leaves on the device.
\* Nothing looks at the descriptor any more (see Cleanup).
Raise(why, d) ==
    /\ status' = why /\ disk' = d
    /\ f' = NoFile /\ call' = NoCall /\ out' = << >>
    /\ UNCHANGED mode

\* The flush of the buffer of x fails: awriteb refuses it, or the device writes
\* only a part of it.
FlushRaises(x) ==
    LET u == UpdateIop(x)
    IN  /\ Modified(u)
        /\ \/ ~Writable(u) /\ Raise("bounds", disk)
           \/ /\ Writable(u) /\ MayFail
              /\ \E n \in 0..u.otop - 1 : Raise("device", Patch(disk, u.boffset, u.buf, n))

-----------------------------------------------------------------------------
(* read and filbuf                                                         *)

StartRead ==
    /\ Ready
    /\ \E n \in 1..MaxXfer : call' = [op |-> "read", left |-> n, done |-> 0]
    /\ out' = << >>
    /\ UNCHANGED <<disk, mode, f, status>>

InRange(x, top) == x.alloc /\ x.iop >= 0 /\ x.iop < top

\* The chars of the buffer at iop are copied out.  At the end of the file, and
\* when the block is the last one, the loop does not go round again.
CopyOut(x, left) ==
    LET n == Lower(left, x.itop - x.iop)
    IN  IF n <= 0
        THEN /\ call' = NoCall /\ f' = x
             /\ out' = IF call.done = 0 THEN <<EOF>> ELSE << >>
        ELSE /\ out' = [k \in 1..n |-> x.buf[x.iop + k - 1]]
             /\ f' = [x EXCEPT !.iop = @ + n]
             /\ call' = IF n = left THEN NoCall
                        ELSE [call EXCEPT !.left = left - n, !.done = @ + n]

ReadChunk ==
    /\ call.op = "read"
    /\ IF InRange(f, f.itop)
       THEN CopyOut(f, call.left) /\ UNCHANGED <<disk, mode, status>>
       ELSE LET x == MakeBuffer(f)
                d == FlushedDisk(x, disk)
                y == Fault(x, d, FALSE)
            IN  \/ FlushRaises(x)
                \/ ~FlushFails(x) /\ MayFail /\ Raise("device", d)
                \/ /\ ~FlushFails(x)
                   /\ CopyOut(y, IF y.itop < y.bufsize
                                 THEN Lower(call.left, y.itop - y.iop) ELSE call.left)
                   /\ disk' = d
                   /\ UNCHANGED <<mode, status>>

-----------------------------------------------------------------------------
(* write and flsbuf                                                        *)

StartWrite ==
    /\ Ready
    /\ \E n \in 1..MaxXfer :
         /\ LNOTE(f) + n - 1 <= MaxSize
         /\ call' = [op |-> "write", left |-> n, done |-> 0]
    /\ out' = << >>
    /\ UNCHANGED <<disk, mode, f, status>>

\* Room for chars in a buffer that holds the block: no fault is needed.
InBlock(x) == x.alloc /\ x.iop >= 0 /\ x.iop < x.bufsize /\ x.otop < x.bufsize

CopyIn(x) ==
    LET n == Lower(call.left, x.otop - x.iop)
    IN  /\ \E s \in [1..n -> Char] :
             f' = [x EXCEPT !.iop = @ + n,
                            !.buf = [k \in DOMAIN @ |->
                                IF k \in x.iop..x.iop + n - 1 THEN s[k - x.iop + 1] ELSE @[k]]]
        /\ call' = IF n = call.left THEN NoCall
                   ELSE [call EXCEPT !.left = @ - n, !.done = @ + n]
        /\ out' = << >>

MakeRoom(x) == [x EXCEPT !.otop = x.bufsize]

WriteChunk ==
    /\ call.op = "write"
    /\ IF InRange(f, f.otop)
       THEN CopyIn(f) /\ UNCHANGED <<disk, mode, status>>
       ELSE LET x == MakeBuffer(f)
                d == FlushedDisk(x, disk)
                skip == Overwritten(x, call.left)
            IN  \/ mode = "ro" /\ Raise("permission", disk)
                \/ /\ mode # "ro" /\ InBlock(f)
                   /\ CopyIn(MakeRoom(f))
                   /\ UNCHANGED <<disk, mode, status>>
                \/ mode # "ro" /\ ~InBlock(f) /\ FlushRaises(x)
                \/ /\ mode # "ro" /\ ~InBlock(f) /\ ~FlushFails(x)
                   /\ \/ ~skip /\ MayFail /\ Raise("device", d)
                      \/ /\ CopyIn(MakeRoom(Fault(x, d, skip)))
                         /\ disk' = d
                         /\ UNCHANGED <<mode, status>>

-----------------------------------------------------------------------------
(* seek, flush, close, fset                                                *)

\* seek (fd, BOF), seek (fd, offset); an offset beyond the end is not refused.
Seek ==
    /\ Ready
    /\ \E off \in 1..MaxSize + 1 : f' = LSEEK(f, off)
    /\ out' = << >>
    /\ UNCHANGED <<disk, mode, call, status>>

SeekEOF ==
    /\ Ready
    /\ f' = LSEEK(Filsz(f), Filsz(f).filsize + 1)
    /\ out' = << >>
    /\ UNCHANGED <<disk, mode, call, status>>

Flush ==
    /\ Ready
    /\ \/ FlushRaises(f)
       \/ /\ ~FlushFails(f)
          /\ f' = Flushed(f) /\ disk' = FlushedDisk(f, disk) /\ out' = << >>
          /\ UNCHANGED <<mode, call, status>>

Close ==
    /\ Ready
    /\ \/ FlushRaises(f)
       \/ /\ ~FlushFails(f)
          /\ disk' = FlushedDisk(f, disk) /\ mode' = "closed" /\ f' = NoFile
          /\ out' = << >>
          /\ UNCHANGED <<call, status>>

\* fset (fd, F_BUFSIZE, size)
SetBufSize ==
    /\ Ready
    /\ \E size \in BufSizes \ {f.bufsize} :
         \/ FlushRaises(f)
         \/ /\ ~FlushFails(f)
            /\ f' = [ReturnBuffer(Flushed(f)) EXCEPT !.bufsize = size]
            /\ disk' = FlushedDisk(f, disk) /\ out' = << >>
            /\ UNCHANGED <<mode, call, status>>

\* fset (fd, F_CANCEL, OK)
SetCancel ==
    /\ Ready /\ mode \in CancelModes
    /\ f' = LSEEK([f EXCEPT !.iop = 0, !.itop = 0, !.otop = 0, !.boffset = 0], LNOTE(f))
    /\ out' = << >>
    /\ UNCHANGED <<disk, mode, call, status>>

\* The task ends without having closed the file, with an error (raised here or
\* elsewhere) or without: fio_cleanup cancels or flushes the buffer and deletes
\* a new file.  Or the process dies.
Cleanup ==
    /\ mode # "closed"
    /\ mode' = "closed" /\ f' = NoFile /\ call' = NoCall /\ out' = << >> /\ status' = "ok"
    /\ \/ disk' = disk
       \/ disk' = << >> /\ mode = "new"
       \/ Ready /\ ~FlushFails(f) /\ mode # "new" /\ disk' = FlushedDisk(f, disk)

Next ==
    \/ Open \/ StartRead \/ ReadChunk \/ StartWrite \/ WriteChunk
    \/ Seek \/ SeekEOF \/ Flush \/ Close \/ SetBufSize \/ SetCancel \/ Cleanup

Spec == Init /\ [][Next]_vars
-----------------------------------------------------------------------------
(* Properties.                                                             *)

Chars == Char \cup {Junk}

\* A buffer holds bufsize chars; the ends of its readable and writable parts
\* are in it; reads and writes leave the file within its bound.
TypeOK ==
    /\ mode \in Modes \cup {"closed"}
    /\ status \in {"ok", "bounds", "device", "permission"}
    /\ disk \in Seq(Chars) /\ out \in Seq(Chars \cup {EOF})
    /\ f.alloc \in BOOLEAN /\ f.bufsize \in Nat \ {0}
    /\ f.buf \in [0..(IF f.alloc THEN f.bufsize ELSE 0) - 1 -> Chars]
    /\ f.boffset \in Nat /\ f.iop \in Int /\ f.filsize \in Nat
    /\ f.itop \in 0..f.bufsize /\ f.otop \in 0..f.bufsize
    /\ call.op \in {"none", "read", "write"}
    /\ call.left \in 0..MaxXfer /\ call.done \in 0..MaxXfer

Live == mode # "closed" /\ status = "ok"

\* The file as the program sees it: what it has written into the buffer is in
\* front of what is on the device.
Content ==
    LET u == UpdateIop(f) IN IF Live THEN Patch(disk, u.boffset, u.buf, u.otop) ELSE disk

File == INSTANCE ByteFile
          WITH content <- Content, saved <- disk, isopen <- Live,
               pos <- IF Live THEN LNOTE(f) ELSE 1

\* However reads, writes and seeks follow each other, the program reads what is
\* in the file, or what it wrote last; a write changes only what it writes; the
\* end of the file is where it is; and closing it makes all of that permanent.
Refinement == File!BSpec

\* Something is written to the device.
Transfer == mode # "closed" /\ disk' \notin {disk, << >>}

\* unix/os/zfiobf.c:28-29,37-38: what the kernel is asked to write is aligned on
\* a block of the device, and is never a partial block within a file.
KernelContract ==
    [][Transfer => LET u == UpdateIop(f)
                   IN  /\ (u.boffset - 1) % BLKSIZE = 0
                       /\ u.otop % BLKSIZE = 0 \/ u.boffset - 1 + u.otop >= Len(disk)]_vars

\* unix/os/zfiobf.c:28-29: the offset "is guaranteed by FIO [...] to be in
\* bounds": FIO can extend a file by writing at EOF, but not from beyond it.
InBounds == [][Transfer => f.boffset \in 1..Len(disk) + 1]_vars

\* Only chars that were written beyond the end of the file are refused as out
\* of bounds.
OnlyStrayFails ==
    [][status = "ok" /\ status' = "bounds" => f.boffset > Len(disk) + 1]_vars

\* seek.x:62-63 and ffilsz.x:34-37: a program that seeks to EOF is behind the last
\* char of the file as it sees it, that which is still in the buffer included.
EndOfFile == [][SeekEOF => LNOTE(f') = Len(Content) + 1]_vars

\* fseti.x:127-130: F_CANCEL on a blocked file has "the only effect" that the
\* buffer is refilled: nothing is written into a buffer that is invalid.
CancelRefills == f.alloc /\ f.boffset = 0 => f.otop = 0
=============================================================================
