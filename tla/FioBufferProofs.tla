-------------------------- MODULE FioBufferProofs ---------------------------
(***************************************************************************)
(* What holds of the file buffer for every size of the buffer, the block   *)
(* of the device, the transfers and the file, and every set of chars.      *)
(***************************************************************************)
EXTENDS FioBuffer, SequenceTheorems, TLAPS

-----------------------------------------------------------------------------
(* Blocks: what \div and % give for a block size nobody knows.             *)

LEMMA DivBounds ==
  ASSUME NEW a \in Nat, NEW b \in Nat \ {0}
  PROVE  /\ a \div b \in Nat
         /\ (a \div b) * b <= a
         /\ a < (a \div b) * b + b
  OBVIOUS

LEMMA Multiple ==
  ASSUME NEW k \in Nat, NEW b \in Nat \ {0}
  PROVE  (k * b) % b = 0
  OBVIOUS

LEMMA Quotient ==
  ASSUME NEW a \in Nat, NEW b \in Nat \ {0}, a % b = 0
  PROVE  \E k \in Nat : a = k * b
  OBVIOUS

-----------------------------------------------------------------------------
(* What the parts of a descriptor are, and how they fit together.          *)

Desc == [alloc : BOOLEAN, bufsize : Nat \ {0},
         buf : UNION {[0..n - 1 -> Chars] : n \in Nat}, boffset : Nat,
         iop : Int, itop : Nat, otop : Nat, filsize : Nat]

Typed(x) ==
    /\ x \in Desc
    /\ x.buf \in [0..(IF x.alloc THEN x.bufsize ELSE 0) - 1 -> Chars]
    /\ x.itop <= x.bufsize /\ x.otop <= x.bufsize

\* The file is positioned on a char; a buffer is made of blocks of the device
\* and lies on one of them; it is wholly clean, or dirty as far as it is good;
\* and nothing was read into a buffer that F_CANCEL has made invalid.
Placed(x) ==
    /\ LNOTE(x) >= 1
    /\ ~x.alloc => x.itop = 0 /\ x.otop = 0
    /\ x.alloc => x.bufsize % BLKSIZE = 0
    /\ x.alloc /\ x.boffset >= 1 => (x.boffset - 1) % BLKSIZE = 0
    /\ x.otop \in {0, x.itop, x.bufsize}
    /\ x.otop > 0 => x.iop > 0 \/ x.itop > 0
    /\ x.boffset = 0 /\ x.otop = 0 => x.itop = 0

\* A clean buffer holds what the device holds.
Clean(x, d) ==
    x.otop = 0 => \A k \in 0..x.itop - 1 :
                    x.boffset + k \in 1..Len(d) /\ x.buf[k] = d[x.boffset + k]

\* A buffer that is not good to its end is the last one of the file.
Covers(x, d) ==
    x.alloc /\ x.boffset >= 1 =>
        LET u == UpdateIop(x) IN u.itop = x.bufsize \/ x.boffset + u.itop > Len(d)

Good(x, d) ==
    Typed(x) /\ Placed(x) /\ Clean(x, d) /\ Covers(x, d) /\ x.filsize >= Len(d)

\* The file d as a program sees it through the descriptor x.
View(x, d) == LET u == UpdateIop(x) IN Patch(d, u.boffset, u.buf, u.otop)

\* x and y stand for the same block.
SameBuffer(x, y) ==
    /\ x.alloc = y.alloc /\ x.bufsize = y.bufsize /\ x.buf = y.buf
    /\ x.boffset = y.boffset

-----------------------------------------------------------------------------
(* UPDATE_IOP and LSEEK.                                                   *)

\* Where the good data ends in a buffer that is being written into.
Top(x) == Lower(x.bufsize, Higher(x.itop, x.iop))

LEMMA TopType ==
  ASSUME NEW x, Typed(x)
  PROVE  Top(x) \in x.itop..x.bufsize /\ (x.iop <= x.bufsize => x.iop <= Top(x))
  BY DEF Typed, Desc, Top, Lower, Higher

\* The two assignments, each under a name of its own.
SetIop(x, i) == [x EXCEPT !.iop = i]
SetTops(x, t) == [x EXCEPT !.itop = t, !.otop = t]

LEMMA SetIopIs ==
  ASSUME NEW x, Typed(x), NEW i \in Int
  PROVE  LET y == SetIop(x, i)
         IN  /\ Typed(y) /\ SameBuffer(y, x) /\ y.iop = i
             /\ y.itop = x.itop /\ y.otop = x.otop /\ y.filsize = x.filsize
  BY DEF Typed, Desc, SameBuffer, SetIop

LEMMA SetTopsIs ==
  ASSUME NEW x, Typed(x), NEW t \in Nat, t <= x.bufsize
  PROVE  LET y == SetTops(x, t)
         IN  /\ Typed(y) /\ SameBuffer(y, x) /\ y.iop = x.iop
             /\ y.itop = t /\ y.otop = t /\ y.filsize = x.filsize
             /\ x.itop = t /\ x.otop = t => y = x
  BY DEF Typed, Desc, SameBuffer, SetTops

\* UPDATE_IOP is done when a buffer that is writable to its end is good to its end.
LEMMA UpdateIopDone ==
  ASSUME NEW x, Typed(x), x.alloc /\ x.otop = x.bufsize => x.itop = x.bufsize
  PROVE  UpdateIop(x) = x
  <1>1. CASE x.alloc /\ x.otop = x.bufsize
    <2>1. Top(x) = x.bufsize
      BY <1>1, TopType DEF Typed, Desc
    <2>2. UpdateIop(x) = SetTops(x, Top(x))
      BY <1>1 DEF UpdateIop, Top, SetTops
    <2> QED BY <1>1, <2>1, <2>2, SetTopsIs DEF Typed, Desc
  <1>2. CASE ~(x.alloc /\ x.otop = x.bufsize)
    BY <1>2 DEF UpdateIop
  <1> QED BY <1>1, <1>2

LEMMA UpdateIopIs ==
  ASSUME NEW x, Typed(x)
  PROVE  /\ Typed(UpdateIop(x))
         /\ SameBuffer(UpdateIop(x), x)
         /\ UpdateIop(x).iop = x.iop /\ UpdateIop(x).filsize = x.filsize
         /\ x.alloc /\ x.otop = x.bufsize
              => UpdateIop(x).itop = Top(x) /\ UpdateIop(x).otop = Top(x)
         /\ ~x.alloc \/ x.otop # x.bufsize => UpdateIop(x) = x
  <1>1. CASE x.alloc /\ x.otop = x.bufsize
    <2>1. UpdateIop(x) = SetTops(x, Top(x))
      BY <1>1 DEF UpdateIop, Top, SetTops
    <2>2. Top(x) \in Nat /\ Top(x) <= x.bufsize
      BY TopType DEF Typed, Desc
    <2> QED BY <1>1, <2>1, <2>2, SetTopsIs
  <1>2. CASE ~(x.alloc /\ x.otop = x.bufsize)
    BY <1>2 DEF UpdateIop, SameBuffer
  <1> QED BY <1>1, <1>2

\* What it does to otop, which says how much is to be written back.
LEMMA UpdateIopOtop ==
  ASSUME NEW x, Typed(x), Placed(x)
  PROVE  /\ UpdateIop(x).otop \in {0, UpdateIop(x).itop}
         /\ UpdateIop(x).otop = 0 => x.otop = 0 /\ UpdateIop(x) = x
         /\ UpdateIop(x).itop >= x.itop
         /\ UpdateIop(x).otop >= x.itop \/ UpdateIop(x).otop = 0
  <1> DEFINE u == UpdateIop(x)
  <1>1. x.itop \in Nat /\ x.otop \in Nat /\ x.bufsize \in Nat \ {0} /\ x.iop \in Int
    BY DEF Typed, Desc
  <1>2. CASE x.alloc /\ x.otop = x.bufsize
    <2>1. u.itop = Top(x) /\ u.otop = Top(x) /\ Top(x) >= x.itop
      BY <1>2, UpdateIopIs, TopType, <1>1
    <2>2. Top(x) # 0
      BY <1>1, <1>2 DEF Placed, Top, Lower, Higher
    <2> QED BY <2>1, <2>2
  <1>3. CASE ~(x.alloc /\ x.otop = x.bufsize)
    <2>1. u = x
      BY <1>3, UpdateIopIs
    <2> QED BY <1>1, <1>3, <2>1 DEF Placed
  <1> QED BY <1>2, <1>3

\* UPDATE_IOP changes nothing that matters.
LEMMA UpdateIopGood ==
  ASSUME NEW x, NEW d, Good(x, d)
  PROVE  Good(UpdateIop(x), d) /\ UpdateIop(UpdateIop(x)) = UpdateIop(x)
  <1> DEFINE u == UpdateIop(x)
  <1>1. Typed(x) /\ Placed(x) /\ Typed(u) /\ SameBuffer(u, x) /\ u.iop = x.iop
    BY UpdateIopIs DEF Good
  <1>2. x.itop \in Nat /\ x.otop \in Nat /\ x.bufsize \in Nat \ {0} /\ x.iop \in Int
    BY <1>1 DEF Typed, Desc
  <1>3. CASE x.alloc /\ x.otop = x.bufsize
    <2>1. u.itop = Top(x) /\ u.otop = Top(x) /\ Top(x) > 0
      BY <1>1, <1>2, <1>3, UpdateIopIs DEF Placed, Top, Lower, Higher
    <2>2. UpdateIop(u) = u
      <3>1. Top(x) = x.bufsize => u.itop = u.bufsize
        BY <1>1, <2>1 DEF SameBuffer
      <3> HIDE DEF u
      <3> QED BY <1>1, <2>1, <3>1, UpdateIopDone DEF SameBuffer
    <2>3. Placed(u)
      BY <1>1, <1>2, <1>3, <2>1 DEF Placed, LNOTE, SameBuffer
    <2>4. Clean(u, d)
      BY <2>1 DEF Clean
    <2>5. Covers(u, d)
      BY <1>1, <2>2 DEF Good, Covers, SameBuffer
    <2> QED BY <1>1, <2>2, <2>3, <2>4, <2>5, UpdateIopIs DEF Good
  <1>4. CASE ~(x.alloc /\ x.otop = x.bufsize)
    BY <1>1, <1>4, UpdateIopIs
  <1> QED BY <1>3, <1>4

\* So does seeking, but for the position.
LEMMA SeekGood ==
  ASSUME NEW x, NEW d, Good(x, d), NEW off \in Nat \ {0}
  PROVE  /\ Good(LSEEK(x, off), d)
         /\ LNOTE(LSEEK(x, off)) = off
         /\ SameBuffer(LSEEK(x, off), x)
         /\ LSEEK(x, off).filsize = x.filsize
         /\ LSEEK(x, off).otop = UpdateIop(x).otop
         /\ UpdateIop(LSEEK(x, off)) = LSEEK(x, off)
  <1> DEFINE u == UpdateIop(x)  y == LSEEK(x, off)
  <1>1. Good(u, d) /\ UpdateIop(u) = u /\ SameBuffer(u, x) /\ u.filsize = x.filsize
    BY UpdateIopGood, UpdateIopIs DEF Good
  <1>2. Typed(u) /\ Placed(u) /\ x.boffset \in Nat
    BY <1>1 DEF Good, Typed, Desc, SameBuffer
  <1>3. y = SetIop(u, off - x.boffset)
    BY DEF LSEEK, SetIop
  <1>4. /\ Typed(y) /\ SameBuffer(y, u) /\ y.iop = off - x.boffset
        /\ y.itop = u.itop /\ y.otop = u.otop /\ y.filsize = u.filsize
    <2> HIDE DEF u, y
    <2>1. off - x.boffset \in Int
      BY <1>2
    <2> QED BY <1>2, <1>3, <2>1, SetIopIs
  <1>5. u.alloc /\ u.otop = u.bufsize => u.itop = u.bufsize
    <2> SUFFICES ASSUME u.alloc, u.otop = u.bufsize
                 PROVE  u.itop = u.bufsize
      OBVIOUS
    <2>1. u.itop = Top(u) /\ u.otop = Top(u)
      BY <1>1, <1>2, UpdateIopIs
    <2> QED BY <2>1
  <1>6. UpdateIop(y) = y
    BY <1>4, <1>5, UpdateIopDone DEF SameBuffer
  <1>7. LNOTE(y) = off
    BY <1>1, <1>2, <1>4 DEF LNOTE, SameBuffer
  <1>8. Placed(y)
    <2>1. y.otop > 0 => y.itop > 0
      BY <1>2, <1>4, <1>5 DEF Placed, Typed, Desc, SameBuffer
    <2> QED BY <1>2, <1>4, <1>7, <2>1 DEF Placed, SameBuffer
  <1>9. Clean(y, d) /\ Covers(y, d)
    BY <1>1, <1>4, <1>6 DEF Good, Clean, Covers, SameBuffer
  <1> QED BY <1>1, <1>4, <1>6, <1>7, <1>8, <1>9 DEF Good, SameBuffer

-----------------------------------------------------------------------------
(* Patching a file with a buffer.                                          *)

LEMMA PatchIs ==
  ASSUME NEW d \in Seq(Chars), NEW o \in Nat, NEW b, NEW n \in Nat,
         n > 0 => o >= 1,
         \A k \in 0..n - 1 : b[k] \in Chars
  PROVE  /\ Patch(d, o, b, n) \in Seq(Chars)
         /\ Len(Patch(d, o, b, n)) = IF n = 0 THEN Len(d) ELSE Higher(Len(d), o + n - 1)
         /\ \A k \in 1..Len(Patch(d, o, b, n)) :
              Patch(d, o, b, n)[k] =
                IF k \in o..o + n - 1 THEN b[k - o] ELSE IF k <= Len(d) THEN d[k] ELSE Junk
  <1> DEFINE m == IF n = 0 THEN Len(d) ELSE Higher(Len(d), o + n - 1)
             e(k) == IF k \in o..o + n - 1 THEN b[k - o]
                     ELSE IF k <= Len(d) THEN d[k] ELSE Junk
  <1>1. Len(d) \in Nat /\ \A k \in 1..Len(d) : d[k] \in Chars
    BY LenProperties, ElementOfSeq
  <1>2. m \in Nat
    BY <1>1 DEF Higher
  <1>3. \A k \in 1..m : e(k) \in Chars
    <2> SUFFICES ASSUME NEW k \in 1..m
                 PROVE  e(k) \in Chars
      OBVIOUS
    <2>1. CASE k \in o..o + n - 1
      BY <1>2, <2>1
    <2>2. CASE k \notin o..o + n - 1
      BY <1>1, <1>2, <2>2 DEF Chars
    <2> QED BY <2>1, <2>2
  <1>4. Patch(d, o, b, n) = [k \in 1..m |-> e(k)]
    BY DEF Patch
  <1> HIDE DEF m, e
  <1>5. [k \in 1..m |-> e(k)] \in Seq(Chars)
    BY <1>2, <1>3, IsASeq
  <1>6. Len([k \in 1..m |-> e(k)]) = m
    BY <1>2, <1>5, LenProperties
  <1>7. \A k \in 1..m : [j \in 1..m |-> e(j)][k] = e(k)
    OBVIOUS
  <1> QED BY <1>4, <1>5, <1>6, <1>7 DEF m, e

LEMMA PatchNothing ==
  ASSUME NEW d \in Seq(Chars), NEW o \in Nat, NEW b
  PROVE  Patch(d, o, b, 0) = d
  <1>1. /\ Patch(d, o, b, 0) \in Seq(Chars)
        /\ Len(Patch(d, o, b, 0)) = Len(d)
        /\ \A k \in 1..Len(d) : Patch(d, o, b, 0)[k] =
                IF k \in o..o + 0 - 1 THEN b[k - o] ELSE IF k <= Len(d) THEN d[k] ELSE Junk
    BY PatchIs
  <1>2. \A k \in 1..Len(d) : Patch(d, o, b, 0)[k] = d[k]
    BY <1>1, LenProperties
  <1> QED BY <1>1, <1>2, SeqEqual

-----------------------------------------------------------------------------
(* What the program sees.                                                  *)

LEMMA BufferChars ==
  ASSUME NEW x, Typed(x), NEW n \in Nat, n <= x.otop \/ n <= x.itop, Placed(x)
  PROVE  \A k \in 0..n - 1 : x.buf[k] \in Chars
  BY DEF Typed, Desc, Placed

\* What has been written into the buffer is in the file the program sees.
ViewAt(x, d, v) ==
    LET u == UpdateIop(x)
    IN  /\ v \in Seq(Chars)
        /\ Len(v) = IF u.otop = 0 THEN Len(d) ELSE Higher(Len(d), x.boffset + u.otop - 1)
        /\ \A k \in 1..Len(v) :
             v[k] = IF k \in x.boffset..x.boffset + u.otop - 1 THEN x.buf[k - x.boffset]
                    ELSE IF k <= Len(d) THEN d[k] ELSE Junk

\* What is in the buffer of a file is in the file, unless F_CANCEL moved the buffer.
Valid(x) == UpdateIop(x).otop > 0 => x.boffset >= 1

LEMMA ViewIs ==
  ASSUME NEW d \in Seq(Chars), NEW x, Good(x, d), Valid(x)
  PROVE  ViewAt(x, d, View(x, d))
  <1> DEFINE u == UpdateIop(x)
  <1>1. Typed(x) /\ Typed(u) /\ Placed(u) /\ SameBuffer(u, x)
    BY UpdateIopGood, UpdateIopIs DEF Good
  <1>2. u.otop \in Nat /\ u.boffset = x.boffset /\ u.buf = x.buf /\ x.boffset \in Nat
    BY <1>1 DEF Typed, Desc, SameBuffer
  <1>3. \A k \in 0..u.otop - 1 : x.buf[k] \in Chars
    BY <1>1, <1>2, BufferChars
  <1>4. View(x, d) = Patch(d, x.boffset, x.buf, u.otop)
    BY <1>2 DEF View
  <1>5. u.otop > 0 => x.boffset >= 1
    BY DEF Valid
  <1> HIDE DEF u
  <1>6. /\ Patch(d, x.boffset, x.buf, u.otop) \in Seq(Chars)
        /\ Len(Patch(d, x.boffset, x.buf, u.otop)) =
             IF u.otop = 0 THEN Len(d) ELSE Higher(Len(d), x.boffset + u.otop - 1)
        /\ \A k \in 1..Len(Patch(d, x.boffset, x.buf, u.otop)) :
             Patch(d, x.boffset, x.buf, u.otop)[k] =
               IF k \in x.boffset..x.boffset + u.otop - 1 THEN x.buf[k - x.boffset]
               ELSE IF k <= Len(d) THEN d[k] ELSE Junk
    <2>1. PICK n \in Nat, o \in Nat : n = u.otop /\ o = x.boffset
      BY <1>2
    <2>2. n > 0 => o >= 1
      BY <1>5, <2>1
    <2>3. \A k \in 0..n - 1 : x.buf[k] \in Chars
      BY <1>3, <2>1
    <2>4. /\ Patch(d, o, x.buf, n) \in Seq(Chars)
          /\ Len(Patch(d, o, x.buf, n)) =
               IF n = 0 THEN Len(d) ELSE Higher(Len(d), o + n - 1)
          /\ \A k \in 1..Len(Patch(d, o, x.buf, n)) :
               Patch(d, o, x.buf, n)[k] =
                 IF k \in o..o + n - 1 THEN x.buf[k - o]
                 ELSE IF k <= Len(d) THEN d[k] ELSE Junk
      BY <2>2, <2>3, PatchIs
    <2> QED BY <2>1, <2>4
  <1> QED BY <1>4, <1>6 DEF ViewAt, u

LEMMA ViewClean ==
  ASSUME NEW d \in Seq(Chars), NEW x, Typed(x), UpdateIop(x).otop = 0
  PROVE  View(x, d) = d
  <1> DEFINE u == UpdateIop(x)
  <1>1. Typed(u)
    BY UpdateIopIs
  <1>2. u.boffset \in Nat
    BY <1>1 DEF Typed, Desc
  <1>3. View(x, d) = Patch(d, u.boffset, u.buf, 0)
    BY DEF View
  <1> HIDE DEF u
  <1> QED BY <1>2, <1>3, PatchNothing

LEMMA ViewSeek ==
  ASSUME NEW x, NEW d, Good(x, d), NEW off \in Nat \ {0}
  PROVE  View(LSEEK(x, off), d) = View(x, d)
  <1> DEFINE y == LSEEK(x, off)  u == UpdateIop(x)
  <1>1. SameBuffer(y, x) /\ y.otop = u.otop /\ UpdateIop(y) = y
    BY SeekGood
  <1>2. SameBuffer(u, x)
    BY UpdateIopIs DEF Good
  <1>3. y.boffset = u.boffset /\ y.buf = u.buf
    BY <1>1, <1>2 DEF SameBuffer
  <1> QED BY <1>1, <1>3 DEF View

-----------------------------------------------------------------------------
(* Flushing.                                                               *)

SetWrote(x, n) == [x EXCEPT !.filsize = n, !.otop = 0]

LEMMA SetWroteIs ==
  ASSUME NEW x, Typed(x), NEW n \in Nat
  PROVE  LET y == SetWrote(x, n)
         IN  /\ Typed(y) /\ SameBuffer(y, x) /\ y.iop = x.iop /\ y.itop = x.itop
             /\ y.otop = 0 /\ y.filsize = n
  <1> DEFINE y == SetWrote(x, n)
  <1>1. y \in Desc
    BY DEF Typed, Desc, SetWrote
  <1>2. /\ y.alloc = x.alloc /\ y.bufsize = x.bufsize /\ y.buf = x.buf
        /\ y.boffset = x.boffset /\ y.iop = x.iop /\ y.itop = x.itop
        /\ y.otop = 0 /\ y.filsize = n
    BY DEF Typed, Desc, SetWrote
  <1>3. x.bufsize \in Nat
    BY DEF Typed, Desc
  <1> QED BY <1>1, <1>2, <1>3 DEF Typed, SameBuffer

LEMMA WroteIs ==
  ASSUME NEW x, Typed(x)
  PROVE  LET y == Wrote(x)
         IN  /\ Typed(y) /\ SameBuffer(y, x) /\ y.iop = x.iop /\ y.itop = x.itop
             /\ y.otop = 0 /\ y.filsize = Higher(x.filsize, x.boffset - 1 + x.otop)
  <1>1. PICK n \in Nat : n = Higher(x.filsize, x.boffset - 1 + x.otop)
    BY DEF Typed, Desc, Higher
  <1>2. Wrote(x) = SetWrote(x, n)
    BY <1>1 DEF Wrote, SetWrote
  <1>3. /\ Typed(SetWrote(x, n)) /\ SameBuffer(SetWrote(x, n), x)
        /\ SetWrote(x, n).iop = x.iop /\ SetWrote(x, n).itop = x.itop
        /\ SetWrote(x, n).otop = 0 /\ SetWrote(x, n).filsize = n
    BY SetWroteIs
  <1> QED BY <1>1, <1>2, <1>3

LEMMA FlushGood ==
  ASSUME NEW d \in Seq(Chars), NEW x, Good(x, d), ~FlushFails(x)
  PROVE  /\ FlushedDisk(x, d) = View(x, d) /\ FlushedDisk(x, d) \in Seq(Chars)
         /\ Good(Flushed(x), View(x, d))
         /\ SameBuffer(Flushed(x), x) /\ Flushed(x).iop = x.iop
         /\ Flushed(x).otop = 0 /\ Flushed(x).filsize >= x.filsize
         /\ x.filsize <= Len(View(x, d)) => Flushed(x).filsize <= Len(View(x, d))
         /\ View(Flushed(x), View(x, d)) = View(x, d)
  <1> DEFINE u == UpdateIop(x)  y == Flushed(x)  v == View(x, d)
  <1>1. Typed(x) /\ Typed(u) /\ Placed(u) /\ SameBuffer(u, x) /\ UpdateIop(u) = u
        /\ Good(u, d) /\ u.iop = x.iop /\ u.filsize = x.filsize
    BY UpdateIopGood, UpdateIopIs DEF Good
  <1>2. u.otop \in Nat /\ u.otop \in {0, u.itop} /\ (u.otop = 0 => u = x)
    BY <1>1, UpdateIopOtop DEF Good, Typed, Desc
  <1>3. CASE u.otop = 0
    <2>1. v = d
      BY <1>1, <1>3, ViewClean
    <2>2. y = x /\ FlushedDisk(x, d) = d
      BY <1>2, <1>3 DEF Flushed, FlushedDisk, Modified
    <2> QED BY <1>1, <1>2, <1>3, <2>1, <2>2 DEF SameBuffer, Typed, Desc
  <1>4. CASE u.otop > 0
    <2>1. x.boffset >= 1 /\ x.boffset \in Nat
      BY <1>1, <1>4 DEF FlushFails, Modified, Writable, SameBuffer, Typed, Desc
    <2>2. ViewAt(x, d, v)
      BY <2>1, ViewIs DEF Valid
    <2>3. FlushedDisk(x, d) = v
      BY <1>4 DEF FlushedDisk, Modified, DiskAfter, View
    <2>4. y = Wrote(u)
      BY <1>4 DEF Flushed, Modified
    <2>5. Typed(y) /\ SameBuffer(y, u) /\ y.iop = u.iop /\ y.itop = u.itop
          /\ y.otop = 0 /\ y.filsize = Higher(u.filsize, u.boffset - 1 + u.otop)
      <3> HIDE DEF u, y
      <3> QED BY <1>1, <2>4, WroteIs
    <2>6. SameBuffer(y, x) /\ y.iop = x.iop /\ y.filsize >= x.filsize
      BY <1>1, <2>5 DEF SameBuffer, Typed, Desc, Higher
    <2>7. UpdateIop(y) = y
      BY <2>5, UpdateIopDone DEF Typed, Desc
    <2>8. View(y, v) = v
      BY <2>2, <2>5, <2>7, ViewClean DEF ViewAt
    <2>9. y.filsize >= Len(v)
      <3>1. Len(d) \in Nat /\ Len(v) = Higher(Len(d), x.boffset + u.otop - 1)
        BY <1>4, <2>2, LenProperties DEF ViewAt
      <3>2. u.filsize \in Nat /\ u.filsize >= Len(d) /\ u.boffset = x.boffset
        BY <1>1 DEF Good, Typed, Desc, SameBuffer
      <3> HIDE DEF u, y, v
      <3> QED BY <1>2, <2>1, <2>5, <3>1, <3>2 DEF Higher
    <2>10. Clean(y, v)
      <3> SUFFICES ASSUME NEW k \in 0..u.otop - 1
                   PROVE  x.boffset + k \in 1..Len(v) /\ x.buf[k] = v[x.boffset + k]
        BY <1>2, <1>4, <2>5, <2>6 DEF Clean, SameBuffer
      <3>1. Len(d) \in Nat /\ Len(v) = Higher(Len(d), x.boffset + u.otop - 1)
        BY <1>4, <2>2, LenProperties DEF ViewAt
      <3>2. x.boffset + k \in 1..Len(v)
        BY <1>2, <2>1, <3>1 DEF Higher
      <3>3. PICK j \in 1..Len(v) : j = x.boffset + k
        BY <3>2
      <3>4. j \in x.boffset..x.boffset + u.otop - 1 /\ j - x.boffset = k
        BY <1>2, <2>1, <3>3
      <3>5. v[j] = x.buf[j - x.boffset]
        BY <2>2, <3>4 DEF ViewAt
      <3> QED BY <3>2, <3>3, <3>4, <3>5
    <2>11. Covers(y, v)
      <3>1. u.itop = x.bufsize \/ x.boffset + u.itop > Len(d)
        BY <1>1, <1>4, <2>1 DEF Good, Covers, Placed, SameBuffer
      <3>2. Len(d) \in Nat /\ Len(v) = Higher(Len(d), x.boffset + u.otop - 1)
        BY <1>4, <2>2, LenProperties DEF ViewAt
      <3> QED BY <1>2, <1>4, <2>1, <2>5, <2>6, <2>7, <3>1, <3>2
              DEF Covers, SameBuffer, Higher
    <2>12. Placed(y)
      BY <1>1, <2>1, <2>5, <2>6 DEF Placed, SameBuffer, LNOTE
    <2>13. x.filsize <= Len(v) => y.filsize <= Len(v)
      <3>1. Len(d) \in Nat /\ Len(v) = Higher(Len(d), x.boffset + u.otop - 1)
        BY <1>4, <2>2, LenProperties DEF ViewAt
      <3>2. u.filsize \in Nat /\ u.boffset = x.boffset
        BY <1>1 DEF Typed, Desc, SameBuffer
      <3> HIDE DEF u, y, v
      <3> QED BY <1>1, <1>2, <2>1, <2>5, <3>1, <3>2 DEF Higher
    <2> QED BY <2>2, <2>3, <2>5, <2>6, <2>8, <2>9, <2>10, <2>11, <2>12, <2>13
            DEF Good, ViewAt
  <1> QED BY <1>2, <1>3, <1>4

-----------------------------------------------------------------------------
(* A buffer is made and given back.                                        *)

\* The buffer is made of whole blocks of the device.
RoundedUp(n) == ((n + BLKSIZE - 1) \div BLKSIZE) * BLKSIZE

LEMMA RoundedUpIs ==
  ASSUME NEW n \in Nat \ {0}
  PROVE  RoundedUp(n) \in Nat \ {0} /\ RoundedUp(n) % BLKSIZE = 0
  <1>1. PICK b \in Nat \ {0} : b = BLKSIZE
    BY BufferAssumption
  <1>2. PICK a \in Nat : a = n + b - 1
    BY <1>1
  <1>3. PICK q \in Nat : q = a \div b /\ a < q * b + b
    BY DivBounds
  <1>4. q * b \in Nat /\ q * b >= n
    BY <1>2, <1>3
  <1>5. (q * b) % b = 0
    BY Multiple
  <1> QED BY <1>1, <1>2, <1>3, <1>4, <1>5 DEF RoundedUp

LEMMA MakeBufferIs ==
  ASSUME NEW x, Typed(x), ~x.alloc
  PROVE  LET y == MakeBuffer(x)
         IN  /\ Typed(y) /\ y.alloc /\ y.bufsize = RoundedUp(x.bufsize) /\ y.boffset = 0
             /\ y.iop = LNOTE(x) /\ y.itop = 0 /\ y.otop = 0 /\ y.filsize = x.filsize
  <1> DEFINE y == MakeBuffer(x)
             size == RoundedUp(x.bufsize)
  <1>1. y = [x EXCEPT !.alloc = TRUE, !.bufsize = size, !.buf = Block(size),
                      !.boffset = 0, !.iop = LNOTE(x), !.itop = 0, !.otop = 0]
    BY DEF MakeBuffer, RoundedUp
  <1>2. size \in Nat \ {0}
    BY RoundedUpIs DEF Typed, Desc
  <1>3. LNOTE(x) \in Int
    BY DEF LNOTE, Typed, Desc
  <1> HIDE DEF size, y
  <1>4. Block(size) \in [0..size - 1 -> Chars]
    BY <1>2 DEF Block, Chars
  <1>5. Block(size) \in UNION {[0..n - 1 -> Chars] : n \in Nat}
    BY <1>2, <1>4
  <1>6. y \in Desc
    BY <1>1, <1>2, <1>3, <1>5 DEF Typed, Desc
  <1>7. /\ y.alloc = TRUE /\ y.bufsize = size /\ y.buf = Block(size) /\ y.boffset = 0
        /\ y.iop = LNOTE(x) /\ y.itop = 0 /\ y.otop = 0 /\ y.filsize = x.filsize
    BY <1>1 DEF Typed, Desc
  <1> QED BY <1>2, <1>4, <1>6, <1>7 DEF Typed, y, size

LEMMA MakeBufferGood ==
  ASSUME NEW d \in Seq(Chars), NEW x, Good(x, d)
  PROVE  /\ Good(MakeBuffer(x), d) /\ MakeBuffer(x).alloc
         /\ LNOTE(MakeBuffer(x)) = LNOTE(x) /\ MakeBuffer(x).filsize = x.filsize
         /\ View(MakeBuffer(x), d) = View(x, d)
         /\ x.alloc => MakeBuffer(x) = x
         /\ ~x.alloc => UpdateIop(MakeBuffer(x)).otop = 0 /\ UpdateIop(x).otop = 0
  <1> DEFINE y == MakeBuffer(x)
  <1>1. CASE x.alloc
    BY <1>1 DEF MakeBuffer
  <1>2. CASE ~x.alloc
    <2>1. /\ Typed(y) /\ y.alloc /\ y.bufsize = RoundedUp(x.bufsize) /\ y.boffset = 0
          /\ y.iop = LNOTE(x) /\ y.itop = 0 /\ y.otop = 0 /\ y.filsize = x.filsize
      BY <1>2, MakeBufferIs DEF Good
    <2>2. x.otop = 0 /\ Typed(x) /\ x.bufsize \in Nat \ {0} /\ LNOTE(x) \in Nat \ {0}
      BY <1>2 DEF Good, Placed, Typed, Desc, LNOTE
    <2>3. y.bufsize % BLKSIZE = 0 /\ y.bufsize > 0
      BY <2>1, <2>2, RoundedUpIs
    <2> HIDE DEF y
    <2>4. UpdateIop(y) = y /\ UpdateIop(x) = x
      BY <1>2, <2>1, <2>2, <2>3, UpdateIopDone
    <2>5. LNOTE(y) = LNOTE(x)
      BY <2>1, <2>2 DEF LNOTE
    <2>6. Good(y, d)
      BY <2>1, <2>2, <2>3, <2>5 DEF Good, Placed, Clean, Covers
    <2>7. View(y, d) = d /\ View(x, d) = d
      BY <2>1, <2>2, <2>4, ViewClean
    <2> QED BY <1>2, <2>1, <2>2, <2>4, <2>5, <2>6, <2>7 DEF y
  <1> QED BY <1>1, <1>2

LEMMA ReturnBufferGood ==
  ASSUME NEW d \in Seq(Chars), NEW x, Good(x, d), x.otop = 0, NEW size \in Nat \ {0}
  PROVE  LET y == [ReturnBuffer(x) EXCEPT !.bufsize = size]
         IN  /\ Good(y, d) /\ LNOTE(y) = LNOTE(x) /\ View(y, d) = d
             /\ y.filsize = x.filsize /\ ~y.alloc /\ y.otop = 0
  <1> DEFINE r == ReturnBuffer(x)  y == [r EXCEPT !.bufsize = size]
  <1>1. Typed(x) /\ Placed(x) /\ LNOTE(x) \in Int
    BY DEF Good, Typed, Desc, LNOTE
  <1>2. r \in Desc /\ ~r.alloc /\ r.buf = Block(0) /\ r.itop = 0 /\ r.otop = 0
        /\ r.boffset + r.iop = LNOTE(x) /\ r.filsize = x.filsize
    <2>1. CASE x.alloc
      <3>1. r = [x EXCEPT !.alloc = FALSE, !.buf = Block(0), !.boffset = 0,
                          !.iop = LNOTE(x), !.itop = 0, !.otop = 0]
        BY <2>1 DEF ReturnBuffer
      <3>2. Block(0) \in [0..0 - 1 -> Chars]
        BY DEF Block
      <3>3. Block(0) \in UNION {[0..n - 1 -> Chars] : n \in Nat}
        BY <3>2
      <3> HIDE DEF r
      <3>4. r \in Desc
        BY <1>1, <3>1, <3>3 DEF Typed, Desc
      <3>5. /\ r.alloc = FALSE /\ r.buf = Block(0) /\ r.boffset = 0 /\ r.iop = LNOTE(x)
            /\ r.itop = 0 /\ r.otop = 0 /\ r.filsize = x.filsize
        BY <1>1, <3>1 DEF Typed, Desc
      <3> QED BY <1>1, <3>4, <3>5
    <2>2. CASE ~x.alloc
      <3>1. r = x /\ x.itop = 0 /\ x.otop = 0
        BY <1>1, <2>2 DEF ReturnBuffer, Placed
      <3>2. x.buf \in [0..0 - 1 -> Chars]
        BY <1>1, <2>2 DEF Typed
      <3>3. x.buf = Block(0)
        BY <3>2 DEF Block
      <3> QED BY <1>1, <2>2, <3>1, <3>3 DEF Typed, LNOTE
    <2> QED BY <2>1, <2>2
  <1> HIDE DEF r
  <1>3. y \in Desc
    BY <1>2 DEF Desc
  <1>4. /\ y.alloc = r.alloc /\ y.buf = r.buf /\ y.boffset = r.boffset /\ y.iop = r.iop
        /\ y.itop = r.itop /\ y.otop = r.otop /\ y.filsize = r.filsize /\ y.bufsize = size
    BY <1>2 DEF Desc
  <1> HIDE DEF y
  <1>5. Typed(y)
    BY <1>2, <1>3, <1>4 DEF Typed, Block
  <1>6. UpdateIop(y) = y
    BY <1>2, <1>4, <1>5, UpdateIopDone
  <1>7. LNOTE(y) = LNOTE(x)
    BY <1>2, <1>4 DEF LNOTE
  <1>8. Placed(y)
    BY <1>1, <1>2, <1>4, <1>7 DEF Placed
  <1>9. Clean(y, d) /\ Covers(y, d)
    BY <1>2, <1>4 DEF Clean, Covers
  <1>10. View(y, d) = d
    BY <1>2, <1>4, <1>5, <1>6, ViewClean
  <1>11. y.filsize >= Len(d)
    BY <1>2, <1>4 DEF Good
  <1> QED BY <1>2, <1>4, <1>5, <1>7, <1>8, <1>9, <1>10, <1>11 DEF Good, y, r

-----------------------------------------------------------------------------
(* FILSIZE.                                                                *)

SetFilsize(x, n) == [x EXCEPT !.filsize = n]

LEMMA SetFilsizeIs ==
  ASSUME NEW x, Typed(x), NEW n \in Nat
  PROVE  LET y == SetFilsize(x, n)
         IN  /\ Typed(y) /\ SameBuffer(y, x) /\ y.iop = x.iop /\ y.itop = x.itop
             /\ y.otop = x.otop /\ y.filsize = n
  <1> DEFINE y == SetFilsize(x, n)
  <1>1. y \in Desc
    BY DEF Typed, Desc, SetFilsize
  <1>2. /\ y.alloc = x.alloc /\ y.bufsize = x.bufsize /\ y.buf = x.buf
        /\ y.boffset = x.boffset /\ y.iop = x.iop /\ y.itop = x.itop
        /\ y.otop = x.otop /\ y.filsize = n
    BY DEF Typed, Desc, SetFilsize
  <1> QED BY <1>1, <1>2 DEF Typed, SameBuffer

LEMMA FilszGood ==
  ASSUME NEW d \in Seq(Chars), NEW x, Good(x, d)
  PROVE  /\ Good(Filsz(x), d)
         /\ SameBuffer(Filsz(x), x) /\ UpdateIop(Filsz(x)) = Filsz(x)
         /\ Filsz(x).otop = UpdateIop(x).otop
         /\ Filsz(x).filsize = IF UpdateIop(x).otop > 0
                               THEN Higher(x.filsize, x.boffset - 1 + UpdateIop(x).otop)
                               ELSE x.filsize
  <1> DEFINE u == UpdateIop(x)  y == Filsz(x)
             n == IF u.otop > 0 THEN Higher(u.filsize, u.boffset - 1 + u.itop) ELSE u.filsize
  <1>1. Good(u, d) /\ UpdateIop(u) = u /\ SameBuffer(u, x) /\ u.filsize = x.filsize
    BY UpdateIopGood, UpdateIopIs DEF Good
  <1>2. u.otop \in Nat /\ u.otop \in {0, u.itop}
    BY <1>1, UpdateIopOtop DEF Good, Typed, Desc
  <1>3. y = SetFilsize(u, n)
    BY DEF Filsz, Modified, SetFilsize
  <1>4. n \in Nat /\ n >= u.filsize
    BY <1>1, SMTT(30) DEF Higher, Good, Typed, Desc
  <1>5. /\ Typed(y) /\ SameBuffer(y, u) /\ y.iop = u.iop /\ y.itop = u.itop
        /\ y.otop = u.otop /\ y.filsize = n
    <2>1. PICK m \in Nat : m = n
      BY <1>4
    <2>2. y = SetFilsize(u, m)
      BY <1>3, <2>1
    <2> HIDE DEF n, u, y
    <2> QED BY <1>1, <2>1, <2>2, SetFilsizeIs DEF Good
  <1>6. u.alloc /\ u.otop = u.bufsize => u.itop = u.bufsize
    BY <1>1, <1>2 DEF Good, Typed, Desc
  <1> HIDE DEF n, y
  <1>7. UpdateIop(y) = y
    BY <1>5, <1>6, UpdateIopDone DEF SameBuffer
  <1>8. Placed(y)
    <2> HIDE DEF u
    <2> QED BY <1>1, <1>5 DEF Good, Placed, SameBuffer, LNOTE
  <1>9. Clean(y, d) /\ Covers(y, d)
    <2> HIDE DEF u
    <2> QED BY <1>1, <1>5, <1>7 DEF Good, Clean, Covers, SameBuffer
  <1>10. y.filsize >= Len(d)
    <2>1. u.filsize \in Nat /\ u.filsize >= Len(d) /\ Len(d) \in Nat
      BY <1>1, LenProperties DEF Good, Typed, Desc
    <2> QED BY <1>4, <1>5, <2>1
  <1>11. y.filsize = IF u.otop > 0 THEN Higher(x.filsize, x.boffset - 1 + u.otop)
                     ELSE x.filsize
    BY <1>1, <1>2, <1>5 DEF n, SameBuffer
  <1> QED BY <1>1, <1>5, <1>7, <1>8, <1>9, <1>10, <1>11 DEF Good, y, SameBuffer

-----------------------------------------------------------------------------
(* The file fault.                                                         *)

\* The block of an offset begins on a block of the device, and the offset is in it.
LEMMA BlockOfIs ==
  ASSUME NEW x, Typed(x), x.alloc, x.bufsize % BLKSIZE = 0, NEW off \in Nat \ {0}
  PROVE  /\ BlockOf(x, off) \in Nat \ {0}
         /\ BlockOf(x, off) <= off /\ off < BlockOf(x, off) + x.bufsize
         /\ (BlockOf(x, off) - 1) % BLKSIZE = 0
  <1>1. PICK s \in Nat \ {0} : s = x.bufsize
    BY DEF Typed, Desc
  <1>2. PICK b \in Nat \ {0} : b = BLKSIZE
    BY BufferAssumption
  <1>3. PICK k \in Nat : s = k * b
    BY <1>1, <1>2, Quotient
  <1>4. PICK a \in Nat : a = off - 1
    OBVIOUS
  <1>5. PICK q \in Nat : q = a \div s /\ q * s <= a /\ a < q * s + s
    BY DivBounds
  <1>6. q * s \in Nat /\ BlockOf(x, off) = q * s + 1
    BY <1>1, <1>4, <1>5 DEF BlockOf
  <1>7. q * s = (q * k) * b
    BY <1>3
  <1>8. q * k \in Nat
    OBVIOUS
  <1>9. ((q * k) * b) % b = 0
    BY <1>8, Multiple
  <1> QED BY <1>1, <1>2, <1>4, <1>5, <1>6, <1>7, <1>9

\* The buffer x over the block at o.
PutAt(x, b, n, o) == [x EXCEPT !.buf = b, !.itop = n, !.otop = 0, !.boffset = o]

LEMMA PutAtIs ==
  ASSUME NEW x, Typed(x), NEW b \in [DOMAIN x.buf -> Chars], NEW n \in Nat, n <= x.bufsize,
         NEW o \in Nat
  PROVE  LET y == PutAt(x, b, n, o)
         IN  /\ Typed(y) /\ y.alloc = x.alloc /\ y.bufsize = x.bufsize /\ y.buf = b
             /\ y.boffset = o /\ y.iop = x.iop /\ y.itop = n /\ y.otop = 0
             /\ y.filsize = x.filsize
  <1> DEFINE y == PutAt(x, b, n, o)
             size == IF x.alloc THEN x.bufsize ELSE 0
  <1>1. size \in Nat /\ DOMAIN x.buf = 0..size - 1
    BY DEF Typed, Desc
  <1>2. b \in [0..size - 1 -> Chars]
    BY <1>1
  <1>3. b \in UNION {[0..m - 1 -> Chars] : m \in Nat}
    BY <1>1, <1>2
  <1> HIDE DEF size
  <1>4. y \in Desc
    BY <1>3 DEF Typed, Desc, PutAt
  <1>5. /\ y.alloc = x.alloc /\ y.bufsize = x.bufsize /\ y.buf = b
        /\ y.boffset = o /\ y.iop = x.iop /\ y.itop = n /\ y.otop = 0
        /\ y.filsize = x.filsize
    BY DEF Typed, Desc, PutAt
  <1>6. x.bufsize \in Nat
    BY DEF Typed, Desc
  <1> HIDE DEF y
  <1>7. Typed(y)
    BY <1>2, <1>4, <1>5, <1>6 DEF Typed, size
  <1> QED BY <1>5, <1>7 DEF y

\* The block that the fault reads: what is on the device, as far as it goes.
LEMMA FoundIs ==
  ASSUME NEW d \in Seq(Chars), NEW x, Typed(x), NEW o \in Nat \ {0}, x.filsize >= Len(d)
  PROVE  /\ Found(d, o, x) \in Nat /\ Found(d, o, x) <= x.bufsize
         /\ Found(d, o, x) = 0 \/ o + Found(d, o, x) - 1 <= Len(d)
         /\ Found(d, o, x) = x.bufsize \/ o + Found(d, o, x) > Len(d)
  <1>1. Len(d) \in Nat /\ x.bufsize \in Nat \ {0} /\ x.filsize \in Nat
    BY LenProperties DEF Typed, Desc
  <1> QED BY <1>1 DEF Found, Higher, Lower

\* The buffer after a fault, before anything is copied: skip says that the block
\* was not read.
LEMMA FaultIs ==
  ASSUME NEW d \in Seq(Chars), NEW x, Good(x, d), x.alloc, ~FlushFails(x),
         NEW skip \in BOOLEAN
  PROVE  LET v == View(x, d)
             y == Fault(x, v, skip)
         IN  /\ Typed(y) /\ Placed(y) /\ UpdateIop(y) = y
             /\ y.alloc /\ y.bufsize = x.bufsize /\ y.boffset >= 1
             /\ y.boffset = BlockOf(x, LNOTE(x))
             /\ LNOTE(y) = LNOTE(x) /\ y.iop >= 0 /\ y.iop < y.bufsize
             /\ y.otop = 0 /\ y.filsize >= Len(v) /\ y.filsize >= x.filsize
             /\ v \in Seq(Chars) /\ y.filsize = Flushed(x).filsize
             /\ skip => y.itop = 0
             /\ ~skip => Good(y, v)
  <1> DEFINE v == View(x, d)  e == Flushed(x)
             off == LNOTE(x)  o == BlockOf(x, LNOTE(x))
             n == IF skip THEN 0 ELSE Found(v, o, e)
             b == IF skip THEN e.buf
                  ELSE [k \in DOMAIN e.buf |-> IF k < Found(v, o, e) THEN v[o + k] ELSE e.buf[k]]
             z == PutAt(e, b, n, o)
             y == Fault(x, v, skip)
  <1>1. /\ v \in Seq(Chars) /\ Good(e, v) /\ SameBuffer(e, x) /\ e.iop = x.iop
        /\ e.otop = 0 /\ e.filsize >= x.filsize
    BY FlushGood
  <1>2. /\ Typed(e) /\ Placed(e) /\ Typed(x) /\ Placed(x) /\ LNOTE(e) = LNOTE(x)
        /\ e.filsize >= Len(v)
    BY <1>1 DEF Good, LNOTE, SameBuffer
  <1>3. off \in Nat \ {0}
    <2>1. x.boffset \in Nat /\ x.iop \in Int
      BY <1>2 DEF Typed, Desc
    <2>2. LNOTE(x) >= 1
      BY <1>2 DEF Placed
    <2> QED BY <2>1, <2>2 DEF LNOTE
  <1>4. o \in Nat \ {0} /\ o <= off /\ off < o + x.bufsize /\ (o - 1) % BLKSIZE = 0
    BY <1>2, <1>3, BlockOfIs DEF Placed
  <1>5. n \in Nat /\ n <= e.bufsize /\ (~skip => n = 0 \/ o + n - 1 <= Len(v))
        /\ (~skip => n = e.bufsize \/ o + n > Len(v)) /\ (skip => n = 0)
    <2>1. CASE skip
      BY <1>2, <2>1 DEF Typed, Desc
    <2>2. CASE ~skip
      <3> HIDE DEF v, e, o
      <3> QED BY <1>1, <1>2, <1>4, <2>2, FoundIs
    <2> QED BY <2>1, <2>2
  <1>6. e.buf \in [0..e.bufsize - 1 -> Chars] /\ e.bufsize \in Nat \ {0}
    BY <1>1, <1>2 DEF Typed, Desc, SameBuffer
  <1>7. b \in [DOMAIN e.buf -> Chars] /\ \A k \in 0..n - 1 : ~skip => b[k] = v[o + k]
    <2>1. CASE skip
      BY <1>6, <2>1
    <2>2. CASE ~skip
      <3>1. n = Found(v, o, e) /\ DOMAIN e.buf = 0..e.bufsize - 1
        BY <1>6, <2>2
      <3>2. b = [k \in 0..e.bufsize - 1 |-> IF k < n THEN v[o + k] ELSE e.buf[k]]
        BY <2>2, <3>1
      <3>3. \A k \in 0..n - 1 : v[o + k] \in Chars
        <4> SUFFICES ASSUME NEW k \in 0..n - 1
                     PROVE  v[o + k] \in Chars
          OBVIOUS
        <4> HIDE DEF n, o, v, e
        <4>1. Len(v) \in Nat
          BY <1>1, LenProperties
        <4>2. o + k \in 1..Len(v)
          BY <1>4, <1>5, <2>2, <4>1
        <4> QED BY <1>1, <4>2, ElementOfSeq
      <3> HIDE DEF n, o, v, e, b
      <3> QED BY <1>5, <1>6, <3>1, <3>2, <3>3
    <2> QED BY <2>1, <2>2
  <1>8. /\ Typed(z) /\ z.alloc = e.alloc /\ z.bufsize = e.bufsize /\ z.buf = b
        /\ z.boffset = o /\ z.iop = e.iop /\ z.itop = n /\ z.otop = 0
        /\ z.filsize = e.filsize
    <2> HIDE DEF e, b, n, o
    <2> QED BY <1>2, <1>4, <1>5, <1>7, PutAtIs
  <1>9. y = LSEEK(z, off)
    <2>1. CASE ~skip
      BY <2>1 DEF Fault, Filled, PutAt
    <2>2. CASE skip
      <3>1. y = LSEEK([e EXCEPT !.itop = 0, !.boffset = o], off)
        BY <2>2 DEF Fault
      <3>2. z = [e EXCEPT !.buf = e.buf, !.itop = 0, !.otop = 0, !.boffset = o]
        BY <2>2 DEF PutAt
      <3>3. [e EXCEPT !.itop = 0, !.boffset = o]
              = [e EXCEPT !.buf = e.buf, !.itop = 0, !.otop = 0, !.boffset = o]
        <4> HIDE DEF e, o
        <4> QED BY <1>1, <1>2 DEF Typed, Desc
      <3> QED BY <3>1, <3>2, <3>3
    <2> QED BY <2>1, <2>2
  <1>10. UpdateIop(z) = z
    <2> HIDE DEF z, e
    <2> QED BY <1>6, <1>8, UpdateIopDone
  <1>11. y = SetIop(z, off - o)
    BY <1>8, <1>9, <1>10 DEF LSEEK, SetIop
  <1>12. /\ Typed(y) /\ SameBuffer(y, z) /\ y.iop = off - o /\ y.itop = n /\ y.otop = 0
         /\ y.filsize = e.filsize
    <2>1. off - o \in Int
      BY <1>3, <1>4
    <2> HIDE DEF y, z, off, o
    <2> QED BY <1>8, <1>11, <2>1, SetIopIs
  <1> HIDE DEF y, z, e, o, n, b, v, off
  <1>13. y.alloc /\ y.bufsize = x.bufsize /\ y.boffset = o
    BY <1>1, <1>8, <1>12 DEF SameBuffer
  <1>14. UpdateIop(y) = y
    BY <1>1, <1>6, <1>12, <1>13, UpdateIopDone DEF SameBuffer
  <1>15. LNOTE(y) = off /\ y.iop >= 0 /\ y.iop < y.bufsize
    BY <1>1, <1>3, <1>4, <1>6, <1>12, <1>13 DEF LNOTE, SameBuffer
  <1>16. Placed(y)
    BY <1>2, <1>3, <1>4, <1>12, <1>13, <1>15 DEF Placed
  <1>17. ASSUME ~skip PROVE Good(y, v)
    <2>1. Clean(y, v)
      <3>1. Len(v) \in Nat
        BY <1>1, LenProperties
      <3>2. y.buf = b
        BY <1>8, <1>12 DEF SameBuffer
      <3> QED BY <1>4, <1>5, <1>7, <1>12, <1>13, <1>17, <3>1, <3>2 DEF Clean
    <2>2. Covers(y, v)
      BY <1>1, <1>5, <1>12, <1>13, <1>14, <1>17 DEF Covers, SameBuffer
    <2> QED BY <1>2, <1>12, <1>16, <2>1, <2>2 DEF Good
  <1>18. y.itop = 0 \/ ~skip
    BY <1>5, <1>12
  <1> QED BY <1>1, <1>2, <1>4, <1>12, <1>13, <1>14, <1>15, <1>16, <1>17, <1>18
          DEF v, y, o, off, e

-----------------------------------------------------------------------------
(* Copying into the buffer.                                                *)

\* The descriptor x when the n chars of s have been copied into its buffer.
Copied(x, n, s) ==
    [x EXCEPT !.iop = @ + n,
              !.buf = [k \in DOMAIN @ |->
                        IF k \in x.iop..x.iop + n - 1 THEN s[k - x.iop + 1] ELSE @[k]]]

LEMMA CopiedIs ==
  ASSUME NEW x, Typed(x), x.alloc, x.iop >= 0, NEW n \in Nat \ {0}, x.iop + n <= x.bufsize,
         NEW s \in [1..n -> Char]
  PROVE  LET y == Copied(x, n, s)
         IN  /\ Typed(y) /\ y.alloc /\ y.bufsize = x.bufsize /\ y.boffset = x.boffset
             /\ y.iop = x.iop + n /\ y.itop = x.itop /\ y.otop = x.otop
             /\ y.filsize = x.filsize
             /\ \A k \in 0..x.bufsize - 1 :
                  y.buf[k] = IF k \in x.iop..x.iop + n - 1 THEN s[k - x.iop + 1] ELSE x.buf[k]
  <1> DEFINE y == Copied(x, n, s)
             b == [k \in 0..x.bufsize - 1 |->
                     IF k \in x.iop..x.iop + n - 1 THEN s[k - x.iop + 1] ELSE x.buf[k]]
  <1>1. /\ x.buf \in [0..x.bufsize - 1 -> Chars] /\ x.bufsize \in Nat \ {0} /\ x.iop \in Nat
        /\ x \in Desc
    BY DEF Typed, Desc
  <1>2. b \in [0..x.bufsize - 1 -> Chars]
    <2> SUFFICES ASSUME NEW k \in 0..x.bufsize - 1
                 PROVE  b[k] \in Chars
      OBVIOUS
    <2>1. CASE k \in x.iop..x.iop + n - 1
      <3>1. k - x.iop + 1 \in 1..n
        BY <1>1, <2>1
      <3>2. s[k - x.iop + 1] \in Char
        BY <3>1
      <3> QED BY <2>1, <3>2 DEF Chars
    <2>2. CASE k \notin x.iop..x.iop + n - 1
      BY <1>1, <2>2
    <2> QED BY <2>1, <2>2
  <1>3. b \in UNION {[0..m - 1 -> Chars] : m \in Nat}
    BY <1>1, <1>2
  <1>4. y = [x EXCEPT !.iop = x.iop + n, !.buf = b]
    <2>1. DOMAIN x.buf = 0..x.bufsize - 1
      BY <1>1
    <2>2. y = [x EXCEPT !.iop = x.iop + n,
                        !.buf = [k \in DOMAIN x.buf |->
                          IF k \in x.iop..x.iop + n - 1 THEN s[k - x.iop + 1] ELSE x.buf[k]]]
      BY <1>1 DEF Copied, Desc
    <2> QED BY <2>1, <2>2
  <1> HIDE DEF b, y
  <1>5. y \in Desc
    <2>1. PICK i \in Int : i = x.iop + n
      BY <1>1
    <2>2. y = [x EXCEPT !.iop = i, !.buf = b]
      BY <1>4, <2>1
    <2> QED BY <1>1, <1>3, <2>2 DEF Desc
  <1>6. /\ y.alloc = x.alloc /\ y.bufsize = x.bufsize /\ y.boffset = x.boffset
        /\ y.iop = x.iop + n /\ y.itop = x.itop /\ y.otop = x.otop
        /\ y.filsize = x.filsize /\ y.buf = b
    BY <1>1, <1>4 DEF Desc
  <1>7. Typed(y)
    BY <1>2, <1>5, <1>6 DEF Typed
  <1>8. \A k \in 0..x.bufsize - 1 :
          b[k] = IF k \in x.iop..x.iop + n - 1 THEN s[k - x.iop + 1] ELSE x.buf[k]
    BY DEF b
  <1> QED BY <1>6, <1>7, <1>8 DEF y

\* Room for chars: there are some between iop and otop.
Roomy(x) ==
    /\ Typed(x) /\ x.alloc /\ x.iop >= 0 /\ x.iop < x.otop /\ x.otop \in {x.itop, x.bufsize}
    /\ LNOTE(x) >= 1 /\ x.bufsize % BLKSIZE = 0
    /\ x.boffset >= 1 => (x.boffset - 1) % BLKSIZE = 0

LEMMA CopiedGood ==
  ASSUME NEW d \in Seq(Chars), NEW x, Roomy(x), x.filsize >= Len(d),
         NEW n \in Nat \ {0}, x.iop + n <= x.otop, NEW s \in [1..n -> Char],
         Covers(x, d) \/ (x.iop = 0 /\ n = x.bufsize)
  PROVE  LET y == Copied(x, n, s)
         IN  Good(y, d) /\ LNOTE(y) = LNOTE(x) + n /\ y.otop = x.otop
  <1> DEFINE y == Copied(x, n, s)
  <1>1. /\ Typed(x) /\ x.alloc /\ x.otop \in Nat /\ x.itop \in Nat /\ x.iop \in Nat
        /\ x.bufsize \in Nat \ {0} /\ x.otop <= x.bufsize /\ x.itop <= x.bufsize
        /\ x.boffset \in Nat
    BY DEF Roomy, Typed, Desc
  <1>2. /\ Typed(y) /\ y.alloc /\ y.bufsize = x.bufsize /\ y.boffset = x.boffset
        /\ y.iop = x.iop + n /\ y.itop = x.itop /\ y.otop = x.otop /\ y.filsize = x.filsize
    BY <1>1, CopiedIs, SMTT(30) DEF Roomy
  <1> HIDE DEF y
  <1>3. LNOTE(y) = LNOTE(x) + n
    BY <1>1, <1>2 DEF LNOTE
  <1>4. Placed(y)
    BY <1>1, <1>2, <1>3 DEF Placed, Roomy, LNOTE
  <1>5. Clean(y, d)
    BY <1>1, <1>2 DEF Clean, Roomy
  <1>6. Covers(y, d)
    <2>1. CASE x.otop = x.bufsize
      <3>1. UpdateIop(x).itop = Top(x) /\ UpdateIop(y).itop = Top(y)
        BY <1>1, <1>2, <2>1, UpdateIopIs
      <3>2. Len(d) \in Nat
        BY LenProperties
      <3>3. Top(x) \in Nat /\ Top(y) \in Nat /\ Top(y) >= Top(x) /\ Top(y) <= x.bufsize
            /\ (x.iop + n = x.bufsize => Top(y) = x.bufsize)
        BY <1>1, <1>2 DEF Top, Lower, Higher
      <3> QED BY <1>1, <1>2, <3>1, <3>2, <3>3 DEF Covers
    <2>2. CASE x.otop # x.bufsize
      <3>1. UpdateIop(x) = x /\ UpdateIop(y) = y
        BY <1>1, <1>2, <2>2, UpdateIopIs
      <3>2. ~(n = x.bufsize)
        BY <1>1, <2>2
      <3> QED BY <1>1, <1>2, <3>1, <3>2 DEF Covers
    <2> QED BY <2>1, <2>2
  <1> QED BY <1>2, <1>3, <1>4, <1>5, <1>6 DEF Good, y

LEMMA MakeRoomIs ==
  ASSUME NEW x, Typed(x)
  PROVE  LET y == MakeRoom(x)
         IN  /\ Typed(y) /\ SameBuffer(y, x) /\ y.iop = x.iop /\ y.itop = x.itop
             /\ y.otop = x.bufsize /\ y.filsize = x.filsize
  <1> DEFINE y == MakeRoom(x)
  <1>1. y \in Desc
    BY DEF Typed, Desc, MakeRoom
  <1>2. /\ y.alloc = x.alloc /\ y.bufsize = x.bufsize /\ y.buf = x.buf
        /\ y.boffset = x.boffset /\ y.iop = x.iop /\ y.itop = x.itop
        /\ y.otop = x.bufsize /\ y.filsize = x.filsize
    BY DEF Typed, Desc, MakeRoom
  <1>3. x.bufsize \in Nat
    BY DEF Typed, Desc
  <1> QED BY <1>1, <1>2, <1>3 DEF Typed, SameBuffer

\* A buffer that holds the block is made writable to its end.
LEMMA MakeRoomRoomy ==
  ASSUME NEW x, NEW d \in Seq(Chars), Typed(x), Placed(x), InBlock(x)
  PROVE  LET y == MakeRoom(x)
         IN  /\ Roomy(y) /\ y.filsize = x.filsize /\ y.iop = x.iop
             /\ y.bufsize = x.bufsize /\ y.otop = x.bufsize
             /\ LNOTE(y) = LNOTE(x)
             /\ Covers(x, d) => Covers(y, d)
  <1> DEFINE y == MakeRoom(x)
  <1>1. /\ Typed(y) /\ SameBuffer(y, x) /\ y.iop = x.iop /\ y.itop = x.itop
        /\ y.otop = x.bufsize /\ y.filsize = x.filsize
    BY MakeRoomIs
  <1>2. x.alloc /\ x.iop >= 0 /\ x.iop < x.bufsize /\ x.otop < x.bufsize
    BY DEF InBlock
  <1>3. x.iop \in Nat /\ x.itop \in Nat /\ x.bufsize \in Nat /\ x.itop <= x.bufsize
        /\ x.boffset \in Nat /\ x.otop \in Nat
    BY <1>2 DEF Typed, Desc
  <1> HIDE DEF y
  <1>4. LNOTE(y) = LNOTE(x)
    BY <1>1 DEF LNOTE, SameBuffer
  <1>5. Roomy(y)
    BY <1>1, <1>2, <1>4 DEF Roomy, Placed, SameBuffer
  <1>6. ASSUME Covers(x, d) PROVE Covers(y, d)
    <2>1. UpdateIop(x) = x
      BY <1>2, <1>3, UpdateIopIs
    <2>2. UpdateIop(y).itop = Top(y)
      BY <1>1, <1>2, UpdateIopIs DEF SameBuffer
    <2>3. Top(y) \in Nat /\ Top(y) >= x.itop /\ Top(y) <= x.bufsize
      BY <1>1, <1>3 DEF Top, Lower, Higher, SameBuffer
    <2>4. Len(d) \in Nat
      BY LenProperties
    <2> QED BY <1>1, <1>2, <1>3, <1>6, <2>1, <2>2, <2>3, <2>4 DEF Covers, SameBuffer
  <1> QED BY <1>1, <1>4, <1>5, <1>6 DEF y, SameBuffer

-----------------------------------------------------------------------------
(* The inductive invariant.                                                *)

Calls == [op : {"none", "read", "write"}, left : 0..MaxXfer, done : 0..MaxXfer]

\* A transfer that is going on has chars left to transfer.
CallOK ==
    /\ call \in Calls
    /\ call.op # "none" => Live /\ call.left >= 1 /\ call.left + call.done <= MaxXfer

\* While the file is open its descriptor is good for what is on the device; a
\* file that was opened for reading has nothing to be written back.
IInv ==
    /\ mode \in Modes \cup {"closed"}
    /\ status \in {"ok", "bounds", "device", "permission"}
    /\ disk \in Seq(Chars) /\ out \in Seq(Chars \cup {EOF})
    /\ CallOK
    /\ mode = "closed" => status = "ok"
    /\ Live => Good(f, disk)
    /\ ~Live => f = NoFile
    /\ mode = "ro" => f.otop = 0

LEMMA NoFileIs ==
  /\ Typed(NoFile) /\ NoFile.alloc = FALSE /\ NoFile.otop = 0 /\ NoFile.itop = 0
  /\ NoFile.boffset = 1 /\ NoFile.iop = 0 /\ NoFile.bufsize = 1 /\ NoFile.filsize = 0
  <1>1. NoFile.buf \in [0..0 - 1 -> Chars]
    BY DEF NoFile, Block
  <1>2. NoFile.buf \in UNION {[0..n - 1 -> Chars] : n \in Nat}
    BY <1>1
  <1>3. NoFile \in Desc
    BY <1>2 DEF NoFile, Desc
  <1>4. /\ NoFile.alloc = FALSE /\ NoFile.otop = 0 /\ NoFile.itop = 0
        /\ NoFile.boffset = 1 /\ NoFile.iop = 0 /\ NoFile.bufsize = 1 /\ NoFile.filsize = 0
    BY DEF NoFile
  <1> QED BY <1>1, <1>3, <1>4 DEF Typed

\* A buffer that is not there is good for every file it may be put on.
LEMMA UnbufferedGood ==
  ASSUME NEW d \in Seq(Chars), NEW x, Typed(x), ~x.alloc, x.itop = 0, x.otop = 0,
         LNOTE(x) >= 1, x.filsize >= Len(d)
  PROVE  Good(x, d) /\ View(x, d) = d /\ UpdateIop(x) = x
  <1>1. UpdateIop(x) = x
    BY UpdateIopDone
  <1> QED BY <1>1, ViewClean DEF Good, Placed, Clean, Covers

\* The descriptor of a file that has just been opened.
SetOpened(x, size, n, pos) == [x EXCEPT !.bufsize = size, !.filsize = n, !.iop = pos]

LEMMA SetOpenedIs ==
  ASSUME NEW x, Typed(x), NEW size \in Nat \ {0}, NEW n \in Nat, NEW pos \in Nat,
         NEW y, y = SetOpened(x, size, n, pos)
  PROVE  /\ y \in Desc /\ y.alloc = x.alloc /\ y.buf = x.buf /\ y.boffset = x.boffset
         /\ y.itop = x.itop /\ y.otop = x.otop
         /\ y.bufsize = size /\ y.filsize = n /\ y.iop = pos
  <1>1. y \in Desc
    <2>1. PICK x1 : x1 = [x EXCEPT !.bufsize = size]
      OBVIOUS
    <2>2. x1 \in Desc
      BY <2>1 DEF Typed, Desc
    <2>3. PICK x2 : x2 = [x1 EXCEPT !.filsize = n]
      OBVIOUS
    <2>4. x2 \in Desc
      BY <2>2, <2>3 DEF Desc
    <2>5. y = [x2 EXCEPT !.iop = pos]
      BY <2>1, <2>3 DEF SetOpened
    <2> QED BY <2>4, <2>5 DEF Desc
  <1>2. /\ y.alloc = x.alloc /\ y.buf = x.buf /\ y.boffset = x.boffset
        /\ y.itop = x.itop /\ y.otop = x.otop
        /\ y.bufsize = size /\ y.filsize = n /\ y.iop = pos
    BY DEF SetOpened, Typed, Desc
  <1> QED BY <1>1, <1>2

\* What Open makes of a descriptor that is at pos already.
LEMMA SetOpenedThere ==
  ASSUME NEW x, Typed(x), NEW size \in Nat \ {0}, NEW n \in Nat, NEW y,
         y = [x EXCEPT !.bufsize = size, !.filsize = n]
  PROVE  y = SetOpened(x, size, n, x.iop)
  BY DEF SetOpened, Typed, Desc

LEMMA OpenedIs ==
  ASSUME NEW d \in Seq(Chars), NEW size \in Nat \ {0}, NEW pos \in {0, Len(d)},
         NEW y, y = SetOpened(NoFile, size, Len(d), pos)
  PROVE  /\ Good(y, d) /\ View(y, d) = d /\ LNOTE(y) = pos + 1
         /\ y.otop = 0 /\ y.filsize = Len(d) /\ ~y.alloc
  <1>0. PICK n \in Nat, i \in Nat : n = Len(d) /\ i = pos
    BY LenProperties
  <1>1. PICK x : n = Len(d) /\ i = pos /\ x = NoFile
    BY <1>0
  <1>2. Typed(x) /\ x.buf = Block(0) /\ y = SetOpened(x, size, n, i)
    BY <1>1, NoFileIs DEF NoFile
  <1>3. /\ y \in Desc /\ y.alloc = x.alloc /\ y.buf = x.buf /\ y.boffset = x.boffset
        /\ y.itop = x.itop /\ y.otop = x.otop
        /\ y.bufsize = size /\ y.filsize = n /\ y.iop = i
    BY <1>2, SetOpenedIs
  <1>4. /\ y.alloc = FALSE /\ y.otop = 0 /\ y.itop = 0 /\ y.boffset = 1
        /\ y.buf = Block(0)
    BY <1>1, <1>2, <1>3, NoFileIs
  <1>5. Typed(y)
    BY <1>3, <1>4 DEF Typed, Block
  <1>6. LNOTE(y) = i + 1
    BY <1>3, <1>4 DEF LNOTE
  <1>7. Good(y, d) /\ View(y, d) = d
    BY <1>1, <1>3, <1>4, <1>5, <1>6, UnbufferedGood
  <1> QED BY <1>1, <1>3, <1>4, <1>6, <1>7

LEMMA NoCallIs ==
  NoCall \in Calls /\ NoCall.op = "none"
  BY BufferAssumption DEF NoCall, Calls

LEMMA EmptyIsSeq ==
  << >> \in Seq(Chars) /\ << >> \in Seq(Chars \cup {EOF}) /\ <<EOF>> \in Seq(Chars \cup {EOF})
  <1>1. EOF \in Chars \cup {EOF}
    OBVIOUS
  <1>2. PICK S : S = Chars \cup {EOF} /\ EOF \in S
    BY <1>1
  <1>3. <<EOF>> \in Seq(S)
    BY <1>2
  <1> QED BY <1>2, <1>3, EmptySeq

LEMMA InitInv == Init => IInv
  <1> SUFFICES ASSUME Init
               PROVE  IInv
    OBVIOUS
  <1>1. mode = "closed" /\ status = "ok" /\ f = NoFile /\ ~Live
    BY DEF Init, Live
  <1>2. CallOK
    <2>1. call = NoCall
      BY DEF Init
    <2> QED BY <2>1, NoCallIs DEF CallOK
  <1>3. mode # "ro"
    BY <1>1
  <1>4. disk \in Seq(Chars) /\ out \in Seq(Chars \cup {EOF})
    BY EmptyIsSeq DEF Init
  <1> QED BY <1>1, <1>2, <1>3, <1>4 DEF IInv

LEMMA OpenInv ==
  ASSUME IInv, Open
  PROVE  IInv'
  <1>0. PICK m \in Modes, size \in BufSizes : \E d, n :
          /\ d = (IF m = "new" THEN << >> ELSE disk) /\ n = Len(d)
          /\ mode' = m /\ disk' = d
          /\ f' = IF m = "append"
                  THEN [[NoFile EXCEPT !.bufsize = size, !.filsize = n] EXCEPT !.iop = n]
                  ELSE [NoFile EXCEPT !.bufsize = size, !.filsize = n]
    BY DEF Open
  <1>1. PICK d, n :
          /\ d = (IF m = "new" THEN << >> ELSE disk) /\ n = Len(d)
          /\ mode' = m /\ disk' = d
          /\ f' = IF m = "append"
                  THEN [[NoFile EXCEPT !.bufsize = size, !.filsize = n] EXCEPT !.iop = n]
                  ELSE [NoFile EXCEPT !.bufsize = size, !.filsize = n]
    BY <1>0
  <1>2. d \in Seq(Chars) /\ disk' = d
    BY <1>1, EmptyIsSeq DEF IInv
  <1>3. PICK pos \in {0, Len(d)} : f' = SetOpened(NoFile, size, Len(d), pos)
    <2>1. CASE m = "append"
      <3>1. f' = SetOpened(NoFile, size, n, n)
        BY <1>1, <2>1 DEF SetOpened
      <3> QED BY <1>1, <3>1
    <2>2. CASE m # "append"
      <3>1. PICK x, y : x = NoFile /\ y = f' /\ y = [x EXCEPT !.bufsize = size, !.filsize = n]
        BY <1>1, <2>2
      <3>2. Typed(x) /\ x.iop = 0 /\ n \in Nat /\ size \in Nat \ {0}
        BY <1>1, <1>2, <3>1, NoFileIs, BufferAssumption, LenProperties
      <3>3. y = SetOpened(x, size, n, x.iop)
        BY <3>1, <3>2, SetOpenedThere
      <3> QED BY <1>1, <3>1, <3>2, <3>3
    <2> QED BY <2>1, <2>2
  <1>4. size \in Nat \ {0}
    BY BufferAssumption
  <1>5. Good(f', disk') /\ f'.otop = 0
    <2>1. PICK y : y = f'
      OBVIOUS
    <2>2. Good(y, d) /\ y.otop = 0
      BY <1>2, <1>3, <1>4, <2>1, OpenedIs
    <2> QED BY <1>2, <2>1, <2>2
  <1>6. call' = call /\ status' = "ok" /\ out' = << >>
    BY DEF IInv, Open
  <1>7. mode' # "closed" /\ mode' \in Modes
    BY <1>1, BufferAssumption
  <1>8. Live' /\ CallOK'
    BY <1>6, <1>7 DEF IInv, CallOK, Live
  <1>9. disk' \in Seq(Chars) /\ out' \in Seq(Chars \cup {EOF})
    BY <1>2, <1>6, EmptyIsSeq
  <1> QED BY <1>5, <1>6, <1>7, <1>8, <1>9 DEF IInv

LEMMA CleanIsDone ==
  ASSUME NEW x, Typed(x), x.otop = 0
  PROVE  UpdateIop(x) = x
  BY UpdateIopDone DEF Typed, Desc

\* A descriptor that has been moved, and nothing else.
LEMMA MovedInv ==
  ASSUME IInv, Ready, disk' = disk, mode' = mode, call' = call, status' = status,
         out' = << >>, Good(f', disk), f.otop = 0 => f'.otop = 0
  PROVE  IInv'
  <1>1. Live /\ Live' /\ status' = "ok"
    BY DEF Ready, Live
  <1>2. CallOK'
    BY <1>1 DEF IInv, CallOK
  <1>3. Good(f', disk')
    OBVIOUS
  <1> QED BY <1>1, <1>2, <1>3, EmptyIsSeq DEF IInv

LEMMA StartInv ==
  ASSUME IInv, StartRead \/ StartWrite
  PROVE  IInv'
  <1>1. PICK op \in {"read", "write"}, n \in 1..MaxXfer :
          call' = [op |-> op, left |-> n, done |-> 0]
    BY DEF StartRead, StartWrite
  <1>2. /\ Ready /\ disk' = disk /\ mode' = mode /\ f' = f /\ status' = status
        /\ out' = << >>
    BY DEF StartRead, StartWrite
  <1>3. Live /\ Live'
    BY <1>2 DEF Ready, Live
  <1>4. MaxXfer \in Nat \ {0}
    BY BufferAssumption
  <1>5. CallOK'
    BY <1>1, <1>3, <1>4 DEF CallOK, Calls
  <1>6. Good(f', disk')
    BY <1>2, <1>3 DEF IInv
  <1> QED BY <1>2, <1>3, <1>5, <1>6, EmptyIsSeq DEF IInv

LEMMA RaiseInv ==
  ASSUME IInv, Live, NEW why \in {"bounds", "device", "permission"}, NEW d \in Seq(Chars),
         Raise(why, d)
  PROVE  IInv'
  <1>1. status' = why /\ disk' = d /\ f' = NoFile /\ call' = NoCall /\ out' = << >>
        /\ mode' = mode
    BY DEF Raise
  <1>2. ~Live' /\ mode # "closed"
    BY <1>1 DEF Live
  <1>3. CallOK'
    BY <1>1, NoCallIs DEF CallOK
  <1> QED BY <1>1, <1>2, <1>3, NoFileIs, EmptyIsSeq DEF IInv

\* Whatever a failing flush leaves on the device is a file.
LEMMA FlushRaisesIs ==
  ASSUME NEW x, Good(x, disk), disk \in Seq(Chars), FlushRaises(x)
  PROVE  \/ Raise("bounds", disk) /\ UpdateIop(x).otop > 0 /\ ~Writable(UpdateIop(x))
         \/ \E n \in Nat : /\ n < UpdateIop(x).otop /\ x.boffset >= 1
                           /\ Writable(UpdateIop(x))
                           /\ Raise("device", Patch(disk, x.boffset, x.buf, n))
                           /\ Patch(disk, x.boffset, x.buf, n) \in Seq(Chars)
  <1> DEFINE u == UpdateIop(x)
  <1>1. Typed(u) /\ Placed(u) /\ u.boffset = x.boffset /\ u.buf = x.buf /\ u.otop \in Nat
    BY UpdateIopGood, UpdateIopIs DEF Good, SameBuffer, Typed, Desc
  <1>2. CASE ~Writable(u)
    BY <1>2 DEF FlushRaises, Modified
  <1>3. CASE Writable(u)
    <2>1. PICK n \in 0..u.otop - 1 : Raise("device", Patch(disk, u.boffset, u.buf, n))
      BY <1>3 DEF FlushRaises
    <2>2. n \in Nat /\ n < u.otop /\ x.boffset >= 1 /\ x.boffset \in Nat
      BY <1>1, <1>3, <2>1 DEF Writable, Typed, Desc
    <2>3. \A k \in 0..n - 1 : x.buf[k] \in Chars
      BY <1>1, <2>2, BufferChars
    <2>4. Patch(disk, x.boffset, x.buf, n) \in Seq(Chars)
      BY <2>2, <2>3, PatchIs
    <2> QED BY <1>1, <1>3, <2>1, <2>2, <2>4
  <1> QED BY <1>2, <1>3

LEMMA FlushRaisesInv ==
  ASSUME IInv, Live, NEW x, Good(x, disk), FlushRaises(x)
  PROVE  IInv'
  <1>1. disk \in Seq(Chars)
    BY DEF IInv
  <1> QED BY <1>1, FlushRaisesIs, RaiseInv

LEMMA SeekInv ==
  ASSUME IInv, Seek
  PROVE  IInv'
  <1>1. PICK off \in 1..MaxSize + 1 : f' = LSEEK(f, off)
    BY DEF Seek
  <1>2. /\ Ready /\ disk' = disk /\ mode' = mode /\ call' = call /\ status' = status
        /\ out' = << >>
    BY DEF Seek
  <1>3. Good(f, disk) /\ Typed(f)
    BY <1>2 DEF IInv, Ready, Live, Good
  <1>4. off \in Nat \ {0}
    BY BufferAssumption
  <1>5. Good(LSEEK(f, off), disk) /\ LSEEK(f, off).otop = UpdateIop(f).otop
    BY <1>3, <1>4, SeekGood
  <1>6. f.otop = 0 => f'.otop = 0
    BY <1>1, <1>3, <1>5, CleanIsDone
  <1> QED BY <1>1, <1>2, <1>5, <1>6, MovedInv

LEMMA SeekEOFInv ==
  ASSUME IInv, SeekEOF
  PROVE  IInv'
  <1>1. /\ Ready /\ disk' = disk /\ mode' = mode /\ call' = call /\ status' = status
        /\ out' = << >> /\ f' = LSEEK(Filsz(f), Filsz(f).filsize + 1)
    BY DEF SeekEOF
  <1>2. Good(f, disk) /\ Typed(f) /\ disk \in Seq(Chars)
    BY <1>1 DEF IInv, Ready, Live, Good
  <1>3. PICK x : x = Filsz(f)
    OBVIOUS
  <1>4. Good(x, disk) /\ UpdateIop(x) = x /\ x.otop = UpdateIop(f).otop
    BY <1>2, <1>3, FilszGood
  <1>5. PICK off \in Nat \ {0} : off = x.filsize + 1
    BY <1>4 DEF Good, Typed, Desc
  <1>6. Good(LSEEK(x, off), disk) /\ LSEEK(x, off).otop = UpdateIop(x).otop
    BY <1>4, SeekGood
  <1>7. f.otop = 0 => f'.otop = 0
    BY <1>1, <1>2, <1>3, <1>4, <1>5, <1>6, CleanIsDone
  <1> QED BY <1>1, <1>3, <1>5, <1>6, <1>7, MovedInv

LEMMA CancelIs ==
  ASSUME NEW d \in Seq(Chars), NEW x, Good(x, d)
  PROVE  LET y == LSEEK([x EXCEPT !.iop = 0, !.itop = 0, !.otop = 0, !.boffset = 0], LNOTE(x))
         IN  /\ Good(y, d) /\ LNOTE(y) = LNOTE(x) /\ y.otop = 0 /\ y.itop = 0 /\ y.boffset = 0
             /\ View(y, d) = d /\ y.alloc = x.alloc /\ y.filsize = x.filsize
  <1> DEFINE z == [x EXCEPT !.iop = 0, !.itop = 0, !.otop = 0, !.boffset = 0]
             y == LSEEK(z, LNOTE(x))
  <1>1. Typed(x) /\ Placed(x) /\ x.filsize >= Len(d)
    BY DEF Good
  <1>2. z \in Desc
    <2>1. PICK v, w : v = SetIop(x, 0) /\ w = SetTops(v, 0)
      OBVIOUS
    <2>2. Typed(v)
      BY <1>1, <2>1, SetIopIs
    <2>3. v.bufsize \in Nat
      BY <2>2 DEF Typed, Desc
    <2>4. Typed(w)
      BY <2>1, <2>2, <2>3, SetTopsIs
    <2>5. z = [w EXCEPT !.boffset = 0]
      BY <2>1 DEF SetIop, SetTops
    <2> HIDE DEF z
    <2> QED BY <2>4, <2>5 DEF Typed, Desc
  <1>3. /\ z.alloc = x.alloc /\ z.bufsize = x.bufsize /\ z.buf = x.buf /\ z.boffset = 0
        /\ z.itop = 0 /\ z.otop = 0 /\ z.filsize = x.filsize
    BY <1>1 DEF Typed, Desc
  <1> HIDE DEF z
  <1>4. Typed(z)
    BY <1>1, <1>2, <1>3 DEF Typed, Desc
  <1>5. PICK off \in Int : off = LNOTE(x) /\ off >= 1
    BY <1>1 DEF Placed, LNOTE, Typed, Desc
  <1>6. y = SetIop(z, off)
    BY <1>3, <1>4, <1>5, CleanIsDone DEF LSEEK, SetIop
  <1> HIDE DEF y
  <1>7. /\ Typed(y) /\ SameBuffer(y, z) /\ y.iop = off
        /\ y.itop = z.itop /\ y.otop = z.otop /\ y.filsize = z.filsize
    BY <1>4, <1>6, SetIopIs
  <1>8. UpdateIop(y) = y
    BY <1>3, <1>7, CleanIsDone
  <1>9. LNOTE(y) = off
    BY <1>3, <1>5, <1>7 DEF LNOTE, SameBuffer
  <1>10. Placed(y)
    BY <1>1, <1>3, <1>5, <1>7, <1>9 DEF Placed, SameBuffer
  <1>11. Clean(y, d) /\ Covers(y, d)
    BY <1>3, <1>7 DEF Clean, Covers, SameBuffer
  <1>12. View(y, d) = d
    BY <1>3, <1>7, <1>8, ViewClean
  <1> QED BY <1>1, <1>3, <1>5, <1>7, <1>9, <1>10, <1>11, <1>12 DEF Good, y, z, SameBuffer

LEMMA SetCancelInv ==
  ASSUME IInv, SetCancel
  PROVE  IInv'
  <1>1. /\ Ready /\ disk' = disk /\ mode' = mode /\ call' = call /\ status' = status
        /\ out' = << >>
        /\ f' = LSEEK([f EXCEPT !.iop = 0, !.itop = 0, !.otop = 0, !.boffset = 0], LNOTE(f))
    BY DEF SetCancel
  <1>2. Good(f, disk) /\ disk \in Seq(Chars)
    BY <1>1 DEF IInv, Ready, Live
  <1>3. Good(f', disk) /\ f'.otop = 0
    BY <1>1, <1>2, CancelIs
  <1> QED BY <1>1, <1>3, MovedInv

LEMMA FlushInv ==
  ASSUME IInv, Flush
  PROVE  IInv'
  <1>1. Ready /\ Live
    BY DEF Flush, Ready, Live
  <1>2. Good(f, disk) /\ disk \in Seq(Chars)
    BY <1>1 DEF IInv
  <1>3. CASE FlushRaises(f)
    BY <1>1, <1>2, <1>3, FlushRaisesInv
  <1>4. CASE ~FlushFails(f) /\ f' = Flushed(f) /\ disk' = FlushedDisk(f, disk)
             /\ out' = << >> /\ UNCHANGED <<mode, call, status>>
    <2>1. /\ FlushedDisk(f, disk) = View(f, disk) /\ FlushedDisk(f, disk) \in Seq(Chars)
          /\ Good(Flushed(f), View(f, disk)) /\ Flushed(f).otop = 0
      BY <1>2, <1>4, FlushGood
    <2>2. Good(f', disk') /\ disk' \in Seq(Chars) /\ f'.otop = 0
      BY <1>4, <2>1
    <2>3. Live'
      BY <1>1, <1>4 DEF Live
    <2>4. CallOK'
      BY <1>4, <2>3 DEF IInv, CallOK
    <2> QED BY <1>4, <2>2, <2>3, <2>4, EmptyIsSeq DEF IInv
  <1> QED BY <1>3, <1>4 DEF Flush

\* The file is closed, whatever is found on the device then.
LEMMA ClosedInv ==
  ASSUME IInv, mode' = "closed", f' = NoFile, status' = "ok", out' = << >>,
         disk' \in Seq(Chars), call' \in Calls, call'.op = "none"
  PROVE  IInv'
  <1>1. ~Live'
    BY DEF Live
  <1>2. CallOK'
    BY DEF CallOK
  <1> QED BY <1>1, <1>2, EmptyIsSeq, NoFileIs DEF IInv

LEMMA CloseInv ==
  ASSUME IInv, Close
  PROVE  IInv'
  <1>1. Ready /\ Live
    BY DEF Close, Ready, Live
  <1>2. Good(f, disk) /\ disk \in Seq(Chars)
    BY <1>1 DEF IInv
  <1>3. CASE FlushRaises(f)
    BY <1>1, <1>2, <1>3, FlushRaisesInv
  <1>4. CASE ~FlushFails(f) /\ disk' = FlushedDisk(f, disk) /\ mode' = "closed"
             /\ f' = NoFile /\ out' = << >> /\ UNCHANGED <<call, status>>
    <2>1. FlushedDisk(f, disk) \in Seq(Chars)
      BY <1>2, <1>4, FlushGood
    <2>2. status' = "ok" /\ call' = NoCall
      BY <1>1, <1>4 DEF Ready
    <2> QED BY <1>4, <2>1, <2>2, NoCallIs, ClosedInv
  <1> QED BY <1>3, <1>4 DEF Close

LEMMA CleanupInv ==
  ASSUME IInv, Cleanup
  PROVE  IInv'
  <1>1. disk' \in Seq(Chars)
    <2>1. CASE disk' = disk \/ disk' = << >>
      BY <2>1, EmptyIsSeq DEF IInv
    <2>2. CASE Ready /\ ~FlushFails(f) /\ disk' = FlushedDisk(f, disk)
      <3>1. Good(f, disk) /\ disk \in Seq(Chars)
        BY <2>2 DEF IInv, Ready, Live
      <3> QED BY <2>2, <3>1, FlushGood
    <2> QED BY <2>1, <2>2 DEF Cleanup
  <1> QED BY <1>1, NoCallIs, ClosedInv DEF Cleanup

LEMMA SetBufSizeInv ==
  ASSUME IInv, SetBufSize
  PROVE  IInv'
  <1>1. Ready /\ Live
    BY DEF SetBufSize, Ready, Live
  <1>2. Good(f, disk) /\ disk \in Seq(Chars)
    BY <1>1 DEF IInv
  <1>3. CASE FlushRaises(f)
    BY <1>1, <1>2, <1>3, FlushRaisesInv
  <1>4. ASSUME ~FlushFails(f), disk' = FlushedDisk(f, disk), out' = << >>,
               UNCHANGED <<mode, call, status>>, NEW size \in BufSizes,
               f' = [ReturnBuffer(Flushed(f)) EXCEPT !.bufsize = size]
        PROVE  IInv'
    <2>1. PICK e, v : e = Flushed(f) /\ v = View(f, disk)
      OBVIOUS
    <2>2. disk' = v /\ v \in Seq(Chars) /\ Good(e, v) /\ e.otop = 0
      BY <1>2, <1>4, <2>1, FlushGood
    <2>3. size \in Nat \ {0}
      BY BufferAssumption
    <2>4. f' = [ReturnBuffer(e) EXCEPT !.bufsize = size]
      BY <1>4, <2>1
    <2>5. Good(f', v) /\ f'.otop = 0
      BY <2>2, <2>3, <2>4, ReturnBufferGood
    <2>6. Live'
      BY <1>1, <1>4 DEF Live
    <2>7. CallOK'
      BY <1>4, <2>6 DEF IInv, CallOK
    <2> QED BY <1>4, <2>2, <2>5, <2>6, <2>7, EmptyIsSeq DEF IInv
  <1> QED BY <1>3, <1>4 DEF SetBufSize

-----------------------------------------------------------------------------
(* Reading and writing preserve the invariant.                             *)

\* iop moves on in the part of the buffer that may be read.
LEMMA AdvanceGood ==
  ASSUME NEW d \in Seq(Chars), NEW x, Good(x, d), x.alloc, x.iop >= 0,
         NEW n \in Nat, x.iop + n <= x.itop
  PROVE  LET y == SetIop(x, x.iop + n)
         IN  /\ Good(y, d) /\ LNOTE(y) = LNOTE(x) + n /\ View(y, d) = View(x, d)
             /\ y.otop = x.otop /\ UpdateIop(y).otop = UpdateIop(x).otop
             /\ SameBuffer(y, x) /\ y.filsize = x.filsize
  <1>1. /\ Typed(x) /\ Placed(x) /\ x.iop \in Nat /\ x.itop \in Nat /\ x.otop \in Nat
        /\ x.bufsize \in Nat \ {0} /\ x.boffset \in Nat /\ x.itop <= x.bufsize
    BY DEF Good, Typed, Desc
  <1>2. PICK i \in Int : i = x.iop + n
    BY <1>1
  <1> DEFINE y == SetIop(x, i)
  <1>3. /\ Typed(y) /\ SameBuffer(y, x) /\ y.iop = i
        /\ y.itop = x.itop /\ y.otop = x.otop /\ y.filsize = x.filsize
    BY <1>1, SetIopIs
  <1> HIDE DEF y
  <1>4. LNOTE(y) = LNOTE(x) + n
    BY <1>1, <1>2, <1>3 DEF LNOTE, SameBuffer
  <1>5. UpdateIop(y).itop = UpdateIop(x).itop /\ UpdateIop(y).otop = UpdateIop(x).otop
        /\ SameBuffer(UpdateIop(y), UpdateIop(x))
    <2>1. Top(y) = Top(x)
      BY <1>1, <1>2, <1>3 DEF Top, Lower, Higher, SameBuffer
    <2>2. CASE x.alloc /\ x.otop = x.bufsize
      BY <1>1, <1>3, <2>1, <2>2, UpdateIopIs, ZenonT(60) DEF SameBuffer
    <2>3. CASE ~(x.alloc /\ x.otop = x.bufsize)
      BY <1>1, <1>3, <2>3, UpdateIopIs DEF SameBuffer
    <2> QED BY <2>2, <2>3
  <1>6. View(y, d) = View(x, d)
    BY <1>5 DEF View, SameBuffer
  <1>7. Placed(y)
    BY <1>1, <1>2, <1>3, <1>4 DEF Placed, LNOTE, SameBuffer
  <1>8. Clean(y, d) /\ Covers(y, d)
    BY <1>3, <1>5 DEF Good, Clean, Covers, SameBuffer
  <1>9. Good(y, d)
    BY <1>3, <1>7, <1>8 DEF Good
  <1>10. y = SetIop(x, x.iop + n)
    BY <1>2 DEF y
  <1> QED BY <1>3, <1>4, <1>5, <1>6, <1>9, <1>10

\* n chars of the buffer of x are delivered.
Delivers(x, left, n) ==
    /\ x.iop + n <= x.itop /\ n <= left /\ f' = SetIop(x, x.iop + n)
    /\ out' = [k \in 1..n |-> x.buf[x.iop + k - 1]]
    /\ out' \in Seq(Chars) /\ Len(out') = n
    /\ call' = IF n = left THEN NoCall
               ELSE [call EXCEPT !.left = left - n, !.done = call.done + n]

\* What CopyOut does, with the number of chars that it copies.
LEMMA CopyOutIs ==
  ASSUME NEW d \in Seq(Chars), NEW x, Good(x, d), x.alloc, x.iop >= 0,
         NEW left \in Int, CopyOut(x, left), call \in Calls
  PROVE  \/ /\ (left <= 0 \/ x.itop <= x.iop) /\ call' = NoCall /\ f' = x
            /\ out' = IF call.done = 0 THEN <<EOF>> ELSE << >>
         \/ \E n \in Nat \ {0} : Delivers(x, left, n)
  <1> DEFINE n == Lower(left, x.itop - x.iop)
  <1>1. Typed(x) /\ x.iop \in Nat /\ x.itop \in Nat /\ x.bufsize \in Nat /\ x.itop <= x.bufsize
    BY DEF Good, Typed, Desc
  <1>2. n \in Int /\ n <= left /\ x.iop + n <= x.itop /\ n \in {left, x.itop - x.iop}
    BY <1>1 DEF Lower
  <1>3. CASE n <= 0
    <2>1. /\ call' = NoCall /\ f' = x
          /\ out' = IF call.done = 0 THEN <<EOF>> ELSE << >>
      BY <1>3 DEF CopyOut
    <2>2. left <= 0 \/ x.itop <= x.iop
      BY <1>1, <1>2, <1>3
    <2> QED BY <2>1, <2>2
  <1>4. CASE n > 0
    <2>1. /\ out' = [k \in 1..n |-> x.buf[x.iop + k - 1]]
          /\ f' = [x EXCEPT !.iop = @ + n]
          /\ call' = IF n = left THEN NoCall
                     ELSE [call EXCEPT !.left = left - n, !.done = @ + n]
      BY <1>2, <1>4 DEF CopyOut
    <2>2. PICK m \in Nat \ {0} : m = n
      BY <1>2, <1>4
    <2> HIDE DEF n
    <2>3. f' = SetIop(x, x.iop + m)
      BY <1>1, <2>1, <2>2 DEF SetIop, Typed, Desc
    <2>4. \A k \in 1..m : x.buf[x.iop + k - 1] \in Chars
      <3>1. x.buf \in [0..x.bufsize - 1 -> Chars]
        BY <1>1 DEF Typed
      <3>2. \A k \in 1..m : x.iop + k - 1 \in 0..x.bufsize - 1
        BY <1>1, <1>2, <2>2
      <3> QED BY <3>1, <3>2
    <2>5. out' = [k \in 1..m |-> x.buf[x.iop + k - 1]]
      BY <2>1, <2>2
    <2>6. out' \in Seq(Chars) /\ Len(out') = m
      <3> DEFINE e(k) == x.buf[x.iop + k - 1]
      <3>1. \A k \in 1..m : e(k) \in Chars
        BY <2>4
      <3>2. out' = [k \in 1..m |-> e(k)]
        BY <2>5
      <3> HIDE DEF e
      <3>3. [k \in 1..m |-> e(k)] \in Seq(Chars)
        BY <3>1, IsASeq
      <3> QED BY <3>2, <3>3, LenProperties
    <2>7. call' = IF m = left THEN NoCall
                  ELSE [call EXCEPT !.left = left - m, !.done = call.done + m]
      BY <2>1, <2>2 DEF Calls
    <2>8. x.iop + m <= x.itop /\ m <= left
      BY <1>1, <1>2, <2>2
    <2>9. Delivers(x, left, m)
      BY <2>3, <2>5, <2>6, <2>7, <2>8 DEF Delivers
    <2> QED BY <2>2, <2>9
  <1> QED BY <1>2, <1>3, <1>4

\* The call goes on with what is left of it.
LEMMA CallGoesOn ==
  ASSUME NEW c \in Calls, NEW n \in Nat \ {0}, NEW left \in Int, n < left, left <= c.left,
         c.left + c.done <= MaxXfer
  PROVE  LET e == [c EXCEPT !.left = left - n, !.done = c.done + n]
         IN  e \in Calls /\ e.op = c.op /\ e.left >= 1 /\ e.left + e.done <= MaxXfer
  <1>1. c.left \in 0..MaxXfer /\ c.done \in 0..MaxXfer /\ MaxXfer \in Nat
    BY BufferAssumption DEF Calls
  <1>2. left - n \in 0..MaxXfer /\ c.done + n \in 0..MaxXfer
    BY <1>1
  <1>3. PICK i \in 0..MaxXfer, j \in 0..MaxXfer : i = left - n /\ j = c.done + n
    BY <1>2
  <1>4. PICK e : e = [c EXCEPT !.left = i, !.done = j]
    OBVIOUS
  <1>5. e \in Calls
    BY <1>3, <1>4 DEF Calls
  <1>6. e.op = c.op /\ e.left = i /\ e.done = j
    BY <1>4 DEF Calls
  <1>7. e = [c EXCEPT !.left = left - n, !.done = c.done + n]
    BY <1>3, <1>4
  <1> QED BY <1>1, <1>3, <1>5, <1>6, <1>7

\* The device after a step that may have flushed the buffer of f.
FlushedTo(d) == d = disk \/ (d = View(f, disk) /\ ~FlushFails(f))

\* A chunk is read from a buffer x that shows the program the same file as f.
ReadsFrom(x, left) ==
    /\ Good(x, disk') /\ x.alloc /\ x.iop >= 0 /\ LNOTE(x) = LNOTE(f)
    /\ disk' \in Seq(Chars) /\ FlushedTo(disk')
    /\ View(x, disk') = View(f, disk)
    /\ mode = "ro" => x.otop = 0
    /\ left \in Int /\ left <= call.left
    /\ x.itop <= x.iop => LNOTE(f) > Len(View(f, disk))
    /\ left <= 0 => x.itop <= x.iop
    /\ UpdateIop(x).otop > 0 => UpdateIop(f).otop > 0 /\ x.boffset = f.boffset
    /\ x.alloc /\ x.boffset = 0 => f.alloc /\ f.boffset = 0
    /\ f.filsize <= Len(View(f, disk)) => x.filsize <= Len(View(f, disk))
    /\ CopyOut(x, left) /\ UNCHANGED <<mode, status>>

\* The flush of a buffer x that shows the program the same file as f fails.
RaisesFor(x) ==
    /\ Good(x, disk) /\ View(x, disk) = View(f, disk) /\ FlushRaises(x)
    /\ f.alloc /\ x = f

LEMMA FaultRaises ==
  ASSUME Good(f, disk), disk \in Seq(Chars), FlushRaises(MakeBuffer(f))
  PROVE  RaisesFor(f)
  <1>1. CASE f.alloc
    BY <1>1, MakeBufferGood DEF RaisesFor
  <1>2. CASE ~f.alloc
    <2>1. ~Modified(UpdateIop(MakeBuffer(f)))
      BY <1>2, MakeBufferGood DEF Modified
    <2> QED BY <2>1 DEF FlushRaises
  <1> QED BY <1>1, <1>2

\* What a fault does to the file that the program sees.
LEMMA FaultView ==
  ASSUME Good(f, disk), disk \in Seq(Chars), ~FlushFails(MakeBuffer(f)), NEW skip \in BOOLEAN,
         NEW v, v = View(f, disk), NEW y, y = Fault(MakeBuffer(f), v, skip)
  PROVE  /\ FlushedDisk(MakeBuffer(f), disk) = v /\ v \in Seq(Chars) /\ ~FlushFails(f)
         /\ Typed(y) /\ Placed(y) /\ UpdateIop(y) = y /\ View(y, v) = v
         /\ y.alloc /\ y.boffset >= 1 /\ LNOTE(y) = LNOTE(f)
         /\ y.iop >= 0 /\ y.iop < y.bufsize /\ y.otop = 0 /\ y.filsize >= Len(v)
         /\ y.bufsize = MakeBuffer(f).bufsize
         /\ y.boffset = BlockOf(MakeBuffer(f), LNOTE(f))
         /\ f.filsize <= Len(v) => y.filsize <= Len(v)
         /\ skip => y.itop = 0
         /\ ~skip => Good(y, v)
  <1>1. PICK x : x = MakeBuffer(f)
    OBVIOUS
  <1>2. Good(x, disk) /\ x.alloc /\ LNOTE(x) = LNOTE(f) /\ View(x, disk) = v
        /\ x.filsize = f.filsize
    BY <1>1, MakeBufferGood
  <1>3. FlushedDisk(x, disk) = v /\ v \in Seq(Chars)
        /\ (x.filsize <= Len(v) => Flushed(x).filsize <= Len(v))
    BY <1>1, <1>2, FlushGood
  <1>4. y = Fault(x, View(x, disk), skip)
    BY <1>1, <1>2
  <1>5. /\ Typed(y) /\ Placed(y) /\ UpdateIop(y) = y
        /\ y.alloc /\ y.bufsize = x.bufsize /\ y.boffset >= 1
        /\ y.boffset = BlockOf(x, LNOTE(x))
        /\ LNOTE(y) = LNOTE(x) /\ y.iop >= 0 /\ y.iop < y.bufsize
        /\ y.otop = 0 /\ y.filsize >= Len(v) /\ y.filsize = Flushed(x).filsize
        /\ skip => y.itop = 0
        /\ ~skip => Good(y, v)
    BY <1>1, <1>2, <1>4, FaultIs
  <1>6. View(y, v) = v
    BY <1>3, <1>5, ViewClean
  <1>7. ~FlushFails(f)
    <2>1. CASE f.alloc
      BY <2>1, MakeBufferGood
    <2>2. CASE ~f.alloc
      BY <2>2, MakeBufferGood DEF FlushFails, Modified
    <2> QED BY <2>1, <2>2
  <1> QED BY <1>1, <1>2, <1>3, <1>5, <1>6, <1>7

LEMMA ReadOutcome ==
  ASSUME IInv, ReadChunk
  PROVE  \/ RaisesFor(f)
         \/ Raise("device", View(f, disk)) /\ View(f, disk) \in Seq(Chars) /\ ~FlushFails(f)
         \/ \E x, left : ReadsFrom(x, left)
  <1>1. /\ call.op = "read" /\ Live /\ call.left >= 1 /\ call.left \in Int
        /\ Good(f, disk) /\ disk \in Seq(Chars)
    <2>1. call.op = "read"
      BY DEF ReadChunk
    <2> QED BY <2>1, BufferAssumption DEF IInv, CallOK, Calls
  <1>2. f.itop \in Nat /\ f.iop \in Int
    BY <1>1 DEF Good, Typed, Desc
  <1>3. CASE InRange(f, f.itop)
    <2>1. CopyOut(f, call.left) /\ UNCHANGED <<disk, mode, status>>
      BY <1>3 DEF ReadChunk
    <2>2. f.alloc /\ f.iop >= 0 /\ ~(f.itop <= f.iop)
      BY <1>2, <1>3 DEF InRange
    <2>3. mode = "ro" => f.otop = 0
      BY DEF IInv
    <2>4. ReadsFrom(f, call.left)
      BY <1>1, <2>1, <2>2, <2>3 DEF ReadsFrom, FlushedTo
    <2> QED BY <2>4
  <1>4. CASE ~InRange(f, f.itop)
    <2>1. PICK x, d, y : /\ x = MakeBuffer(f) /\ d = FlushedDisk(x, disk)
                         /\ y = Fault(x, d, FALSE)
      OBVIOUS
    <2>2. \/ FlushRaises(x)
          \/ ~FlushFails(x) /\ Raise("device", d)
          \/ /\ ~FlushFails(x)
             /\ CopyOut(y, IF y.itop < y.bufsize
                           THEN Lower(call.left, y.itop - y.iop) ELSE call.left)
             /\ disk' = d
             /\ UNCHANGED <<mode, status>>
      BY <1>4, <2>1 DEF ReadChunk
    <2>3. CASE FlushRaises(x)
      BY <1>1, <2>1, <2>3, FaultRaises
    <2>4. CASE ~FlushFails(x) /\ Raise("device", d)
      BY <1>1, <2>1, <2>4, FaultView
    <2>5. ASSUME ~FlushFails(x), disk' = d, UNCHANGED <<mode, status>>, NEW left,
                 left = (IF y.itop < y.bufsize
                         THEN Lower(call.left, y.itop - y.iop) ELSE call.left),
                 CopyOut(y, left)
          PROVE  ReadsFrom(y, left)
      <3>1. PICK v : v = View(f, disk)
        OBVIOUS
      <3>2. d = v /\ FlushedTo(d)
        BY <1>1, <2>1, <2>5, <3>1, FaultView DEF FlushedTo
      <3>3. /\ v \in Seq(Chars) /\ UpdateIop(y) = y /\ View(y, v) = v
            /\ y.alloc /\ y.boffset >= 1 /\ LNOTE(y) = LNOTE(f)
            /\ y.iop >= 0 /\ y.iop < y.bufsize /\ y.otop = 0 /\ Good(y, v)
            /\ (f.filsize <= Len(v) => y.filsize <= Len(v))
        BY <1>1, <2>1, <2>5, <3>1, <3>2, FaultView
      <3>4. y.itop \in Nat /\ y.iop \in Nat /\ y.bufsize \in Nat /\ y.boffset \in Nat
            /\ Len(v) \in Nat
        BY <3>3, LenProperties DEF Good, Typed, Desc
      <3>5. left \in Int /\ left <= call.left /\ (left <= 0 => y.itop <= y.iop)
        BY <1>1, <2>5, <3>4 DEF Lower
      <3>6. ASSUME y.itop <= y.iop PROVE LNOTE(f) > Len(v)
        <4>1. y.boffset + y.itop > Len(v)
          BY <3>3, <3>4, <3>6 DEF Good, Covers
        <4> QED BY <3>3, <3>4, <3>6, <4>1 DEF LNOTE
      <3> QED BY <2>5, <3>1, <3>2, <3>3, <3>4, <3>5, <3>6 DEF ReadsFrom
    <2> QED BY <2>2, <2>3, <2>4, <2>5
  <1> QED BY <1>3, <1>4

LEMMA ReadInv ==
  ASSUME IInv, ReadChunk
  PROVE  IInv'
  <1>1. Live /\ call \in Calls /\ call.op = "read" /\ call.left + call.done <= MaxXfer
    BY DEF IInv, CallOK, ReadChunk
  <1>2. CASE RaisesFor(f)
    BY <1>1, <1>2, FlushRaisesInv DEF RaisesFor
  <1>3. CASE Raise("device", View(f, disk)) /\ View(f, disk) \in Seq(Chars)
    BY <1>1, <1>3, RaiseInv
  <1>4. ASSUME NEW x, NEW left, ReadsFrom(x, left)
        PROVE  IInv'
    <2>1. /\ Good(x, disk') /\ x.alloc /\ x.iop >= 0 /\ disk' \in Seq(Chars)
          /\ left \in Int /\ left <= call.left /\ CopyOut(x, left) /\ mode' = mode
          /\ status' = status /\ (mode = "ro" => x.otop = 0)
      BY <1>4 DEF ReadsFrom
    <2>2. Live'
      BY <1>1, <2>1 DEF Live
    <2>3. PICK d : d = disk'
      OBVIOUS
    <2>4. CASE call' = NoCall /\ f' = x /\ out' = (IF call.done = 0 THEN <<EOF>> ELSE << >>)
      <3>1. out' \in Seq(Chars \cup {EOF})
        BY <2>4, EmptyIsSeq
      <3>2. CallOK'
        BY <2>4, NoCallIs DEF CallOK
      <3> QED BY <2>1, <2>2, <2>4, <3>1, <3>2 DEF IInv
    <2>5. ASSUME NEW n \in Nat \ {0}, Delivers(x, left, n)
          PROVE  IInv'
      <3>1. out' \in Seq(Chars \cup {EOF})
        BY <2>5, SeqMonotonic DEF Delivers
      <3>2. CallOK'
        <4>1. CASE n = left
          BY <2>5, <4>1, NoCallIs DEF CallOK, Delivers
        <4>2. CASE n # left
          <5>1. call' = [call EXCEPT !.left = left - n, !.done = call.done + n] /\ n < left
            BY <2>1, <2>5, <4>2 DEF Delivers
          <5>2. call' \in Calls /\ call'.left >= 1 /\ call'.left + call'.done <= MaxXfer
            BY <1>1, <2>1, <5>1, CallGoesOn
          <5> QED BY <2>2, <5>2 DEF CallOK
        <4> QED BY <4>1, <4>2
      <3>3. f' = SetIop(x, x.iop + n) /\ x.iop + n <= x.itop
        BY <2>5 DEF Delivers
      <3>4. Good(SetIop(x, x.iop + n), d) /\ SetIop(x, x.iop + n).otop = x.otop
        BY <2>1, <2>3, <3>3, AdvanceGood
      <3>5. Good(f', disk') /\ f'.otop = x.otop
        BY <2>3, <3>3, <3>4
      <3> QED BY <2>1, <2>2, <3>1, <3>2, <3>5 DEF IInv
    <2>6. \/ call' = NoCall /\ f' = x /\ out' = (IF call.done = 0 THEN <<EOF>> ELSE << >>)
          \/ \E n \in Nat \ {0} : Delivers(x, left, n)
      BY <1>1, <2>1, <2>3, CopyOutIs
    <2> QED BY <2>4, <2>5, <2>6
  <1> QED BY <1>2, <1>3, <1>4, ReadOutcome

\* c is what d becomes when the good data of the buffer x is put over it; chars
\* behind the good data are not in c.
Base(x, d, c) ==
    LET t == UpdateIop(x).otop
    IN  /\ x.boffset >= 1
        /\ \A p \in 1..Len(c) :
             c[p] = IF p \in x.boffset..x.boffset + t - 1 THEN x.buf[p - x.boffset]
                    ELSE IF p <= Len(d) THEN d[p] ELSE Junk
        /\ Len(d) <= Len(c) /\ Len(c) <= Higher(Len(d), x.boffset + t - 1)
        /\ x.itop > 0 => Len(c) >= x.boffset + x.itop - 1

LEMMA WrittenBase ==
  ASSUME NEW d \in Seq(Chars), NEW x, Good(x, d), x.otop > 0, x.boffset >= 1
  PROVE  Base(x, d, View(x, d))
  <1>1. /\ Typed(x) /\ Placed(x) /\ x.itop \in Nat /\ x.boffset \in Nat
        /\ UpdateIop(x).otop \in Nat
    <2>1. Typed(x) /\ Placed(x) /\ Typed(UpdateIop(x))
      BY UpdateIopIs DEF Good
    <2> QED BY <2>1 DEF Typed, Desc
  <1>2. UpdateIop(x).otop > 0 /\ UpdateIop(x).otop >= x.itop
    BY <1>1, UpdateIopOtop, SMTT(30) DEF Typed, Desc
  <1>3. ViewAt(x, d, View(x, d))
    BY ViewIs DEF Valid
  <1>4. Len(d) \in Nat
    BY LenProperties
  <1> QED BY <1>1, <1>2, <1>3, <1>4 DEF Base, ViewAt, Higher

\* When the buffer holds the block, room is made behind its good data.
LEMMA RoomBase ==
  ASSUME NEW d \in Seq(Chars), NEW x, Good(x, d), InBlock(x), x.boffset >= 1
  PROVE  Base(MakeRoom(x), d, View(x, d))
  <1> DEFINE c == View(x, d)
  <1>1. /\ Typed(x) /\ Placed(x) /\ x.alloc /\ x.iop \in Nat /\ x.iop < x.bufsize
        /\ x.otop < x.bufsize /\ x.bufsize \in Nat /\ x.itop \in Nat /\ x.boffset \in Nat
        /\ x.otop \in Nat /\ x.itop <= x.bufsize
    BY DEF Good, InBlock, Typed, Desc
  <1>2. UpdateIop(x) = x /\ Len(d) \in Nat
    BY <1>1, UpdateIopIs, LenProperties
  <1>3. PICK y : y = MakeRoom(x)
    OBVIOUS
  <1>4. /\ Typed(y) /\ SameBuffer(y, x) /\ y.iop = x.iop /\ y.itop = x.itop
        /\ y.otop = x.bufsize
    BY <1>1, <1>3, MakeRoomIs
  <1>5. PICK t \in Nat : t = UpdateIop(y).otop /\ t = Higher(x.itop, x.iop)
    <2>1. UpdateIop(y).otop = Top(y)
      BY <1>1, <1>4, UpdateIopIs DEF SameBuffer
    <2>2. Top(y) = Higher(x.itop, x.iop) /\ Top(y) \in Nat
      BY <1>1, <1>4 DEF Top, Lower, Higher, SameBuffer
    <2> QED BY <2>1, <2>2
  <1>6. x.itop = x.bufsize \/ x.boffset + x.itop > Len(d)
    BY <1>1, <1>2 DEF Good, Covers
  <1>7. /\ c \in Seq(Chars) /\ Len(c) \in Nat
        /\ \A p \in 1..Len(c) :
             c[p] = IF p \in x.boffset..x.boffset + x.itop - 1 THEN x.buf[p - x.boffset]
                    ELSE IF p <= Len(d) THEN d[p] ELSE Junk
        /\ Len(d) <= Len(c) /\ Len(c) <= Higher(Len(d), x.boffset + x.itop - 1)
        /\ x.itop > 0 => Len(c) >= x.boffset + x.itop - 1
    <2>1. CASE x.otop = 0
      <3>1. c = d
        BY <1>1, <1>2, <2>1, ViewClean
      <3>2. \A k \in 0..x.itop - 1 :
              x.boffset + k \in 1..Len(d) /\ x.buf[k] = d[x.boffset + k]
        BY <2>1 DEF Good, Clean
      <3>3. \A p \in x.boffset..x.boffset + x.itop - 1 : x.buf[p - x.boffset] = d[p]
        <4> SUFFICES ASSUME NEW p \in x.boffset..x.boffset + x.itop - 1
                     PROVE  x.buf[p - x.boffset] = d[p]
          OBVIOUS
        <4>1. PICK k \in 0..x.itop - 1 : k = p - x.boffset
          BY <1>1
        <4>2. x.boffset + k = p
          BY <1>1, <4>1
        <4> QED BY <3>2, <4>1, <4>2
      <3>4. x.itop > 0 => x.boffset + (x.itop - 1) \in 1..Len(d)
        BY <1>1, <3>2
      <3> HIDE DEF c
      <3> QED BY <1>1, <1>2, <3>1, <3>3, <3>4 DEF Higher
    <2>2. CASE x.otop > 0
      <3>1. x.otop = x.itop
        BY <1>1, <2>2 DEF Placed
      <3>2. ViewAt(x, d, c)
        BY ViewIs DEF Valid
      <3> HIDE DEF c
      <3> QED BY <1>1, <1>2, <2>2, <3>1, <3>2, LenProperties DEF ViewAt, Higher
    <2> QED BY <1>1, <2>1, <2>2
  <1> HIDE DEF c
  <1>8. \A p \in 1..Len(c) :
          c[p] = IF p \in x.boffset..x.boffset + t - 1 THEN x.buf[p - x.boffset]
                 ELSE IF p <= Len(d) THEN d[p] ELSE Junk
    <2> SUFFICES ASSUME NEW p \in 1..Len(c),
                        p \in x.boffset + x.itop..x.boffset + t - 1
                 PROVE  FALSE
      BY <1>1, <1>5, <1>7 DEF Higher
    <2> QED BY <1>1, <1>2, <1>5, <1>6, <1>7 DEF Higher
  <1>9. Base(y, d, c)
    BY <1>1, <1>2, <1>4, <1>5, <1>7, <1>8 DEF Base, SameBuffer, Higher
  <1> QED BY <1>3, <1>9 DEF c

\* A chunk is written into a buffer x, which has room for it; the file that f
\* shows is the base to which it is added.
WritesInto(x) ==
    /\ Roomy(x) /\ LNOTE(x) = LNOTE(f) /\ mode # "ro"
    /\ FlushedTo(disk') /\ disk' \in Seq(Chars) /\ x.filsize >= Len(disk')
    /\ Covers(x, disk') \/ (x.iop = 0 /\ x.otop = x.bufsize /\ call.left >= x.bufsize)
    /\ (f.alloc /\ f.boffset = 0) \/ Base(x, disk', View(f, disk))
    /\ x.alloc /\ x.boffset = 0 => f.alloc /\ f.boffset = 0
    /\ f.filsize <= Len(View(f, disk)) => x.filsize <= Len(View(f, disk))
    /\ CopyIn(x) /\ UNCHANGED <<mode, status>>

\* A buffer with a part of it to be written over before it is read.
LEMMA SkippedRoom ==
  ASSUME NEW d \in Seq(Chars), NEW y, Typed(y), Placed(y), y.alloc, y.boffset >= 1,
         y.iop = 0, y.itop = 0, y.otop = 0
  PROVE  LET x == MakeRoom(y)
         IN  Roomy(x) /\ x.iop = 0 /\ x.otop = x.bufsize /\ Base(x, d, d)
  <1>1. y.bufsize \in Nat \ {0} /\ y.boffset \in Nat
    BY DEF Typed, Desc
  <1>2. InBlock(y)
    BY <1>1 DEF InBlock
  <1>3. PICK x : x = MakeRoom(y)
    OBVIOUS
  <1>4. Roomy(x) /\ x.iop = 0 /\ x.bufsize = y.bufsize /\ x.otop = y.bufsize
    BY <1>2, <1>3, MakeRoomRoomy
  <1>5. Typed(x) /\ SameBuffer(x, y) /\ x.itop = 0
    BY <1>3, MakeRoomIs
  <1>6. UpdateIop(x).otop = 0
    <2>1. UpdateIop(x).otop = Top(x)
      BY <1>4, <1>5, UpdateIopIs DEF SameBuffer
    <2> QED BY <1>1, <1>4, <1>5, <2>1 DEF Top, Lower, Higher
  <1>7. Len(d) \in Nat /\ x.boffset \in Nat /\ x.boffset >= 1
    BY <1>1, <1>5, LenProperties DEF SameBuffer
  <1>8. Base(x, d, d)
    BY <1>5, <1>6, <1>7 DEF Base, Higher
  <1> QED BY <1>3, <1>4, <1>8

LEMMA WriteOutcome ==
  ASSUME IInv, WriteChunk
  PROVE  \/ Raise("permission", disk)
         \/ RaisesFor(f)
         \/ Raise("device", View(f, disk)) /\ View(f, disk) \in Seq(Chars) /\ ~FlushFails(f)
         \/ \E x : WritesInto(x)
  <1>1. /\ call.op = "write" /\ Live /\ call.left >= 1 /\ call.left \in Int
        /\ Good(f, disk) /\ disk \in Seq(Chars)
    <2>1. call.op = "write"
      BY DEF WriteChunk
    <2> QED BY <2>1, BufferAssumption DEF IInv, CallOK, Calls
  <1>2. /\ f.itop \in Nat /\ f.iop \in Int /\ f.otop \in Nat /\ f.bufsize \in Nat \ {0}
        /\ f.boffset \in Nat /\ Typed(f) /\ Placed(f) /\ Covers(f, disk)
        /\ f.filsize >= Len(disk)
    BY <1>1 DEF Good, Typed, Desc
  <1>3. CASE InRange(f, f.otop)
    <2>1. CopyIn(f) /\ UNCHANGED <<disk, mode, status>>
      BY <1>3 DEF WriteChunk
    <2>2. f.alloc /\ f.iop >= 0 /\ f.iop < f.otop /\ f.otop > 0 /\ mode # "ro"
      BY <1>2, <1>3 DEF InRange, IInv
    <2>3. Roomy(f)
      BY <1>2, <2>2 DEF Roomy, Placed
    <2>4. f.boffset = 0 \/ Base(f, disk, View(f, disk))
      <3>1. CASE f.boffset = 0
        BY <3>1
      <3>2. CASE f.boffset >= 1
        BY <1>1, <2>2, <3>2, WrittenBase
      <3> QED BY <1>2, <3>1, <3>2
    <2>5. WritesInto(f)
      BY <1>1, <1>2, <2>1, <2>2, <2>3, <2>4 DEF WritesInto, FlushedTo
    <2> QED BY <2>5
  <1>4. ASSUME InBlock(f), mode # "ro", CopyIn(MakeRoom(f)), UNCHANGED <<disk, mode, status>>
        PROVE  WritesInto(MakeRoom(f))
    <2>1. PICK x : x = MakeRoom(f)
      OBVIOUS
    <2>2. Roomy(x) /\ x.filsize = f.filsize /\ LNOTE(x) = LNOTE(f) /\ Covers(x, disk)
      BY <1>1, <1>2, <1>4, <2>1, MakeRoomRoomy
    <2>3. x.alloc = f.alloc /\ x.boffset = f.boffset /\ f.alloc /\ x.filsize = f.filsize
      BY <1>2, <1>4, <2>1, MakeRoomIs DEF SameBuffer, InBlock
    <2>4. f.boffset = 0 \/ Base(x, disk, View(f, disk))
      <3>1. CASE f.boffset = 0
        BY <3>1
      <3>2. CASE f.boffset >= 1
        BY <1>1, <1>4, <2>1, <3>2, RoomBase
      <3> QED BY <1>2, <3>1, <3>2
    <2>5. WritesInto(x)
      BY <1>1, <1>2, <1>4, <2>1, <2>2, <2>3, <2>4 DEF WritesInto, FlushedTo
    <2> QED BY <2>1, <2>5
  <1>5. CASE ~InRange(f, f.otop)
    <2>0. PICK skip \in BOOLEAN : skip = Overwritten(MakeBuffer(f), call.left)
      BY DEF Overwritten
    <2>1. PICK x, d, y :
            /\ x = MakeBuffer(f) /\ d = FlushedDisk(x, disk)
            /\ skip = Overwritten(x, call.left) /\ y = Fault(x, d, skip)
      BY <2>0
    <2>2. \/ Raise("permission", disk)
          \/ /\ mode # "ro" /\ InBlock(f) /\ CopyIn(MakeRoom(f))
             /\ UNCHANGED <<disk, mode, status>>
          \/ FlushRaises(x)
          \/ ~FlushFails(x) /\ Raise("device", d)
          \/ /\ mode # "ro" /\ ~FlushFails(x) /\ CopyIn(MakeRoom(y)) /\ disk' = d
             /\ UNCHANGED <<mode, status>>
      BY <1>5, <2>1 DEF WriteChunk
    <2>3. CASE FlushRaises(x)
      BY <1>1, <2>1, <2>3, FaultRaises
    <2>4. CASE ~FlushFails(x) /\ Raise("device", d)
      BY <1>1, <2>1, <2>4, FaultView
    <2>5. ASSUME mode # "ro", ~FlushFails(x), CopyIn(MakeRoom(y)), disk' = d,
                 UNCHANGED <<mode, status>>
          PROVE  WritesInto(MakeRoom(y))
      <3>1. PICK v, z : v = View(f, disk) /\ z = MakeRoom(y)
        OBVIOUS
      <3>2. d = v /\ disk' = v /\ FlushedTo(disk')
        BY <1>1, <2>1, <2>5, <3>1, FaultView DEF FlushedTo
      <3>3. /\ v \in Seq(Chars) /\ Typed(y) /\ Placed(y) /\ UpdateIop(y) = y
            /\ View(y, v) = v /\ y.alloc /\ y.boffset >= 1 /\ LNOTE(y) = LNOTE(f)
            /\ y.iop >= 0 /\ y.iop < y.bufsize /\ y.otop = 0 /\ y.filsize >= Len(v)
            /\ y.bufsize = x.bufsize /\ y.boffset = BlockOf(x, LNOTE(f))
            /\ skip => y.itop = 0
            /\ ~skip => Good(y, v)
            /\ f.filsize <= Len(v) => y.filsize <= Len(v)
        BY <1>1, <2>1, <2>5, <3>1, <3>2, FaultView
      <3>4. y.iop \in Int /\ y.boffset \in Nat /\ y.bufsize \in Nat
        BY <3>3 DEF Typed, Desc
      <3>5. InBlock(y)
        BY <3>3, <3>4 DEF InBlock
      <3>6. Roomy(z) /\ z.filsize = y.filsize /\ LNOTE(z) = LNOTE(f)
            /\ z.bufsize = y.bufsize /\ z.boffset = y.boffset
            /\ (Covers(y, v) => Covers(z, v))
        BY <3>1, <3>3, <3>5, MakeRoomRoomy, MakeRoomIs DEF SameBuffer
      <3>7. CASE skip
        <4>1. LNOTE(f) = y.boffset /\ call.left >= y.bufsize
          <5>1. LNOTE(x) = LNOTE(f)
            BY <1>1, <2>1, MakeBufferGood
          <5> QED BY <2>1, <3>3, <3>7, <5>1 DEF Overwritten
        <4>2. y.iop = 0
          BY <3>3, <3>4, <4>1 DEF LNOTE
        <4>3. z.iop = 0 /\ z.otop = z.bufsize /\ Base(z, v, v)
          BY <3>1, <3>3, <3>7, <4>2, SkippedRoom
        <4> QED BY <2>5, <3>1, <3>2, <3>3, <3>6, <4>1, <4>3 DEF WritesInto
      <3>8. CASE ~skip
        <4>1. Good(y, v) /\ Covers(y, v)
          BY <3>3, <3>8 DEF Good
        <4>2. Base(z, v, v)
          BY <3>1, <3>3, <3>5, <4>1, RoomBase
        <4> QED BY <2>5, <3>1, <3>2, <3>3, <3>6, <4>1, <4>2 DEF WritesInto
      <3> QED BY <3>7, <3>8
    <2> QED BY <1>4, <2>2, <2>3, <2>4, <2>5
  <1> QED BY <1>3, <1>5

\* n chars of s are copied into the buffer of x.
Takes(x, n, s) ==
    /\ x.iop + n <= x.otop /\ n <= call.left /\ n \in {call.left, x.otop - x.iop}
    /\ f' = Copied(x, n, s) /\ out' = << >>
    /\ call' = IF n = call.left THEN NoCall
               ELSE [call EXCEPT !.left = call.left - n, !.done = call.done + n]

LEMMA CopyInIs ==
  ASSUME NEW x, Roomy(x), CopyIn(x), call \in Calls, call.left >= 1
  PROVE  \E n \in Nat \ {0} : \E s \in [1..n -> Char] : Takes(x, n, s)
  <1>1. x.iop \in Nat /\ x.otop \in Nat /\ x.iop < x.otop /\ call.left \in Nat
    BY BufferAssumption DEF Roomy, Typed, Desc, Calls
  <1>2. PICK n \in Nat \ {0} : n = Lower(call.left, x.otop - x.iop)
    BY <1>1 DEF Lower
  <1>3. PICK s \in [1..n -> Char] : f' = Copied(x, n, s)
    <2>1. \E s \in [1..Lower(call.left, x.otop - x.iop) -> Char] :
            f' = Copied(x, Lower(call.left, x.otop - x.iop), s)
      BY Zenon DEF CopyIn, Copied
    <2> QED BY <1>2, <2>1
  <1>4. out' = << >>
    BY DEF CopyIn
  <1>5. call' = IF n = call.left THEN NoCall
                ELSE [call EXCEPT !.left = call.left - n, !.done = call.done + n]
    BY <1>2 DEF CopyIn, Calls
  <1>6. x.iop + n <= x.otop /\ n <= call.left /\ n \in {call.left, x.otop - x.iop}
    BY <1>1, <1>2 DEF Lower
  <1>7. Takes(x, n, s)
    BY <1>3, <1>4, <1>5, <1>6 DEF Takes
  <1> QED BY <1>7

\* What the descriptor is when a chunk has been written into its buffer.
LEMMA TakenGood ==
  ASSUME NEW x, WritesInto(x), NEW n \in Nat \ {0}, NEW s \in [1..n -> Char], Takes(x, n, s),
         call \in Calls
  PROVE  Good(f', disk') /\ f'.otop = x.otop /\ LNOTE(f') = LNOTE(x) + n
  <1>1. PICK d, y : d = disk' /\ y = f'
    OBVIOUS
  <1>2. /\ Roomy(x) /\ d \in Seq(Chars) /\ x.filsize >= Len(d) /\ x.iop + n <= x.otop
        /\ y = Copied(x, n, s)
    BY <1>1 DEF WritesInto, Takes
  <1>3. Covers(x, d) \/ (x.iop = 0 /\ n = x.bufsize)
    <2>1. x.iop \in Nat /\ x.otop \in Nat /\ x.bufsize \in Nat
      BY <1>2 DEF Roomy, Typed, Desc
    <2> QED BY <1>1, <2>1, BufferAssumption DEF WritesInto, Takes, Calls
  <1>4. Good(y, d) /\ y.otop = x.otop /\ LNOTE(y) = LNOTE(x) + n
    BY <1>2, <1>3, CopiedGood
  <1> QED BY <1>1, <1>4

LEMMA WriteInv ==
  ASSUME IInv, WriteChunk
  PROVE  IInv'
  <1>1. Live /\ call \in Calls /\ call.op = "write" /\ call.left + call.done <= MaxXfer
        /\ call.left >= 1 /\ disk \in Seq(Chars)
    BY DEF IInv, CallOK, WriteChunk
  <1>2. CASE Raise("permission", disk)
    BY <1>1, <1>2, RaiseInv
  <1>3. CASE RaisesFor(f)
    BY <1>1, <1>3, FlushRaisesInv DEF RaisesFor
  <1>4. CASE Raise("device", View(f, disk)) /\ View(f, disk) \in Seq(Chars)
    BY <1>1, <1>4, RaiseInv
  <1>5. ASSUME NEW x, WritesInto(x)
        PROVE  IInv'
    <2>1. Roomy(x) /\ CopyIn(x) /\ mode' = mode /\ status' = status /\ mode # "ro"
          /\ disk' \in Seq(Chars)
      BY <1>5 DEF WritesInto
    <2>2. PICK n \in Nat \ {0} : \E s \in [1..n -> Char] : Takes(x, n, s)
      BY <1>1, <2>1, CopyInIs
    <2>3. PICK s \in [1..n -> Char] : Takes(x, n, s)
      BY <2>2
    <2>4. Good(f', disk')
      BY <1>1, <1>5, <2>3, TakenGood
    <2>5. Live'
      BY <1>1, <2>1 DEF Live
    <2>6. out' = << >> /\ n <= call.left
      BY <2>3 DEF Takes
    <2>7. CallOK'
      <3>1. CASE n = call.left
        BY <2>3, <3>1, NoCallIs DEF CallOK, Takes
      <3>2. CASE n # call.left
        <4>1. call' = [call EXCEPT !.left = call.left - n, !.done = call.done + n]
          BY <2>3, <3>2 DEF Takes
        <4>2. PICK left \in Int : left = call.left /\ n < left
          BY <1>1, <2>6, <3>2, BufferAssumption DEF Calls
        <4>3. call' \in Calls /\ call'.left >= 1 /\ call'.left + call'.done <= MaxXfer
          <5>1. call' = [call EXCEPT !.left = left - n, !.done = call.done + n]
            BY <4>1, <4>2
          <5>2. left <= call.left
            BY <4>2
          <5> QED BY <1>1, <4>2, <5>1, <5>2, CallGoesOn
        <4> QED BY <2>5, <4>3 DEF CallOK
      <3> QED BY <3>1, <3>2
    <2> QED BY <2>1, <2>4, <2>5, <2>6, <2>7, EmptyIsSeq DEF IInv
  <1> QED BY <1>2, <1>3, <1>4, <1>5, WriteOutcome

-----------------------------------------------------------------------------
(* Type correctness.                                                       *)

LEMMA NextInv ==
  ASSUME IInv, [Next]_vars
  PROVE  IInv'
  <1>1. CASE UNCHANGED vars
    BY <1>1 DEF vars, IInv, CallOK, Live
  <1>2. CASE Next
    BY <1>2, OpenInv, StartInv, ReadInv, WriteInv, SeekInv, SeekEOFInv, FlushInv, CloseInv,
       SetBufSizeInv, SetCancelInv, CleanupInv DEF Next
  <1> QED BY <1>1, <1>2

LEMMA Invariance == Spec => []IInv
  BY InitInv, NextInv, PTL DEF Spec

LEMMA InvType == IInv => TypeOK
  <1> SUFFICES ASSUME IInv
               PROVE  TypeOK
    OBVIOUS
  <1>1. Typed(f)
    BY NoFileIs DEF IInv, Good
  <1>2. f.itop \in 0..f.bufsize /\ f.otop \in 0..f.bufsize
    BY <1>1 DEF Typed, Desc
  <1> QED BY <1>1, <1>2 DEF IInv, TypeOK, CallOK, Calls, Typed, Desc

\* Whatever a program does with a file, its buffer holds bufsize chars, the ends
\* of its readable and writable parts are in it, and the file is made of chars
\* that were written or were in memory.
THEOREM TypeCorrect == Spec => []TypeOK
  BY Invariance, InvType, PTL

-----------------------------------------------------------------------------
(* What is asked of the kernel.                                            *)

\* A buffer that is written back is aligned, and if it is not whole blocks of the
\* device it reaches the end of the file.
LEMMA WholeBlocks ==
  ASSUME NEW d \in Seq(Chars), NEW x, Good(x, d), UpdateIop(x).otop > 0
  PROVE  LET u == UpdateIop(x)
         IN  /\ u.boffset >= 1 => (u.boffset - 1) % BLKSIZE = 0
             /\ u.boffset >= 1 =>
                  u.otop % BLKSIZE = 0 \/ u.boffset - 1 + u.otop >= Len(d)
  <1>1. PICK u : u = UpdateIop(x)
    OBVIOUS
  <1>2. Good(u, d) /\ UpdateIop(u) = u
    BY <1>1, UpdateIopGood
  <1>3. Typed(u) /\ Placed(u) /\ Covers(u, d) /\ u.otop \in Nat /\ u.boffset \in Nat
        /\ u.itop \in Nat /\ Len(d) \in Nat
    BY <1>2, LenProperties DEF Good, Typed, Desc
  <1>4. u.alloc
    BY <1>1, <1>3 DEF Placed
  <1>5. u.otop = u.itop
    <2>1. UpdateIop(u).otop \in {0, UpdateIop(u).itop}
      BY <1>3, UpdateIopOtop
    <2> QED BY <1>1, <1>2, <2>1
  <1> QED BY <1>1, <1>2, <1>3, <1>4, <1>5 DEF Placed, Covers

\* Nothing is written to the device but the buffer, and only where it may be.
LEMMA FlushWrites ==
  ASSUME NEW d, FlushedTo(d), d # disk, Good(f, disk), disk \in Seq(Chars)
  PROVE  UpdateIop(f).otop > 0 /\ Writable(UpdateIop(f))
  <1>1. d = View(f, disk) /\ ~FlushFails(f)
    BY DEF FlushedTo
  <1>2. Typed(f) /\ UpdateIop(f).otop \in Nat
    BY UpdateIopIs DEF Good, Typed, Desc
  <1>3. UpdateIop(f).otop # 0
    BY <1>1, <1>2, ViewClean
  <1> QED BY <1>1, <1>2, <1>3 DEF FlushFails, Modified

LEMMA RaiseWrites ==
  ASSUME NEW x, Good(x, disk), disk \in Seq(Chars), FlushRaises(x), disk' # disk
  PROVE  UpdateIop(x).otop > 0 /\ Writable(UpdateIop(x))
  BY FlushRaisesIs DEF Raise, FlushRaises, Modified

LEMMA TransferWrites ==
  ASSUME IInv, [Next]_vars, Transfer
  PROVE  Live /\ UpdateIop(f).otop > 0 /\ Writable(UpdateIop(f))
  <1>1. mode # "closed" /\ disk' # disk /\ disk' # << >> /\ disk \in Seq(Chars)
    BY DEF Transfer, IInv
  <1>2. CASE ReadChunk
    <2>1. Live /\ Good(f, disk)
      BY <1>2 DEF IInv, CallOK, ReadChunk
    <2>2. RaisesFor(f) \/ FlushedTo(disk')
      BY <1>2, ReadOutcome DEF Raise, ReadsFrom, FlushedTo
    <2> QED BY <1>1, <2>1, <2>2, FlushWrites, RaiseWrites DEF RaisesFor
  <1>3. CASE WriteChunk
    <2>1. Live /\ Good(f, disk)
      BY <1>3 DEF IInv, CallOK, WriteChunk
    <2>2. RaisesFor(f) \/ FlushedTo(disk')
      BY <1>3, WriteOutcome DEF Raise, WritesInto, FlushedTo
    <2> QED BY <1>1, <2>1, <2>2, FlushWrites, RaiseWrites DEF RaisesFor
  <1>4. CASE Flush \/ Close \/ SetBufSize \/ Cleanup
    <2>1. Ready /\ (FlushRaises(f) \/ (~FlushFails(f) /\ disk' = FlushedDisk(f, disk)))
      BY <1>1, <1>4 DEF Flush, Close, SetBufSize, Cleanup
    <2>2. Live /\ Good(f, disk)
      BY <2>1 DEF IInv, Ready, Live
    <2>3. FlushRaises(f) \/ FlushedTo(disk')
      BY <1>1, <2>1, <2>2, FlushGood DEF FlushedTo
    <2> QED BY <1>1, <2>2, <2>3, FlushWrites, RaiseWrites
  <1>5. CASE Open \/ StartRead \/ StartWrite \/ Seek \/ SeekEOF \/ SetCancel \/ UNCHANGED vars
    BY <1>1, <1>5 DEF Open, StartRead, StartWrite, Seek, SeekEOF, SetCancel, vars
  <1> QED BY <1>2, <1>3, <1>4, <1>5 DEF Next

\* FIO never asks the kernel to write at an offset that is not on a block of the
\* device, nor to write a part of a block within the file: what the binary file
\* driver is told it may rely on (unix/os/zfiobf.c), whatever the program does.
THEOREM KernelContractHolds == Spec => KernelContract
  <1>1. IInv /\ [Next]_vars =>
          [Transfer => LET u == UpdateIop(f)
                       IN  /\ (u.boffset - 1) % BLKSIZE = 0
                           /\ u.otop % BLKSIZE = 0 \/ u.boffset - 1 + u.otop >= Len(disk)]_vars
    <2> SUFFICES ASSUME IInv, [Next]_vars, Transfer
                 PROVE  LET u == UpdateIop(f)
                        IN  /\ (u.boffset - 1) % BLKSIZE = 0
                            /\ u.otop % BLKSIZE = 0 \/ u.boffset - 1 + u.otop >= Len(disk)
      OBVIOUS
    <2>1. Live /\ UpdateIop(f).otop > 0 /\ Writable(UpdateIop(f))
      BY TransferWrites
    <2>2. Good(f, disk) /\ disk \in Seq(Chars) /\ UpdateIop(f).boffset >= 1
      BY <2>1 DEF IInv, Writable
    <2> QED BY <2>1, <2>2, WholeBlocks
  <1> QED BY <1>1, Invariance, PTL DEF Spec, KernelContract

-----------------------------------------------------------------------------
(* What follows when F_CANCEL is used on files that are read only.         *)

\* Only the buffer of a file that cannot be written is invalid.
ReadOnlyCancelled == f.alloc /\ f.boffset = 0 => mode = "ro"

RInv == IInv /\ ReadOnlyCancelled

LEMMA RInvNext ==
  ASSUME CancelModes \subseteq {"ro"}, RInv, [Next]_vars
  PROVE  ReadOnlyCancelled'
  <1>1. IInv /\ disk \in Seq(Chars)
    BY DEF RInv, IInv
  <1>2. ASSUME Ready PROVE Good(f, disk)
    BY <1>1, <1>2 DEF IInv, Ready, Live
  <1>3. ASSUME f' = NoFile PROVE ReadOnlyCancelled'
    BY <1>3, NoFileIs DEF ReadOnlyCancelled
  <1>4. ASSUME mode' = mode, NEW x, x = f', SameBuffer(x, f) PROVE ReadOnlyCancelled'
    BY <1>4 DEF ReadOnlyCancelled, RInv, SameBuffer
  <1>5. ASSUME NEW x, FlushRaises(x) PROVE f' = NoFile
    BY <1>5 DEF FlushRaises, Raise
  <1>6. CASE Open
    <2>1. PICK size, n, i : f' = [NoFile EXCEPT !.bufsize = size, !.filsize = n, !.iop = i]
                            \/ f' = [NoFile EXCEPT !.bufsize = size, !.filsize = n]
      BY <1>6 DEF Open
    <2>2. f'.alloc = FALSE
      BY <2>1 DEF NoFile
    <2> QED BY <2>2 DEF ReadOnlyCancelled
  <1>7. CASE StartRead \/ StartWrite \/ UNCHANGED vars
    BY <1>7 DEF StartRead, StartWrite, vars, ReadOnlyCancelled, RInv
  <1>8. CASE ReadChunk
    <2>1. CASE RaisesFor(f) \/ Raise("device", View(f, disk))
      BY <1>3, <1>5, <2>1 DEF RaisesFor, Raise
    <2>2. ASSUME NEW x, NEW left, ReadsFrom(x, left)
          PROVE  ReadOnlyCancelled'
      <3>1. mode' = mode /\ Good(x, disk') /\ x.alloc /\ x.iop >= 0 /\ CopyOut(x, left)
            /\ left \in Int /\ (x.boffset = 0 => f.alloc /\ f.boffset = 0)
            /\ disk' \in Seq(Chars)
        BY <2>2 DEF ReadsFrom
      <3>2. PICK d : d = disk'
        OBVIOUS
      <3>3. f' = x \/ \E n \in Nat \ {0} : f' = SetIop(x, x.iop + n)
        BY <1>1, <3>1, <3>2, CopyOutIs DEF Delivers, IInv, CallOK
      <3>4. f'.boffset = x.boffset
        <4>1. CASE f' = x
          BY <4>1
        <4>2. ASSUME NEW n \in Nat \ {0}, f' = SetIop(x, x.iop + n)
              PROVE  f'.boffset = x.boffset
          BY <3>1, <4>2 DEF SetIop, Good, Typed, Desc
        <4> QED BY <3>3, <4>1, <4>2
      <3> QED BY <3>1, <3>4 DEF ReadOnlyCancelled, RInv
    <2> QED BY <1>1, <1>8, <2>1, <2>2, ReadOutcome
  <1>9. CASE WriteChunk
    <2>1. CASE RaisesFor(f) \/ Raise("device", View(f, disk)) \/ Raise("permission", disk)
      BY <1>3, <1>5, <2>1 DEF RaisesFor, Raise
    <2>2. ASSUME NEW x, WritesInto(x)
          PROVE  ReadOnlyCancelled'
      <3>1. mode' = mode /\ Roomy(x) /\ CopyIn(x) /\ mode # "ro"
            /\ (x.boffset = 0 => f.alloc /\ f.boffset = 0)
        BY <2>2 DEF WritesInto, Roomy
      <3>2. call \in Calls /\ call.left >= 1
        BY <1>1, <1>9 DEF IInv, CallOK, WriteChunk
      <3>3. PICK n \in Nat \ {0} : \E s \in [1..n -> Char] : Takes(x, n, s)
        BY <3>1, <3>2, CopyInIs
      <3>4. PICK s \in [1..n -> Char] : f' = Copied(x, n, s)
        BY <3>3 DEF Takes
      <3>5. f'.boffset = x.boffset
        BY <3>1, <3>4 DEF Copied, Roomy, Typed, Desc
      <3> QED BY <3>1, <3>5 DEF ReadOnlyCancelled, RInv
    <2> QED BY <1>1, <1>9, <2>1, <2>2, WriteOutcome
  <1>10. CASE Seek
    <2>1. Ready /\ mode' = mode /\ \E off \in 1..MaxSize + 1 : f' = LSEEK(f, off)
      BY <1>10 DEF Seek
    <2>2. PICK off \in Nat \ {0} : f' = LSEEK(f, off)
      BY <2>1, BufferAssumption
    <2>3. PICK x : x = LSEEK(f, off)
      OBVIOUS
    <2> QED BY <1>2, <1>4, <2>1, <2>2, <2>3, SeekGood
  <1>11. CASE SeekEOF
    <2>1. Ready /\ mode' = mode /\ f' = LSEEK(Filsz(f), Filsz(f).filsize + 1)
      BY <1>11 DEF SeekEOF
    <2>2. PICK x, y : x = Filsz(f) /\ y = f'
      OBVIOUS
    <2>3. Good(x, disk) /\ SameBuffer(x, f)
      BY <1>1, <1>2, <2>1, <2>2, FilszGood
    <2>4. PICK off \in Nat \ {0} : off = x.filsize + 1
      BY <2>3 DEF Good, Typed, Desc
    <2>5. SameBuffer(y, x)
      BY <2>1, <2>2, <2>3, <2>4, SeekGood
    <2> QED BY <1>4, <2>1, <2>2, <2>3, <2>5 DEF SameBuffer
  <1>12. CASE Flush
    <2>1. Ready /\ (FlushRaises(f) \/ (~FlushFails(f) /\ f' = Flushed(f) /\ mode' = mode))
      BY <1>12 DEF Flush
    <2>2. PICK x : x = f'
      OBVIOUS
    <2> QED BY <1>1, <1>2, <1>3, <1>4, <1>5, <2>1, <2>2, FlushGood
  <1>13. CASE Close \/ Cleanup
    BY <1>3, <1>5, <1>13 DEF Close, Cleanup
  <1>14. CASE SetBufSize
    <2>1. CASE FlushRaises(f)
      BY <1>3, <1>5, <2>1
    <2>2. ASSUME Ready, ~FlushFails(f), NEW size \in BufSizes,
                 f' = [ReturnBuffer(Flushed(f)) EXCEPT !.bufsize = size]
          PROVE  ReadOnlyCancelled'
      <3>1. PICK e, v : e = Flushed(f) /\ v = View(f, disk)
        OBVIOUS
      <3>2. v \in Seq(Chars) /\ Good(e, v) /\ e.otop = 0
        BY <1>1, <1>2, <2>2, <3>1, FlushGood
      <3>3. size \in Nat \ {0} /\ f' = [ReturnBuffer(e) EXCEPT !.bufsize = size]
        BY <2>2, <3>1, BufferAssumption
      <3>4. ~f'.alloc
        BY <3>2, <3>3, ReturnBufferGood
      <3> QED BY <3>4 DEF ReadOnlyCancelled
    <2> QED BY <1>14, <2>1, <2>2 DEF SetBufSize
  <1>15. CASE SetCancel
    BY <1>15 DEF SetCancel, ReadOnlyCancelled
  <1> QED BY <1>6, <1>7, <1>8, <1>9, <1>10, <1>11, <1>12, <1>13, <1>14, <1>15 DEF Next

LEMMA RInvariance ==
  ASSUME CancelModes \subseteq {"ro"}
  PROVE  Spec => []RInv
  <1>1. Init => RInv
    BY InitInv, NoFileIs DEF Init, RInv, ReadOnlyCancelled
  <1>2. RInv /\ [Next]_vars => RInv'
    BY NextInv, RInvNext DEF RInv
  <1> QED BY <1>1, <1>2, PTL DEF Spec

\* Then what is to be written back belongs to a place of the file.
LEMMA RInvValid ==
  ASSUME RInv, Live
  PROVE  Good(f, disk) /\ Valid(f)
  <1>1. Good(f, disk) /\ Typed(f) /\ f.boffset \in Nat
    BY DEF RInv, IInv, Good, Typed, Desc
  <1>2. ASSUME UpdateIop(f).otop > 0 PROVE f.boffset >= 1
    <2>1. f.otop # 0
      BY <1>1, <1>2, CleanIsDone
    <2>2. f.alloc /\ mode # "ro"
      BY <1>1, <2>1 DEF Good, Placed, RInv, IInv
    <2> QED BY <1>1, <2>2 DEF RInv, ReadOnlyCancelled
  <1> QED BY <1>1, <1>2 DEF Valid

LEMMA StrayRaises ==
  ASSUME RInv, Live, FlushRaises(f), status' = "bounds"
  PROVE  f.boffset > Len(disk) + 1
  <1>1. Good(f, disk) /\ Valid(f) /\ disk \in Seq(Chars) /\ Len(disk) \in Nat
    BY RInvValid, LenProperties DEF RInv, IInv
  <1>2. PICK u : u = UpdateIop(f)
    OBVIOUS
  <1>3. u.otop > 0 /\ ~Writable(u)
    BY <1>2 DEF FlushRaises, Raise, Modified
  <1>4. Good(u, disk) /\ u.boffset = f.boffset
    BY <1>1, <1>2, UpdateIopGood, UpdateIopIs DEF Good, SameBuffer
  <1>5. Placed(u) /\ u.filsize \in Nat /\ u.filsize >= Len(disk) /\ u.boffset \in Nat
        /\ u.boffset >= 1
    BY <1>1, <1>2, <1>3, <1>4 DEF Good, Typed, Desc, Valid
  <1>6. u.alloc
    BY <1>3, <1>5 DEF Placed
  <1> QED BY <1>1, <1>3, <1>4, <1>5, <1>6 DEF Writable, Placed

\* When F_CANCEL is used on files that are read only, FIO refuses to write a
\* buffer back only when the program has written beyond the end of the file.
THEOREM OnlyStrayFailsHolds ==
  ASSUME CancelModes \subseteq {"ro"}
  PROVE  Spec => OnlyStrayFails
  <1>1. RInv /\ [Next]_vars =>
          [status = "ok" /\ status' = "bounds" => f.boffset > Len(disk) + 1]_vars
    <2> SUFFICES ASSUME RInv, [Next]_vars, status = "ok", status' = "bounds"
                 PROVE  f.boffset > Len(disk) + 1
      OBVIOUS
    <2>1. IInv
      BY DEF RInv
    <2>2. Live /\ FlushRaises(f)
      <3>1. CASE ReadChunk
        <4>1. Live
          BY <2>1, <3>1 DEF IInv, CallOK, ReadChunk
        <4>2. RaisesFor(f)
          BY <2>1, <3>1, ReadOutcome DEF Raise, ReadsFrom
        <4> QED BY <4>1, <4>2 DEF RaisesFor
      <3>2. CASE WriteChunk
        <4>1. Live
          BY <2>1, <3>2 DEF IInv, CallOK, WriteChunk
        <4>2. RaisesFor(f)
          BY <2>1, <3>2, WriteOutcome DEF Raise, WritesInto
        <4> QED BY <4>1, <4>2 DEF RaisesFor
      <3>3. CASE Flush \/ Close \/ SetBufSize
        BY <3>3 DEF Flush, Close, SetBufSize, Ready, Live
      <3>4. CASE Open \/ StartRead \/ StartWrite \/ Seek \/ SeekEOF \/ SetCancel \/ Cleanup
                 \/ UNCHANGED vars
        BY <3>4 DEF Open, StartRead, StartWrite, Seek, SeekEOF, SetCancel, Cleanup, vars
      <3> QED BY <3>1, <3>2, <3>3, <3>4 DEF Next
    <2> QED BY <2>2, StrayRaises
  <1>2. Spec => []RInv
    BY RInvariance
  <1> QED BY <1>1, <1>2, PTL DEF Spec, OnlyStrayFails

-----------------------------------------------------------------------------
(* The buffer and the file that the program sees.                          *)

\* The good data of the buffer is in the file.
LEMMA BufferView ==
  ASSUME NEW d \in Seq(Chars), NEW x, Good(x, d), Valid(x), NEW k \in Nat, k < x.itop
  PROVE  x.boffset + k \in 1..Len(View(x, d)) /\ View(x, d)[x.boffset + k] = x.buf[k]
  <1>1. /\ Typed(x) /\ Placed(x) /\ x.itop \in Nat /\ x.boffset \in Nat
        /\ UpdateIop(x).otop \in Nat
    <2>1. Typed(x) /\ Placed(x) /\ Typed(UpdateIop(x))
      BY UpdateIopIs DEF Good
    <2> QED BY <2>1 DEF Typed, Desc
  <1>2. CASE UpdateIop(x).otop = 0
    <2>1. x.otop = 0 /\ View(x, d) = d
      BY <1>1, <1>2, UpdateIopOtop, ViewClean
    <2>2. k \in 0..x.itop - 1
      BY <1>1
    <2> QED BY <2>1, <2>2 DEF Good, Clean
  <1>3. CASE UpdateIop(x).otop > 0
    <2>0. PICK t \in Nat : t = UpdateIop(x).otop
      BY <1>1
    <2>1. PICK v : t = UpdateIop(x).otop /\ v = View(x, d)
      BY <2>0
    <2>2. t >= x.itop /\ x.boffset >= 1
      BY <1>1, <1>3, <2>1, UpdateIopOtop DEF Valid
    <2>3. ViewAt(x, d, v)
      BY <2>1, ViewIs
    <2>4. Len(d) \in Nat /\ Len(v) = Higher(Len(d), x.boffset + t - 1)
      BY <1>3, <2>1, <2>3, LenProperties DEF ViewAt
    <2>5. x.boffset + k \in 1..Len(v)
      BY <1>1, <2>2, <2>4 DEF Higher
    <2>6. PICK j \in 1..Len(v) : j = x.boffset + k
      BY <2>5
    <2>7. j \in x.boffset..x.boffset + t - 1 /\ j - x.boffset = k
      BY <1>1, <2>2, <2>6
    <2>8. v[j] = x.buf[j - x.boffset]
      BY <2>1, <2>3, <2>7 DEF ViewAt
    <2> QED BY <2>1, <2>5, <2>6, <2>7, <2>8
  <1> QED BY <1>1, <1>2, <1>3

\* How far the good data of a buffer with room in it goes, before and after the
\* n chars are copied.
LEMMA GoodEnd ==
  ASSUME NEW x, Roomy(x), NEW n \in Nat \ {0}, x.iop + n <= x.otop,
         NEW s \in [1..n -> Char]
  PROVE  /\ UpdateIop(x).otop = Higher(x.itop, x.iop)
         /\ UpdateIop(Copied(x, n, s)).otop = Higher(x.itop, x.iop + n)
  <1>1. /\ Typed(x) /\ x.alloc /\ x.otop \in Nat /\ x.itop \in Nat /\ x.iop \in Nat
        /\ x.bufsize \in Nat \ {0} /\ x.otop <= x.bufsize /\ x.itop <= x.bufsize
    BY DEF Roomy, Typed, Desc
  <1>2. PICK y : y = Copied(x, n, s)
    OBVIOUS
  <1>3. /\ Typed(y) /\ y.alloc /\ y.bufsize = x.bufsize
        /\ y.iop = x.iop + n /\ y.itop = x.itop /\ y.otop = x.otop
    BY <1>1, <1>2, CopiedIs DEF Roomy
  <1>4. CASE x.otop = x.bufsize
    <2>1. UpdateIop(x).otop = Top(x) /\ UpdateIop(y).otop = Top(y)
      BY <1>1, <1>3, <1>4, UpdateIopIs
    <2> QED BY <1>1, <1>2, <1>3, <1>4, <2>1 DEF Top, Lower, Higher
  <1>5. CASE x.otop # x.bufsize
    <2>1. UpdateIop(x) = x /\ UpdateIop(y) = y /\ x.otop = x.itop
      BY <1>1, <1>3, <1>5, UpdateIopIs DEF Roomy
    <2> QED BY <1>1, <1>2, <1>3, <2>1 DEF Higher
  <1> QED BY <1>4, <1>5

\* The file c with the n chars of s at offset p, byte by byte.
Overlaid(c, p, n, s, v) ==
    /\ Len(v) = Higher(Len(c), p + n - 1)
    /\ \A k \in 1..Len(v) :
         /\ k \in p..p + n - 1 => v[k] = s[k - p + 1]
         /\ k < p /\ k <= Len(c) => v[k] = c[k]
         /\ k >= p + n => v[k] = c[k]

\* Copying into the buffer writes into the file that the program sees.
LEMMA CopiedView ==
  ASSUME NEW d \in Seq(Chars), NEW x, Roomy(x), NEW n \in Nat \ {0}, x.iop + n <= x.otop,
         NEW s \in [1..n -> Char], NEW c \in Seq(Chars), Base(x, d, c),
         Good(Copied(x, n, s), d)
  PROVE  LET v == View(Copied(x, n, s), d)
         IN  v \in Seq(Chars) /\ Overlaid(c, LNOTE(x), n, s, v)
  <1>1. /\ Typed(x) /\ x.alloc /\ x.itop \in Nat /\ x.iop \in Nat /\ x.otop \in Nat
        /\ x.bufsize \in Nat \ {0} /\ x.otop <= x.bufsize /\ x.itop <= x.bufsize
        /\ Len(d) \in Nat /\ Len(c) \in Nat
    BY LenProperties DEF Roomy, Typed, Desc
  <1>2. PICK o \in Nat : o = x.boffset /\ o >= 1
    BY <1>1 DEF Base, Typed, Desc
  <1>3. PICK i \in Nat, m \in Nat : i = x.iop /\ m = x.itop
    BY <1>1
  <1>4. PICK y, v : y = Copied(x, n, s) /\ v = View(y, d)
    OBVIOUS
  <1>5. PICK tx \in Nat, ty \in Nat :
          /\ tx = Higher(m, i) /\ ty = Higher(m, i + n)
          /\ tx = UpdateIop(x).otop /\ ty = UpdateIop(y).otop
    BY <1>3, <1>4, GoodEnd, SMTT(30) DEF Higher
  <1>6. /\ Good(y, d) /\ y.boffset = o
        /\ \A k \in 0..x.bufsize - 1 :
             y.buf[k] = IF k \in i..i + n - 1 THEN s[k - i + 1] ELSE x.buf[k]
    <2>1. x.iop + n <= x.bufsize /\ x.iop >= 0
      BY <1>1
    <2>2. LET z == Copied(x, n, s)
          IN  /\ z.boffset = x.boffset
              /\ \A k \in 0..x.bufsize - 1 :
                   z.buf[k] = IF k \in x.iop..x.iop + n - 1 THEN s[k - x.iop + 1] ELSE x.buf[k]
      BY <1>1, <2>1, CopiedIs, ZenonT(60)
    <2> QED BY <1>2, <1>3, <1>4, <2>2, SMTT(30)
  <1>7. ty > 0 /\ ty <= x.bufsize
    BY <1>1, <1>3, <1>5 DEF Higher
  <1>8. ViewAt(y, d, v)
    BY <1>2, <1>4, <1>6, ViewIs DEF Valid
  <1>9. /\ v \in Seq(Chars) /\ Len(v) = Higher(Len(d), o + ty - 1)
        /\ \A k \in 1..Len(v) :
             v[k] = IF k \in o..o + ty - 1 THEN y.buf[k - o]
                    ELSE IF k <= Len(d) THEN d[k] ELSE Junk
    BY <1>5, <1>6, <1>7, <1>8 DEF ViewAt
  <1>10. /\ \A k \in 1..Len(c) :
              c[k] = IF k \in o..o + tx - 1 THEN x.buf[k - o]
                     ELSE IF k <= Len(d) THEN d[k] ELSE Junk
         /\ Len(d) <= Len(c) /\ Len(c) <= Higher(Len(d), o + tx - 1)
         /\ m > 0 => Len(c) >= o + m - 1
    BY <1>2, <1>3, <1>5 DEF Base
  <1>11. LNOTE(x) = o + i
    BY <1>2, <1>3 DEF LNOTE
  <1>12. PICK ld \in Nat, lc \in Nat, lv \in Nat :
           /\ ld = Len(d) /\ lc = Len(c) /\ lv = Len(v)
           /\ lv = Higher(ld, o + ty - 1)
           /\ ld <= lc /\ lc <= Higher(ld, o + tx - 1) /\ (m > 0 => lc >= o + m - 1)
    BY <1>1, <1>9, <1>10, LenProperties
  <1>13. lv = Higher(lc, o + i + n - 1)
    <2>1. CASE m >= i + n
      <3>1. ty = m /\ tx = m /\ m > 0
        BY <1>5, <2>1 DEF Higher
      <3>2. lc >= o + m - 1 /\ ld <= lc /\ lc <= Higher(ld, o + m - 1)
            /\ lv = Higher(ld, o + m - 1)
        BY <1>12, <3>1
      <3>3. lv = lc
        BY <1>2, <3>2 DEF Higher
      <3>4. o + i + n - 1 <= lc
        BY <1>2, <2>1, <3>2
      <3> QED BY <3>3, <3>4 DEF Higher
    <2>2. CASE m < i + n
      <3>1. ty = i + n /\ tx < i + n
        BY <1>5, <2>2 DEF Higher
      <3> QED BY <1>2, <1>12, <3>1, SMTT(30) DEF Higher
    <2> QED BY <2>1, <2>2
  <1>14. ASSUME NEW k \in 1..Len(v), k \in o + i..o + i + n - 1
         PROVE  v[k] = s[k - (o + i) + 1]
    <2>1. k \in o..o + ty - 1 /\ k - o \in 0..x.bufsize - 1 /\ k - o \in i..i + n - 1
      BY <1>1, <1>5, <1>7, <1>14 DEF Higher
    <2>2. v[k] = y.buf[k - o]
      BY <1>9, <2>1
    <2>3. y.buf[k - o] = s[(k - o) - i + 1]
      BY <1>6, <2>1
    <2>4. (k - o) - i + 1 = k - (o + i) + 1
      OBVIOUS
    <2> QED BY <2>2, <2>3, <2>4
  <1>15. ASSUME NEW k \in 1..Len(v), k \in 1..Len(c), k < o + i
         PROVE  v[k] = c[k]
    <2>0. k \in Int
      BY <1>12
    <2>1. CASE k >= o
      <3>1. i <= tx /\ i <= ty /\ ty <= x.bufsize /\ x.bufsize \in Nat
        BY <1>1, <1>5, <1>7 DEF Higher
      <3>2. k \in o..o + ty - 1 /\ k \in o..o + tx - 1 /\ k - o \in 0..x.bufsize - 1
            /\ k - o \notin i..i + n - 1
        BY <1>15, <2>0, <2>1, <3>1
      <3> QED BY <1>6, <1>9, <1>10, <1>15, <3>2
    <2>2. CASE k < o
      <3>1. k \notin o..o + ty - 1 /\ k \notin o..o + tx - 1
        BY <2>2
      <3> QED BY <1>9, <1>10, <1>15, <3>1
    <2> QED BY <2>1, <2>2
  <1>16. ASSUME NEW k \in 1..Len(v), k >= o + i + n
         PROVE  v[k] = c[k]
    <2>0. k \in 1..lv
      BY <1>12
    <2>1. CASE k <= o + ty - 1
      <3>1. ty = m /\ tx = m /\ m > 0 /\ k \in 1..lc /\ k \in Int
            /\ ty <= x.bufsize /\ x.bufsize \in Nat
        BY <1>1, <1>2, <1>5, <1>7, <1>16, <1>12, <2>0, <2>1, SMTT(30) DEF Higher
      <3>2. /\ k \in o..o + ty - 1 /\ k \in o..o + tx - 1 /\ k - o \in 0..x.bufsize - 1
            /\ k - o \notin i..i + n - 1
        <4>1. k >= o + i + n /\ k <= o + m - 1 /\ k - o \in Int
          BY <1>16, <2>1, <3>1
        <4>2. k - o >= i + n /\ k >= o /\ k - o <= m - 1
          BY <3>1, <4>1
        <4> QED BY <3>1, <4>1, <4>2
      <3> QED BY <1>6, <1>9, <1>10, <1>12, <3>1, <3>2
    <2>2. CASE k > o + ty - 1
      <3>1. k \notin o..o + ty - 1 /\ k \notin o..o + tx - 1 /\ k <= ld /\ k \in 1..lc
        BY <1>2, <1>5, <1>16, <1>12, <2>0, <2>2, SMTT(30) DEF Higher
      <3> QED BY <1>9, <1>10, <1>12, <3>1
    <2> QED BY <2>1, <2>2
  <1>17. Overlaid(c, o + i, n, s, v)
    BY <1>13, <1>14, <1>15, <1>16, <1>12 DEF Overlaid
  <1> QED BY <1>4, <1>9, <1>11, <1>17

-----------------------------------------------------------------------------
(* What becomes permanent.                                                 *)

\* d is the file old after some of what new says has been written to it.
Kept(old, new, d) ==
    /\ Len(d) \in {Len(old)} \cup Len(old)..Len(new)
    /\ \A k \in 1..Len(d) :
         \/ k <= Len(old) /\ d[k] = old[k]
         \/ k <= Len(new) /\ d[k] = new[k]

LEMMA KeptOld ==
  ASSUME NEW d \in Seq(Chars), NEW c
  PROVE  Kept(d, c, d)
  BY LenProperties DEF Kept

LEMMA KeptNew ==
  ASSUME NEW d \in Seq(Chars), NEW c \in Seq(Chars), Len(d) <= Len(c)
  PROVE  Kept(d, c, c)
  BY LenProperties DEF Kept

LEMMA ViewLonger ==
  ASSUME NEW d \in Seq(Chars), NEW x, Good(x, d), Valid(x)
  PROVE  View(x, d) \in Seq(Chars) /\ Len(d) <= Len(View(x, d))
  <1>1. UpdateIop(x).otop \in Nat /\ x.boffset \in Nat
    <2>1. Typed(x) /\ Typed(UpdateIop(x))
      BY UpdateIopIs DEF Good
    <2> QED BY <2>1 DEF Typed, Desc
  <1>2. ViewAt(x, d, View(x, d)) /\ Len(d) \in Nat
    BY ViewIs, LenProperties
  <1> QED BY <1>1, <1>2 DEF ViewAt, Higher

\* So is what a failing flush leaves.
LEMMA KeptPart ==
  ASSUME NEW d \in Seq(Chars), NEW x, Good(x, d), Valid(x), NEW n \in Nat,
         n < UpdateIop(x).otop
  PROVE  Kept(d, View(x, d), Patch(d, x.boffset, x.buf, n))
  <1>1. Typed(x) /\ Placed(UpdateIop(x)) /\ Typed(UpdateIop(x)) /\ x.boffset \in Nat
        /\ SameBuffer(UpdateIop(x), x)
    BY UpdateIopGood, UpdateIopIs DEF Good, Typed, Desc
  <1>2. PICK t \in Nat, o \in Nat : t = UpdateIop(x).otop /\ o = x.boffset
    BY <1>1 DEF Typed, Desc
  <1>3. PICK v, p : v = View(x, d) /\ p = Patch(d, o, x.buf, n)
    OBVIOUS
  <1>4. t > n /\ o >= 1 /\ Len(d) \in Nat
    BY <1>2, LenProperties DEF Valid
  <1>5. /\ Len(v) = Higher(Len(d), o + t - 1)
        /\ \A k \in 1..Len(v) :
             v[k] = IF k \in o..o + t - 1 THEN x.buf[k - o]
                    ELSE IF k <= Len(d) THEN d[k] ELSE Junk
    <2>1. ViewAt(x, d, v)
      BY <1>3, ViewIs
    <2> QED BY <1>2, <1>4, <2>1 DEF ViewAt
  <1>6. \A k \in 0..n - 1 : x.buf[k] \in Chars
    <2>1. PICK u : u = UpdateIop(x)
      OBVIOUS
    <2>2. \A k \in 0..n - 1 : u.buf[k] \in Chars
      BY <1>1, <1>2, <1>4, <2>1, BufferChars
    <2> QED BY <1>1, <2>1, <2>2 DEF SameBuffer
  <1>7. /\ Len(p) = IF n = 0 THEN Len(d) ELSE Higher(Len(d), o + n - 1)
        /\ \A k \in 1..Len(p) :
             p[k] = IF k \in o..o + n - 1 THEN x.buf[k - o]
                    ELSE IF k <= Len(d) THEN d[k] ELSE Junk
    BY <1>3, <1>4, <1>6, PatchIs
  <1>8. Len(p) \in Len(d)..Len(v)
    BY <1>4, <1>5, <1>7 DEF Higher
  <1>9. ASSUME NEW k \in 1..Len(p)
        PROVE  \/ k <= Len(d) /\ p[k] = d[k]
               \/ k <= Len(v) /\ p[k] = v[k]
    <2>1. k \in 1..Len(v)
      BY <1>4, <1>5, <1>8, <1>9 DEF Higher
    <2>2. CASE k \in o..o + n - 1
      <3>1. k \in o..o + t - 1
        BY <1>4, <2>2
      <3> QED BY <1>5, <1>7, <2>1, <2>2, <3>1, SMTT(30)
    <2>3. CASE k \notin o..o + n - 1 /\ k <= Len(d)
      BY <1>7, <2>3
    <2>4. CASE k \notin o..o + n - 1 /\ ~(k <= Len(d))
      <3>1. k \notin o..o + t - 1
        BY <1>4, <1>7, <1>9, <2>4 DEF Higher
      <3> QED BY <1>5, <1>7, <2>1, <2>4, <3>1
    <2> QED BY <2>2, <2>3, <2>4
  <1> QED BY <1>2, <1>3, <1>8, <1>9 DEF Kept

-----------------------------------------------------------------------------
(* The steps of ByteFile, with the file and the position as they are seen  *)
(* here.                                                                   *)

Pos == IF Live THEN LNOTE(f) ELSE 1

LEMMA Seen ==
  /\ Live => Content = View(f, disk) /\ Pos = LNOTE(f)
  /\ ~Live => Content = disk /\ Pos = 1
  BY DEF Content, View, Pos

LEMMA SeenNext ==
  /\ Live' => Content' = View(f', disk') /\ Pos' = LNOTE(f')
  /\ ~Live' => Content' = disk' /\ Pos' = 1
  BY DEF Content, View, Pos, LNOTE, UpdateIop, Patch, Lower, Higher

LEMMA AsHidden ==
  ASSUME Live' <=> Live, out' = << >>, Kept(disk, Content, disk'), Content' = Content,
         Pos' = Pos
  PROVE  File!BNext
  <1>1. Live' = Live
    BY DEF Live
  <1>2. File!Writeback(disk, Content)
    BY DEF File!Writeback, Kept
  <1>3. File!Hidden
    BY <1>1, <1>2 DEF File!Hidden, Pos
  <1> QED BY <1>3 DEF File!BNext

LEMMA AsFail ==
  ASSUME ~Live', out' = << >>, Kept(disk, Content, disk') \/ disk' = << >>
  PROVE  File!BNext
  <1>1. Content' = disk' /\ Pos' = 1
    BY SeenNext
  <1>2. File!Writeback(disk, Content) \/ disk' = << >>
    BY DEF File!Writeback, Kept
  <1>3. File!Fail
    BY <1>1, <1>2 DEF File!Fail, Pos
  <1> QED BY <1>3 DEF File!BNext

LEMMA AsOpen ==
  ASSUME ~Live, Live', out' = << >>, disk' \in {disk, << >>}, Content' = disk',
         Pos' \in {1, Len(disk') + 1}
  PROVE  File!BNext
  <1>1. File!Open
    BY DEF File!Open, Pos
  <1> QED BY <1>1 DEF File!BNext

LEMMA AsSeek ==
  ASSUME Live, Live', out' = << >>, disk' = disk, Content' = Content, Pos' \in Nat
  PROVE  File!BNext
  <1>1. Live' = Live
    BY DEF Live
  <1>2. File!Seek
    BY <1>1 DEF File!Seek, Pos
  <1> QED BY <1>2 DEF File!BNext

LEMMA AsFlush ==
  ASSUME Live, Live', out' = << >>, disk' = Content, Content' = Content, Pos' = Pos
  PROVE  File!BNext
  <1>1. Live' = Live
    BY DEF Live
  <1>2. File!Flush
    BY <1>1 DEF File!Flush, Pos
  <1> QED BY <1>2 DEF File!BNext

LEMMA AsClose ==
  ASSUME Live, ~Live', out' = << >>, disk' = Content
  PROVE  File!BNext
  <1>1. Content' = disk' /\ Pos' = 1
    BY SeenNext
  <1>2. File!Close
    BY <1>1 DEF File!Close, Pos
  <1> QED BY <1>2 DEF File!BNext

LEMMA AsCancel ==
  ASSUME Live, Live', out' = << >>, disk' = disk, Content' = disk, Pos' = Pos
  PROVE  File!BNext
  <1>1. Live' = Live
    BY DEF Live
  <1>2. File!Cancel
    BY <1>1 DEF File!Cancel, Pos
  <1> QED BY <1>2 DEF File!BNext

LEMMA AsEndOfFile ==
  ASSUME Live, Live', out' = <<EOF>>, Content' = Content, Pos' = Pos, Pos > Len(Content),
         Kept(disk, Content, disk')
  PROVE  File!BNext
  <1>1. Live' = Live
    BY DEF Live
  <1>2. File!Writeback(disk, Content)
    BY DEF File!Writeback, Kept
  <1>3. File!Read
    BY <1>1, <1>2 DEF File!Read, Pos
  <1> QED BY <1>3 DEF File!BNext

LEMMA AsRead ==
  ASSUME Live, Live', NEW n \in Nat \ {0}, out' \in Seq(Chars), Len(out') = n,
         Content' = Content, Content \in Seq(Chars), Pos \in Nat \ {0}, Pos' = Pos + n,
         Pos + n - 1 <= Len(Content),
         \A k \in 1..n : out'[k] = Content[Pos + k - 1],
         Kept(disk, Content, disk')
  PROVE  File!BNext
  <1>1. Live' = Live
    BY DEF Live
  <1>2. File!Writeback(disk, Content)
    BY DEF File!Writeback, Kept
  <1>3. out' # << >> /\ out' # <<EOF>>
    <2>1. out'[1] \in Chars
      BY ElementOfSeq
    <2>2. EOF \notin Chars
      BY BufferAssumption DEF Chars
    <2> QED BY <2>1, <2>2
  <1>4. out' = SubSeq(Content, Pos, Pos + Len(out') - 1)
    <2>0. PICK p \in Nat, q \in Int : p = Pos /\ q = Pos + Len(out') - 1
      OBVIOUS
    <2>1. PICK c, o : c = Content /\ o = out' /\ p = Pos /\ q = Pos + Len(out') - 1
      BY <2>0
    <2>2. p >= 1 /\ q <= Len(c) /\ q - p + 1 = n /\ p <= q /\ c \in Seq(Chars)
      BY <2>1
    <2>3. \A i \in p..q : c[i] \in Chars
      BY <2>2, ElementOfSeq, LenProperties
    <2>4. /\ SubSeq(c, p, q) \in Seq(Chars) /\ Len(SubSeq(c, p, q)) = n
          /\ \A i \in 1..n : SubSeq(c, p, q)[i] = c[p + i - 1]
      BY <2>2, <2>3, SubSeqProperties
    <2>5. o \in Seq(Chars) /\ Len(o) = n /\ \A i \in 1..n : o[i] = c[p + i - 1]
      BY <2>1
    <2>6. o = SubSeq(c, p, q)
      BY <2>4, <2>5, SeqEqual
    <2> QED BY <2>1, <2>6
  <1>5. File!Read
    BY <1>1, <1>2, <1>3, <1>4 DEF File!Read, Pos
  <1> QED BY <1>5 DEF File!BNext

LEMMA AsWrite ==
  ASSUME Live, Live', out' = << >>, NEW n \in Nat \ {0}, NEW s \in [1..n -> Char],
         Content' \in Seq(Chars), Content \in Seq(Chars), Pos \in Nat \ {0}, Pos' = Pos + n,
         Overlaid(Content, Pos, n, s, Content'), Kept(disk, Content, disk')
  PROVE  File!BNext
  <1>1. Live' = Live
    BY DEF Live
  <1>2. File!Writeback(disk, Content)
    BY DEF File!Writeback, Kept
  <1>3. PICK c, v : c = Content /\ v = Content'
    OBVIOUS
  <1>4. PICK p \in Nat, q \in Int : p = Pos /\ q = Pos' - 1
    OBVIOUS
  <1>5. c \in Seq(Chars) /\ v \in Seq(Chars) /\ p >= 1 /\ q = p + n - 1
        /\ Overlaid(c, p, n, s, v) /\ Len(c) \in Nat /\ Len(v) \in Nat
    BY <1>3, <1>4, LenProperties
  <1>6. q <= Len(v)
    BY <1>5 DEF Overlaid, Higher
  <1>7. PICK t : t = SubSeq(v, p, q)
    OBVIOUS
  <1>8. Len(t) = n /\ \A i \in 1..n : t[i] = s[i]
    <2>1. \A i \in p..q : v[i] \in Chars
      BY <1>5, <1>6, ElementOfSeq
    <2>2. Len(t) = n /\ \A i \in 1..n : t[i] = v[p + i - 1]
      BY <1>5, <1>7, <2>1, SubSeqProperties
    <2>3. ASSUME NEW i \in 1..n PROVE v[p + i - 1] = s[i]
      <3>1. PICK k \in 1..Len(v) : k = p + i - 1
        BY <1>5, <1>6
      <3>2. k \in p..p + n - 1 /\ k - p + 1 = i
        BY <1>5, <3>1
      <3> QED BY <1>5, <3>1, <3>2 DEF Overlaid
    <2> QED BY <2>2, <2>3
  <1>9. /\ Len(v) = IF p + Len(t) - 1 > Len(c) THEN p + Len(t) - 1 ELSE Len(c)
        /\ \A k \in 1..Len(v) :
             /\ k \in p..p + Len(t) - 1 => v[k] = t[k - p + 1]
             /\ k < p /\ k <= Len(c) => v[k] = c[k]
             /\ k >= p + Len(t) => v[k] = c[k]
    <2>1. Len(v) = IF p + Len(t) - 1 > Len(c) THEN p + Len(t) - 1 ELSE Len(c)
      BY <1>5, <1>8 DEF Overlaid, Higher
    <2>2. ASSUME NEW k \in 1..Len(v), k \in p..p + n - 1 PROVE v[k] = t[k - p + 1]
      <3>1. k - p + 1 \in 1..n
        BY <1>5, <2>2
      <3> QED BY <1>5, <1>8, <2>2, <3>1 DEF Overlaid
    <2> QED BY <1>5, <1>8, <2>1, <2>2 DEF Overlaid
  <1>10. File!Written(c, p, t, v)
    BY <1>9 DEF File!Written
  <1>11. Pos < Pos' /\ Pos' - 1 <= Len(Content')
    BY <1>3, <1>4, <1>5, <1>6
  <1>12. File!Written(Content, Pos, SubSeq(Content', Pos, Pos' - 1), Content')
    BY <1>3, <1>4, <1>7, <1>10
  <1>13. File!Write
    BY <1>1, <1>2, <1>11, <1>12 DEF File!Write, Pos
  <1> QED BY <1>13 DEF File!BNext

-----------------------------------------------------------------------------
(* The file buffer implements the byte file.                               *)

\* The file that the program sees while it is open.
LEMMA LiveSeen ==
  ASSUME RInv, Live
  PROVE  /\ Good(f, disk) /\ Valid(f) /\ disk \in Seq(Chars)
         /\ Content = View(f, disk) /\ Content \in Seq(Chars) /\ Len(disk) <= Len(Content)
         /\ Pos = LNOTE(f) /\ Pos \in Nat \ {0}
  <1>1. Good(f, disk) /\ Valid(f) /\ disk \in Seq(Chars)
    BY RInvValid DEF RInv, IInv
  <1>2. Content = View(f, disk) /\ Pos = LNOTE(f)
    BY Seen
  <1>3. LNOTE(f) \in Nat \ {0}
    BY <1>1 DEF Good, Placed, Typed, Desc, LNOTE
  <1> QED BY <1>1, <1>2, <1>3, ViewLonger

LEMMA FlushedKept ==
  ASSUME RInv, Live, NEW d, FlushedTo(d)
  PROVE  Kept(disk, Content, d)
  BY LiveSeen, KeptOld, KeptNew DEF FlushedTo

LEMMA RaiseStep ==
  ASSUME NEW why \in {"bounds", "device", "permission"}, NEW d, Raise(why, d),
         Kept(disk, Content, d)
  PROVE  File!BNext
  <1>1. ~Live' /\ out' = << >> /\ disk' = d
    BY DEF Raise, Live
  <1> QED BY <1>1, AsFail

LEMMA FlushRaisesStep ==
  ASSUME RInv, Live, FlushRaises(f)
  PROVE  File!BNext
  <1>1. Good(f, disk) /\ Valid(f) /\ disk \in Seq(Chars) /\ Content = View(f, disk)
    BY LiveSeen
  <1>2. CASE Raise("bounds", disk)
    BY <1>1, <1>2, KeptOld, RaiseStep
  <1>3. ASSUME NEW n \in Nat, n < UpdateIop(f).otop,
               Raise("device", Patch(disk, f.boffset, f.buf, n))
        PROVE  File!BNext
    <2>1. Kept(disk, View(f, disk), Patch(disk, f.boffset, f.buf, n))
      BY <1>1, <1>3, KeptPart
    <2> QED BY <1>1, <1>3, <2>1, RaiseStep
  <1> QED BY <1>1, <1>2, <1>3, FlushRaisesIs

LEMMA OpenStep ==
  ASSUME RInv, Open
  PROVE  File!BNext
  <1>0. PICK m \in Modes, size \in BufSizes : \E d, n :
          /\ d = (IF m = "new" THEN << >> ELSE disk) /\ n = Len(d)
          /\ mode' = m /\ disk' = d
          /\ f' = IF m = "append"
                  THEN [[NoFile EXCEPT !.bufsize = size, !.filsize = n] EXCEPT !.iop = n]
                  ELSE [NoFile EXCEPT !.bufsize = size, !.filsize = n]
    BY DEF Open
  <1>1. PICK d, n :
          /\ d = (IF m = "new" THEN << >> ELSE disk) /\ n = Len(d)
          /\ mode' = m /\ disk' = d
          /\ f' = IF m = "append"
                  THEN [[NoFile EXCEPT !.bufsize = size, !.filsize = n] EXCEPT !.iop = n]
                  ELSE [NoFile EXCEPT !.bufsize = size, !.filsize = n]
    BY <1>0
  <1>2. d \in Seq(Chars) /\ disk' = d /\ n \in Nat
    BY <1>1, EmptyIsSeq, LenProperties DEF RInv, IInv
  <1>3. size \in Nat \ {0}
    BY BufferAssumption
  <1>4. PICK y : y = f'
    OBVIOUS
  <1>5. PICK pos \in {0, Len(d)} : y = SetOpened(NoFile, size, Len(d), pos)
    <2>1. CASE m = "append"
      <3>1. y = SetOpened(NoFile, size, n, n)
        BY <1>1, <1>4, <2>1 DEF SetOpened
      <3> QED BY <1>1, <3>1
    <2>2. CASE m # "append"
      <3>1. PICK x : x = NoFile /\ y = [x EXCEPT !.bufsize = size, !.filsize = n]
        BY <1>1, <1>4, <2>2
      <3>2. Typed(x) /\ x.iop = 0
        BY <3>1, NoFileIs
      <3>3. y = SetOpened(x, size, n, x.iop)
        BY <1>2, <1>3, <3>1, <3>2, SetOpenedThere
      <3> QED BY <1>1, <3>1, <3>2, <3>3
    <2> QED BY <2>1, <2>2
  <1>6. View(y, d) = d /\ LNOTE(y) = pos + 1
    BY <1>2, <1>3, <1>5, OpenedIs
  <1>7. ~Live /\ Live' /\ out' = << >>
    BY <1>1, BufferAssumption DEF Open, Live, RInv, IInv
  <1>8. Content' = disk' /\ Pos' = pos + 1
    BY <1>2, <1>4, <1>6, <1>7, SeenNext
  <1>9. disk' \in {disk, << >>} /\ Pos' \in {1, Len(disk') + 1}
    BY <1>1, <1>8
  <1> QED BY <1>7, <1>8, <1>9, AsOpen

LEMMA StartStep ==
  ASSUME RInv, StartRead \/ StartWrite
  PROVE  File!BNext
  <1>1. disk' = disk /\ f' = f /\ mode' = mode /\ status' = status /\ out' = << >>
    BY DEF StartRead, StartWrite
  <1>2. (Live' <=> Live) /\ Content' = Content /\ Pos' = Pos
    BY <1>1 DEF Live, Content, Pos, UpdateIop, Patch, LNOTE
  <1>3. disk \in Seq(Chars)
    BY DEF RInv, IInv
  <1> QED BY <1>1, <1>2, <1>3, KeptOld, AsHidden

LEMMA ReadStep ==
  ASSUME RInv, ReadChunk
  PROVE  File!BNext
  <1>1. IInv /\ Live /\ call \in Calls
    BY DEF RInv, IInv, CallOK, ReadChunk
  <1>2. /\ Good(f, disk) /\ Valid(f) /\ disk \in Seq(Chars)
        /\ Content = View(f, disk) /\ Content \in Seq(Chars)
        /\ Pos = LNOTE(f) /\ Pos \in Nat \ {0}
    BY <1>1, LiveSeen
  <1>3. CASE RaisesFor(f)
    BY <1>1, <1>3, FlushRaisesStep DEF RaisesFor
  <1>4. CASE Raise("device", View(f, disk)) /\ ~FlushFails(f)
    <2>1. Kept(disk, Content, View(f, disk))
      BY <1>1, <1>4, FlushedKept DEF FlushedTo
    <2> QED BY <1>4, <2>1, RaiseStep
  <1>5. ASSUME NEW x, NEW left, ReadsFrom(x, left)
        PROVE  File!BNext
    <2>1. PICK d : d = disk'
      OBVIOUS
    <2>2. /\ Good(x, d) /\ x.alloc /\ x.iop >= 0 /\ LNOTE(x) = Pos /\ d \in Seq(Chars)
          /\ View(x, d) = Content /\ left \in Int /\ CopyOut(x, left)
          /\ left <= 0 \/ x.itop <= x.iop => Pos > Len(Content)
          /\ mode' = mode /\ status' = status /\ FlushedTo(disk')
      BY <1>2, <1>5, <2>1 DEF ReadsFrom
    <2>3. Valid(x)
      BY <1>2, <1>5 DEF ReadsFrom, Valid
    <2>4. Live' /\ Kept(disk, Content, disk')
      BY <1>1, <2>2, FlushedKept DEF Live
    <2>5. CASE /\ left <= 0 \/ x.itop <= x.iop
               /\ f' = x /\ out' = (IF call.done = 0 THEN <<EOF>> ELSE << >>)
      <3>1. Content' = Content /\ Pos' = Pos /\ Pos > Len(Content)
        BY <2>1, <2>2, <2>4, <2>5, SeenNext
      <3>2. CASE out' = <<EOF>>
        BY <1>1, <2>4, <3>1, <3>2, AsEndOfFile
      <3>3. CASE out' = << >>
        BY <1>1, <2>4, <3>1, <3>3, AsHidden
      <3> QED BY <2>5, <3>2, <3>3
    <2>6. ASSUME NEW n \in Nat \ {0}, Delivers(x, left, n)
          PROVE  File!BNext
      <3>1. /\ x.iop + n <= x.itop /\ f' = SetIop(x, x.iop + n)
            /\ out' = [k \in 1..n |-> x.buf[x.iop + k - 1]]
            /\ out' \in Seq(Chars) /\ Len(out') = n
        BY <2>6 DEF Delivers
      <3>2. View(SetIop(x, x.iop + n), d) = Content /\ LNOTE(SetIop(x, x.iop + n)) = Pos + n
        BY <2>2, <3>1, AdvanceGood
      <3>3. Content' = Content /\ Pos' = Pos + n
        BY <2>1, <2>4, <3>1, <3>2, SeenNext
      <3>4. x.iop \in Nat /\ x.itop \in Nat /\ x.boffset \in Nat /\ Pos = x.boffset + x.iop
        BY <2>2 DEF Good, Typed, Desc, LNOTE
      <3>5. ASSUME NEW k \in 1..n
            PROVE  Pos + k - 1 <= Len(Content) /\ out'[k] = Content[Pos + k - 1]
        <4>1. PICK j \in Nat : j = x.iop + k - 1 /\ j < x.itop
          BY <3>1, <3>4
        <4>2. x.boffset + j \in 1..Len(Content) /\ Content[x.boffset + j] = x.buf[j]
          BY <2>2, <2>3, <4>1, BufferView
        <4>3. x.boffset + j = Pos + k - 1
          BY <3>4, <4>1
        <4>4. out'[k] = x.buf[j]
          BY <3>1, <4>1
        <4>5. Len(Content) \in Nat
          BY <1>2, LenProperties
        <4> QED BY <4>2, <4>3, <4>4, <4>5
      <3>6. Pos + n - 1 <= Len(Content)
        BY <3>5
      <3> QED BY <1>1, <1>2, <2>4, <3>1, <3>3, <3>5, <3>6, AsRead
    <2>7. \/ /\ left <= 0 \/ x.itop <= x.iop
             /\ f' = x /\ out' = (IF call.done = 0 THEN <<EOF>> ELSE << >>)
          \/ \E n \in Nat \ {0} : Delivers(x, left, n)
      BY <1>1, <2>2, CopyOutIs
    <2> QED BY <2>5, <2>6, <2>7
  <1> QED BY <1>1, <1>3, <1>4, <1>5, ReadOutcome

LEMMA WriteStep ==
  ASSUME RInv, WriteChunk
  PROVE  File!BNext
  <1>1. IInv /\ Live /\ call \in Calls /\ call.left >= 1
    BY DEF RInv, IInv, CallOK, WriteChunk
  <1>2. /\ Good(f, disk) /\ Valid(f) /\ disk \in Seq(Chars)
        /\ Content = View(f, disk) /\ Content \in Seq(Chars)
        /\ Pos = LNOTE(f) /\ Pos \in Nat \ {0}
    BY <1>1, LiveSeen
  <1>3. CASE RaisesFor(f)
    BY <1>1, <1>3, FlushRaisesStep DEF RaisesFor
  <1>4. CASE Raise("device", View(f, disk)) /\ ~FlushFails(f)
    <2>1. Kept(disk, Content, View(f, disk))
      BY <1>1, <1>4, FlushedKept DEF FlushedTo
    <2> QED BY <1>4, <2>1, RaiseStep
  <1>5. CASE Raise("permission", disk)
    BY <1>2, <1>5, KeptOld, RaiseStep
  <1>6. ASSUME NEW x, WritesInto(x)
        PROVE  File!BNext
    <2>1. PICK d : d = disk'
      OBVIOUS
    <2>2. /\ Roomy(x) /\ CopyIn(x) /\ LNOTE(x) = Pos /\ mode # "ro" /\ d \in Seq(Chars)
          /\ mode' = mode /\ status' = status /\ FlushedTo(disk')
      BY <1>2, <1>6, <2>1 DEF WritesInto
    <2>3. Base(x, d, Content)
      BY <1>2, <1>6, <2>1, <2>2 DEF WritesInto, RInv, ReadOnlyCancelled
    <2>4. Live' /\ Kept(disk, Content, disk')
      BY <1>1, <2>2, FlushedKept DEF Live
    <2>5. PICK n \in Nat \ {0} : \E s \in [1..n -> Char] : Takes(x, n, s)
      BY <1>1, <2>2, CopyInIs
    <2>6. PICK s \in [1..n -> Char] : Takes(x, n, s)
      BY <2>5
    <2>7. Good(f', disk') /\ LNOTE(f') = LNOTE(x) + n
      BY <1>1, <1>6, <2>6, TakenGood
    <2>8. f' = Copied(x, n, s) /\ x.iop + n <= x.otop /\ out' = << >>
      BY <2>6 DEF Takes
    <2>9. Good(Copied(x, n, s), d)
      BY <2>1, <2>7, <2>8
    <2>10. PICK c : c = Content
      OBVIOUS
    <2>11. /\ View(Copied(x, n, s), d) \in Seq(Chars)
           /\ Overlaid(c, LNOTE(x), n, s, View(Copied(x, n, s), d))
      BY <1>2, <2>2, <2>3, <2>8, <2>9, <2>10, CopiedView
    <2>12. Content' = View(Copied(x, n, s), d) /\ Pos' = Pos + n
      BY <2>1, <2>2, <2>4, <2>7, <2>8, SeenNext
    <2>13. Content' \in Seq(Chars) /\ Overlaid(Content, Pos, n, s, Content')
      BY <2>2, <2>10, <2>11, <2>12
    <2> QED BY <1>1, <1>2, <2>4, <2>8, <2>12, <2>13, AsWrite
  <1> QED BY <1>1, <1>3, <1>4, <1>5, <1>6, WriteOutcome

LEMMA MoveStep ==
  ASSUME RInv, Seek \/ SeekEOF
  PROVE  File!BNext
  <1>1. /\ Ready /\ disk' = disk /\ mode' = mode /\ status' = status /\ out' = << >>
        /\ Live /\ Live'
    BY DEF Seek, SeekEOF, Ready, Live
  <1>2. Good(f, disk) /\ disk \in Seq(Chars) /\ Content = View(f, disk)
    BY <1>1, LiveSeen
  <1>3. PICK off \in Nat \ {0} :
          \E x : f' = LSEEK(x, off) /\ Good(x, disk) /\ View(x, disk) = View(f, disk)
    <2>1. CASE Seek
      <3>1. PICK off \in 1..MaxSize + 1 : f' = LSEEK(f, off)
        BY <2>1 DEF Seek
      <3>2. off \in Nat \ {0}
        BY BufferAssumption
      <3> QED BY <1>2, <3>1, <3>2
    <2>2. CASE SeekEOF
      <3>1. PICK x : x = Filsz(f)
        OBVIOUS
      <3>2. /\ Good(x, disk) /\ SameBuffer(x, f) /\ UpdateIop(x) = x
            /\ x.otop = UpdateIop(f).otop
        BY <1>2, <3>1, FilszGood
      <3>3. SameBuffer(UpdateIop(f), f)
        BY <1>2, UpdateIopIs DEF Good
      <3>4. View(x, disk) = View(f, disk)
        BY <3>2, <3>3 DEF View, SameBuffer
      <3>5. x.filsize + 1 \in Nat \ {0}
        BY <3>2 DEF Good, Typed, Desc
      <3>6. f' = LSEEK(x, x.filsize + 1)
        BY <2>2, <3>1 DEF SeekEOF
      <3> QED BY <3>2, <3>4, <3>5, <3>6
    <2> QED BY <2>1, <2>2
  <1>4. PICK x : f' = LSEEK(x, off) /\ Good(x, disk) /\ View(x, disk) = View(f, disk)
    BY <1>3
  <1>5. View(LSEEK(x, off), disk) = Content /\ LNOTE(LSEEK(x, off)) = off
    BY <1>2, <1>4, ViewSeek, SeekGood
  <1>6. Content' = Content /\ Pos' \in Nat
    BY <1>1, <1>4, <1>5, SeenNext
  <1> QED BY <1>1, <1>6, AsSeek

LEMMA CancelStep ==
  ASSUME RInv, SetCancel
  PROVE  File!BNext
  <1>1. /\ Ready /\ disk' = disk /\ mode' = mode /\ status' = status /\ out' = << >>
        /\ Live /\ Live'
        /\ f' = LSEEK([f EXCEPT !.iop = 0, !.itop = 0, !.otop = 0, !.boffset = 0], LNOTE(f))
    BY DEF SetCancel, Ready, Live
  <1>2. Good(f, disk) /\ disk \in Seq(Chars) /\ Pos = LNOTE(f)
    BY <1>1, LiveSeen
  <1>3. View(f', disk) = disk /\ LNOTE(f') = LNOTE(f)
    BY <1>1, <1>2, CancelIs
  <1>4. Content' = disk /\ Pos' = Pos
    BY <1>1, <1>2, <1>3, SeenNext
  <1> QED BY <1>1, <1>4, AsCancel

LEMMA FlushStep ==
  ASSUME RInv, Flush \/ SetBufSize
  PROVE  File!BNext
  <1>1. Ready /\ Live
    BY DEF Flush, SetBufSize, Ready, Live
  <1>2. Good(f, disk) /\ disk \in Seq(Chars) /\ Content = View(f, disk) /\ Pos = LNOTE(f)
    BY <1>1, LiveSeen
  <1>3. CASE FlushRaises(f)
    BY <1>1, <1>3, FlushRaisesStep
  <1>4. ASSUME ~FlushFails(f), disk' = FlushedDisk(f, disk), out' = << >>,
               mode' = mode, status' = status, NEW y, y = f',
               View(y, View(f, disk)) = View(f, disk), LNOTE(y) = LNOTE(f)
        PROVE  File!BNext
    <2>1. disk' = Content
      BY <1>2, <1>4, FlushGood
    <2>2. Live'
      BY <1>1, <1>4 DEF Live
    <2>3. Content' = Content /\ Pos' = Pos
      BY <1>2, <1>4, <2>1, <2>2, SeenNext
    <2> QED BY <1>1, <1>4, <2>1, <2>2, <2>3, AsFlush
  <1>5. CASE Flush /\ ~FlushRaises(f)
    <2>1. /\ ~FlushFails(f) /\ f' = Flushed(f) /\ disk' = FlushedDisk(f, disk)
          /\ out' = << >> /\ mode' = mode /\ status' = status
      BY <1>5 DEF Flush
    <2>2. PICK y : y = Flushed(f)
      OBVIOUS
    <2>3. /\ View(y, View(f, disk)) = View(f, disk)
          /\ SameBuffer(y, f) /\ y.iop = f.iop
      BY <1>2, <2>1, <2>2, FlushGood
    <2>4. LNOTE(y) = LNOTE(f)
      BY <2>3 DEF LNOTE, SameBuffer
    <2> QED BY <1>4, <2>1, <2>2, <2>3, <2>4
  <1>6. CASE SetBufSize /\ ~FlushRaises(f)
    <2>1. PICK size \in BufSizes :
            /\ ~FlushFails(f) /\ f' = [ReturnBuffer(Flushed(f)) EXCEPT !.bufsize = size]
            /\ disk' = FlushedDisk(f, disk) /\ out' = << >> /\ mode' = mode
            /\ status' = status
      BY <1>6 DEF SetBufSize
    <2>2. PICK e, v, y : e = Flushed(f) /\ v = View(f, disk)
                         /\ y = [ReturnBuffer(e) EXCEPT !.bufsize = size]
      OBVIOUS
    <2>3. v \in Seq(Chars) /\ Good(e, v) /\ e.otop = 0 /\ SameBuffer(e, f) /\ e.iop = f.iop
      BY <1>2, <2>1, <2>2, FlushGood
    <2>4. size \in Nat \ {0}
      BY BufferAssumption
    <2>5. View(y, v) = v /\ LNOTE(y) = LNOTE(e)
      BY <2>2, <2>3, <2>4, ReturnBufferGood
    <2>6. LNOTE(e) = LNOTE(f)
      BY <2>3 DEF LNOTE, SameBuffer
    <2> QED BY <1>4, <2>1, <2>2, <2>5, <2>6
  <1> QED BY <1>3, <1>5, <1>6

LEMMA CloseStep ==
  ASSUME RInv, Close
  PROVE  File!BNext
  <1>1. Ready /\ Live
    BY DEF Close, Ready, Live
  <1>2. Good(f, disk) /\ disk \in Seq(Chars) /\ Content = View(f, disk)
    BY <1>1, LiveSeen
  <1>3. CASE FlushRaises(f)
    BY <1>1, <1>3, FlushRaisesStep
  <1>4. CASE ~FlushFails(f) /\ disk' = FlushedDisk(f, disk) /\ mode' = "closed"
             /\ out' = << >>
    <2>1. disk' = Content /\ ~Live'
      BY <1>2, <1>4, FlushGood DEF Live
    <2> QED BY <1>1, <1>4, <2>1, AsClose
  <1> QED BY <1>3, <1>4 DEF Close

LEMMA CleanupStep ==
  ASSUME RInv, Cleanup
  PROVE  File!BNext
  <1>1. ~Live' /\ out' = << >> /\ disk \in Seq(Chars)
    BY DEF Cleanup, Live, RInv, IInv
  <1>2. CASE disk' = disk \/ disk' = << >>
    BY <1>1, <1>2, KeptOld, AsFail
  <1>3. CASE Ready /\ ~FlushFails(f) /\ disk' = FlushedDisk(f, disk)
    <2>1. Live
      BY <1>3 DEF Ready, Live
    <2>2. disk' = Content /\ Kept(disk, Content, Content)
      BY <1>3, <2>1, LiveSeen, FlushGood, KeptNew
    <2> QED BY <1>1, <2>2, AsFail
  <1> QED BY <1>2, <1>3 DEF Cleanup

LEMMA FileStep ==
  ASSUME RInv, [Next]_vars
  PROVE  [File!BNext]_File!bvars
  <1>1. CASE UNCHANGED vars
    BY <1>1 DEF vars, File!bvars, Content, Live, UpdateIop, Patch, LNOTE
  <1>2. CASE Next
    BY <1>2, OpenStep, StartStep, ReadStep, WriteStep, MoveStep, FlushStep, CancelStep,
       CloseStep, CleanupStep DEF Next
  <1> QED BY <1>1, <1>2

\* When F_CANCEL is used on files that are read only, the file buffer is a file:
\* however reads, writes, seeks, flushes and changes of the size of the buffer
\* follow each other, what is read is what is in the file or was written last, a
\* write changes nothing else, a failure loses nothing but what was not yet
\* written back, and closing the file makes all of it permanent.
THEOREM Implementation ==
  ASSUME CancelModes \subseteq {"ro"}
  PROVE  Spec => Refinement
  <1>1. Init => File!BInit
    <2> SUFFICES ASSUME Init
                 PROVE  File!BInit
      OBVIOUS
    <2>1. ~Live /\ disk = << >> /\ out = << >>
      BY DEF Init, Live
    <2>2. Content = << >> /\ Pos = 1 /\ Live = FALSE
      BY <2>1, Seen DEF Live
    <2> QED BY <2>1, <2>2 DEF File!BInit, Pos
  <1>2. RInv /\ [Next]_vars => [File!BNext]_File!bvars
    BY FileStep
  <1> QED BY <1>1, <1>2, RInvariance, PTL DEF Spec, Refinement, File!BSpec

-----------------------------------------------------------------------------
(* The size that FIO keeps, and the end of the file.                       *)

\* FIO never takes the file for longer than the program sees it.
Counted == Live => f.filsize <= Len(Content)

CInv == RInv /\ Counted

LEMMA OpenCounts ==
  ASSUME RInv, Open
  PROVE  Counted'
  <1>1. PICK m \in Modes, size \in BufSizes : \E d, n :
          /\ d = (IF m = "new" THEN << >> ELSE disk) /\ n = Len(d) /\ disk' = d
          /\ f' = IF m = "append"
                  THEN [[NoFile EXCEPT !.bufsize = size, !.filsize = n] EXCEPT !.iop = n]
                  ELSE [NoFile EXCEPT !.bufsize = size, !.filsize = n]
    BY DEF Open
  <1>2. f'.filsize = Len(disk') /\ f'.otop = 0 /\ disk' \in Seq(Chars)
    BY <1>1, EmptyIsSeq DEF NoFile, RInv, IInv
  <1>3. IInv'
    BY OpenInv DEF RInv
  <1>4. ASSUME Live' PROVE f'.filsize <= Len(Content')
    <2>1. PICK y, d : y = f' /\ d = disk'
      OBVIOUS
    <2>2. Typed(y)
      BY <1>3, <1>4, <2>1 DEF IInv, Good, Typed
    <2>3. View(y, d) = d
      BY <1>2, <2>1, <2>2, CleanIsDone, ViewClean
    <2>4. Content' = disk'
      BY <1>4, <2>1, <2>3, SeenNext
    <2> QED BY <1>2, <2>4, LenProperties
  <1> QED BY <1>4 DEF Counted

LEMMA ReadCounts ==
  ASSUME CInv, ReadChunk
  PROVE  Counted'
  <1>1. IInv /\ Live /\ call \in Calls /\ RInv
    BY DEF CInv, RInv, IInv, CallOK, ReadChunk
  <1>2. Content = View(f, disk) /\ f.filsize <= Len(Content)
    BY <1>1, LiveSeen DEF CInv, Counted
  <1>3. ASSUME NEW why \in {"bounds", "device", "permission"}, NEW d, Raise(why, d)
        PROVE  Counted'
    BY <1>3 DEF Raise, Counted, Live
  <1>4. CASE RaisesFor(f)
    BY <1>3, <1>4 DEF RaisesFor, FlushRaises
  <1>5. ASSUME NEW x, NEW left, ReadsFrom(x, left)
        PROVE  Counted'
    <2>1. PICK d : d = disk'
      OBVIOUS
    <2>2. /\ Good(x, d) /\ x.alloc /\ x.iop >= 0 /\ d \in Seq(Chars)
          /\ View(x, d) = Content /\ left \in Int /\ CopyOut(x, left)
          /\ mode' = mode /\ status' = status /\ x.filsize <= Len(Content)
      BY <1>2, <1>5, <2>1 DEF ReadsFrom
    <2>3. Live'
      BY <1>1, <2>2 DEF Live
    <2>4. CASE f' = x
      <3>1. Content' = Content
        BY <2>1, <2>2, <2>3, <2>4, SeenNext
      <3> QED BY <2>2, <2>4, <3>1 DEF Counted
    <2>5. ASSUME NEW n \in Nat, x.iop + n <= x.itop, f' = SetIop(x, x.iop + n)
          PROVE  Counted'
      <3>1. PICK y : y = SetIop(x, x.iop + n)
        OBVIOUS
      <3>2. View(y, d) = Content /\ y.filsize = x.filsize
        BY <2>2, <2>5, <3>1, AdvanceGood
      <3>3. Content' = Content
        BY <2>1, <2>3, <2>5, <3>1, <3>2, SeenNext
      <3> QED BY <2>2, <2>5, <3>1, <3>2, <3>3 DEF Counted
    <2>6. \/ f' = x
          \/ \E n \in Nat : x.iop + n <= x.itop /\ f' = SetIop(x, x.iop + n)
      BY <1>1, <2>2, CopyOutIs DEF Delivers
    <2> QED BY <2>4, <2>5, <2>6
  <1> QED BY <1>1, <1>3, <1>4, <1>5, ReadOutcome

LEMMA WriteCounts ==
  ASSUME CInv, WriteChunk
  PROVE  Counted'
  <1>1. IInv /\ Live /\ call \in Calls /\ call.left >= 1 /\ RInv
    BY DEF CInv, RInv, IInv, CallOK, WriteChunk
  <1>2. /\ Content = View(f, disk) /\ Content \in Seq(Chars) /\ f.filsize <= Len(Content)
        /\ Pos \in Nat
    BY <1>1, LiveSeen DEF CInv, Counted
  <1>3. ASSUME NEW why \in {"bounds", "device", "permission"}, NEW d, Raise(why, d)
        PROVE  Counted'
    BY <1>3 DEF Raise, Counted, Live
  <1>4. CASE RaisesFor(f)
    BY <1>3, <1>4 DEF RaisesFor, FlushRaises
  <1>5. ASSUME NEW x, WritesInto(x)
        PROVE  Counted'
    <2>1. PICK d, c : d = disk' /\ c = Content
      OBVIOUS
    <2>2. /\ Roomy(x) /\ CopyIn(x) /\ mode # "ro" /\ d \in Seq(Chars)
          /\ mode' = mode /\ status' = status /\ x.filsize <= Len(c)
          /\ LNOTE(x) = LNOTE(f)
      BY <1>2, <1>5, <2>1 DEF WritesInto
    <2>3. Base(x, d, c)
      BY <1>1, <1>2, <1>5, <2>1, <2>2 DEF WritesInto, RInv, ReadOnlyCancelled
    <2>4. Live'
      BY <1>1, <2>2 DEF Live
    <2>5. PICK n \in Nat \ {0} : \E s \in [1..n -> Char] : Takes(x, n, s)
      BY <1>1, <2>2, CopyInIs
    <2>6. PICK s \in [1..n -> Char] : Takes(x, n, s)
      BY <2>5
    <2>7. Good(f', disk')
      BY <1>1, <1>5, <2>6, TakenGood
    <2>8. PICK y : y = Copied(x, n, s)
      OBVIOUS
    <2>9. f' = y /\ x.iop + n <= x.otop
      BY <2>6, <2>8 DEF Takes
    <2>10. Good(Copied(x, n, s), d)
      BY <2>1, <2>7, <2>8, <2>9
    <2>11. View(y, d) \in Seq(Chars) /\ Overlaid(c, LNOTE(x), n, s, View(y, d))
      BY <1>2, <2>1, <2>2, <2>3, <2>8, <2>9, <2>10, CopiedView
    <2>12. y.filsize = x.filsize
      BY <2>2, <2>8 DEF Copied, Roomy, Typed, Desc
    <2>13. Len(c) <= Len(View(y, d))
      <3>1. Len(c) \in Nat /\ LNOTE(x) + n - 1 \in Int
        BY <1>1, <1>2, <2>1, <2>2, LiveSeen, LenProperties
      <3> QED BY <2>11, <3>1 DEF Overlaid, Higher
    <2>14. Content' = View(y, d)
      BY <2>1, <2>4, <2>9, SeenNext
    <2>15. x.filsize \in Nat /\ Len(c) \in Nat /\ Len(View(y, d)) \in Nat
      BY <1>2, <2>1, <2>2, <2>11, LenProperties DEF Roomy, Typed, Desc
    <2> QED BY <2>2, <2>9, <2>12, <2>13, <2>14, <2>15 DEF Counted
  <1> QED BY <1>1, <1>3, <1>4, <1>5, WriteOutcome

\* What the size is when FILSIZE has been asked for: that of the file.
LEMMA FilszCounts ==
  ASSUME CInv, Live
  PROVE  Filsz(f).filsize = Len(Content)
  <1>1. /\ Good(f, disk) /\ Valid(f) /\ disk \in Seq(Chars) /\ Content = View(f, disk)
        /\ f.filsize <= Len(Content) /\ f.filsize \in Nat /\ f.filsize >= Len(disk)
        /\ f.boffset \in Nat /\ Len(disk) \in Nat
    BY LiveSeen, LenProperties DEF CInv, Counted, Good, Typed, Desc
  <1>2. PICK t : t = UpdateIop(f).otop
    OBVIOUS
  <1>3. t \in Nat
    BY <1>1, <1>2, UpdateIopIs DEF Good, Typed, Desc
  <1>4. Len(Content) = IF t = 0 THEN Len(disk) ELSE Higher(Len(disk), f.boffset + t - 1)
    <2>1. ViewAt(f, disk, View(f, disk))
      BY <1>1, ViewIs
    <2> QED BY <1>1, <1>2, <2>1 DEF ViewAt
  <1>5. Filsz(f).filsize = IF t > 0 THEN Higher(f.filsize, f.boffset - 1 + t) ELSE f.filsize
    BY <1>1, <1>2, FilszGood
  <1> QED BY <1>1, <1>3, <1>4, <1>5 DEF Higher

LEMMA MoveCounts ==
  ASSUME CInv, Seek \/ SeekEOF
  PROVE  Counted' /\ (SeekEOF => LNOTE(f') = Len(Content) + 1)
  <1>1. /\ Ready /\ disk' = disk /\ mode' = mode /\ status' = status /\ RInv
        /\ Live /\ Live'
    BY DEF Seek, SeekEOF, Ready, Live, CInv
  <1>2. Good(f, disk) /\ disk \in Seq(Chars) /\ Content = View(f, disk)
        /\ f.filsize <= Len(Content)
    BY <1>1, LiveSeen DEF CInv, Counted
  <1>3. ASSUME NEW x, Good(x, disk), View(x, disk) = Content, x.filsize <= Len(Content),
               NEW off \in Nat \ {0}, f' = LSEEK(x, off)
        PROVE  Counted'
    <2>1. PICK y : y = LSEEK(x, off)
      OBVIOUS
    <2>2. y.filsize = x.filsize /\ View(y, disk) = Content
      BY <1>3, <2>1, SeekGood, ViewSeek
    <2>3. Content' = Content
      BY <1>1, <1>3, <2>1, <2>2, SeenNext
    <2> QED BY <1>3, <2>1, <2>2, <2>3 DEF Counted
  <1>4. ASSUME Seek PROVE Counted'
    <2>1. PICK off \in 1..MaxSize + 1 : f' = LSEEK(f, off)
      BY <1>4 DEF Seek
    <2>2. off \in Nat \ {0}
      BY BufferAssumption
    <2>3. Counted'
      BY <1>2, <1>3, <2>1, <2>2
    <2> QED BY <2>3
  <1>5. ASSUME SeekEOF PROVE Counted' /\ LNOTE(f') = Len(Content) + 1
    <2>1. PICK x : x = Filsz(f)
      OBVIOUS
    <2>2. /\ Good(x, disk) /\ SameBuffer(x, f) /\ UpdateIop(x) = x
          /\ x.otop = UpdateIop(f).otop /\ x.filsize = Len(Content)
      BY <1>1, <1>2, <2>1, FilszGood, FilszCounts
    <2>3. SameBuffer(UpdateIop(f), f)
      BY <1>2, UpdateIopIs DEF Good
    <2>4. View(x, disk) = Content
      BY <1>2, <2>2, <2>3 DEF View, SameBuffer
    <2>5. PICK off \in Nat \ {0} : off = x.filsize + 1
      BY <2>2 DEF Good, Typed, Desc
    <2>6. f' = LSEEK(x, off)
      BY <1>5, <2>1, <2>5 DEF SeekEOF
    <2>7. x.filsize <= Len(Content)
      BY <2>2, <2>5 DEF Good, Typed, Desc
    <2>8. LNOTE(LSEEK(x, off)) = off
      BY <2>2, SeekGood
    <2> QED BY <1>3, <2>2, <2>4, <2>5, <2>6, <2>7, <2>8
  <1> QED BY <1>4, <1>5

LEMMA FlushCounts ==
  ASSUME CInv, Flush \/ SetBufSize
  PROVE  Counted'
  <1>1. Ready /\ Live /\ RInv
    BY DEF Flush, SetBufSize, Ready, Live, CInv
  <1>2. Good(f, disk) /\ disk \in Seq(Chars) /\ Content = View(f, disk)
        /\ f.filsize <= Len(Content)
    BY <1>1, LiveSeen DEF CInv, Counted
  <1>3. CASE FlushRaises(f)
    BY <1>3 DEF FlushRaises, Raise, Counted, Live
  <1>4. CASE Flush /\ ~FlushRaises(f)
    <2>1. /\ ~FlushFails(f) /\ f' = Flushed(f) /\ disk' = FlushedDisk(f, disk)
          /\ mode' = mode /\ status' = status
      BY <1>4 DEF Flush
    <2>2. PICK y, v : y = Flushed(f) /\ v = View(f, disk)
      OBVIOUS
    <2>3. disk' = v /\ View(y, v) = v /\ y.filsize <= Len(v)
      BY <1>2, <2>1, <2>2, FlushGood
    <2>4. Live'
      BY <1>1, <2>1 DEF Live
    <2>5. Content' = v
      BY <2>1, <2>2, <2>3, <2>4, SeenNext
    <2> QED BY <2>1, <2>2, <2>3, <2>5 DEF Counted
  <1>5. CASE SetBufSize /\ ~FlushRaises(f)
    <2>1. PICK size \in BufSizes :
            /\ ~FlushFails(f) /\ f' = [ReturnBuffer(Flushed(f)) EXCEPT !.bufsize = size]
            /\ disk' = FlushedDisk(f, disk) /\ mode' = mode /\ status' = status
      BY <1>5 DEF SetBufSize
    <2>2. PICK e, v, y : e = Flushed(f) /\ v = View(f, disk)
                         /\ y = [ReturnBuffer(e) EXCEPT !.bufsize = size]
      OBVIOUS
    <2>3. disk' = v /\ v \in Seq(Chars) /\ Good(e, v) /\ e.otop = 0 /\ e.filsize <= Len(v)
      BY <1>2, <2>1, <2>2, FlushGood
    <2>4. size \in Nat \ {0}
      BY BufferAssumption
    <2>5. View(y, v) = v /\ y.filsize = e.filsize
      BY <2>2, <2>3, <2>4, ReturnBufferGood
    <2>6. Live'
      BY <1>1, <2>1 DEF Live
    <2>7. Content' = v
      BY <2>1, <2>2, <2>3, <2>5, <2>6, SeenNext
    <2> QED BY <2>1, <2>2, <2>3, <2>5, <2>7 DEF Counted
  <1> QED BY <1>3, <1>4, <1>5

LEMMA CancelCounts ==
  ASSUME CancelModes \subseteq {"ro"}, CInv, SetCancel
  PROVE  Counted'
  <1>1. /\ Ready /\ disk' = disk /\ mode' = mode /\ status' = status
        /\ Live /\ Live' /\ RInv /\ mode = "ro"
        /\ f' = LSEEK([f EXCEPT !.iop = 0, !.itop = 0, !.otop = 0, !.boffset = 0], LNOTE(f))
    BY DEF SetCancel, Ready, Live, CInv
  <1>2. Good(f, disk) /\ disk \in Seq(Chars) /\ f.filsize <= Len(Content)
        /\ Content = View(f, disk) /\ f.otop = 0 /\ Typed(f)
    BY <1>1, LiveSeen DEF CInv, Counted, RInv, IInv, Good
  <1>3. Content = disk
    BY <1>2, CleanIsDone, ViewClean
  <1>4. View(f', disk) = disk /\ f'.filsize = f.filsize
    BY <1>1, <1>2, CancelIs
  <1>5. Content' = disk
    BY <1>1, <1>4, SeenNext
  <1> QED BY <1>2, <1>3, <1>4, <1>5 DEF Counted

LEMMA CInvNext ==
  ASSUME CancelModes \subseteq {"ro"}, CInv, [Next]_vars
  PROVE  Counted'
  <1>1. CASE UNCHANGED vars \/ StartRead \/ StartWrite
    <2>1. disk' = disk /\ f' = f /\ mode' = mode /\ status' = status
      BY <1>1 DEF vars, StartRead, StartWrite
    <2>2. (Live' <=> Live) /\ Content' = Content
      BY <2>1 DEF Live, Content, UpdateIop, Patch
    <2> QED BY <2>1, <2>2 DEF CInv, Counted
  <1>2. CASE Close
    <2>1. ~Live'
      BY <1>2 DEF Close, FlushRaises, Raise, Live
    <2> QED BY <2>1 DEF Counted
  <1>3. CASE Cleanup
    BY <1>3 DEF Cleanup, Counted, Live
  <1> QED BY <1>1, <1>2, <1>3, OpenCounts, ReadCounts, WriteCounts, MoveCounts, FlushCounts,
             CancelCounts DEF CInv, Next

\* When F_CANCEL is used on files that are read only, a seek to EOF always puts
\* the program behind the last char of the file as it sees it: the size that FIO
\* keeps and what is in the buffer give the size of the file together.
THEOREM EndOfFileFound ==
  ASSUME CancelModes \subseteq {"ro"}
  PROVE  Spec => EndOfFile
  <1>1. Init => CInv
    <2>1. Init => ~Live
      BY DEF Init, Live
    <2>2. Init => RInv
      BY InitInv, NoFileIs DEF Init, RInv, ReadOnlyCancelled
    <2> QED BY <2>1, <2>2 DEF CInv, Counted
  <1>2. CInv /\ [Next]_vars => CInv'
    BY NextInv, RInvNext, CInvNext DEF CInv, RInv
  <1>3. CInv /\ [Next]_vars => [SeekEOF => LNOTE(f') = Len(Content) + 1]_vars
    BY MoveCounts
  <1> QED BY <1>1, <1>2, <1>3, PTL DEF Spec, EndOfFile

=============================================================================
