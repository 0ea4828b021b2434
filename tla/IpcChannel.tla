----------------------------- MODULE IpcChannel -----------------------------
(***************************************************************************)
(* The channel between the CL and a connected subprocess, zardpr and       *)
(* zawrpr of unix/os/zfiopr.c: records that go through a pipe, each behind *)
(* a header of a magic number and a count.  The unit is the SPP char of    *)
(* two bytes, in which all i/o on a channel is done: one for each half of  *)
(* the header.  A record fits in the short count (PR_MAXBUFSIZE).          *)
(*                                                                         *)
(* The writer blocks interrupts while it writes a record; the reader only  *)
(* after it has read the header.  The handler of an interrupt jumps out of *)
(* zardpr.                                                                 *)
(***************************************************************************)
EXTENDS Integers, SequencesExt

CONSTANTS IPC_MAGIC,    \* the first char of a header
          Data,         \* the chars that are sent
          MaxRecord,    \* bound on the length of a record
          Limits,       \* maxbytes, in chars, of the reads
          PipeSize,     \* the room in the pipe
          MaxRecords,   \* bound on the records that are sent
          MaxReads,     \* bound on the reads
          MaxInterrupts \* bound on the interrupts

ASSUME ChannelAssumption ==
    /\ IPC_MAGIC \in Nat /\ Data \subseteq Nat
    /\ MaxRecord \in Nat \ {0} /\ Limits \subseteq Nat \ {0}
    /\ PipeSize \in Nat \ {0}
    /\ MaxRecords \in Nat /\ MaxReads \in Nat /\ MaxInterrupts \in Nat

Record == UNION {[1..n -> Data] : n \in 1..MaxRecord}

\* What there can be in the pipe.
Char == Data \cup {IPC_MAGIC} \cup 1..MaxRecord

VARIABLES
    pipe,       \* the chars in the pipe
    writer,     \* where the writer is and what it has still to write
    reader,     \* where zardpr is, and its variables
    got,        \* pr_ionbytes of the reader, with the data, after a read
    sent,       \* history: the records that were sent and not read yet
    hist        \* history: whether an interrupt came after the magic number, the
                \* numbers of records, reads and interrupts

vars == <<pipe, writer, reader, got, sent, hist>>

\* pending: an interrupt waits for the end of the critical section.
Waiting == [at |-> "idle", limit |-> 0, left |-> 0, skip |-> 0, buf |-> <<>>,
            pending |-> FALSE]

Init ==
    /\ pipe = <<>>
    /\ writer = [at |-> "idle", todo |-> <<>>]
    /\ reader = Waiting
    /\ got = [ok |-> TRUE, data |-> <<>>]
    /\ sent = <<>>
    /\ hist = [torn |-> FALSE, records |-> 0, reads |-> 0, interrupts |-> 0]

Least(m, n) == IF m < n THEN m ELSE n
Room == PipeSize - Len(pipe)

-----------------------------------------------------------------------------
(* zawrpr.                                                                 *)

\* The magic number of a new record is written.
WriteMagic ==
    /\ writer.at = "idle" /\ Room > 0 /\ hist.records < MaxRecords
    /\ \E r \in Record :
          /\ writer' = [at |-> "count", todo |-> r]
          /\ sent' = Append(sent, r)
    /\ pipe' = Append(pipe, IPC_MAGIC)
    /\ hist' = [hist EXCEPT !.records = @ + 1]
    /\ UNCHANGED <<reader, got>>

WriteCount ==
    /\ writer.at = "count" /\ Room > 0
    /\ pipe' = Append(pipe, Len(writer.todo))
    /\ writer' = [writer EXCEPT !.at = "data"]
    /\ UNCHANGED <<reader, got, sent, hist>>

\* The host takes as much as it has room for.
WriteData ==
    /\ writer.at = "data" /\ Room > 0
    /\ LET n == Least(Room, Len(writer.todo))
           rest == SubSeq(writer.todo, n + 1, Len(writer.todo))
       IN  /\ pipe' = pipe \o SubSeq(writer.todo, 1, n)
           /\ writer' = [at |-> IF rest = <<>> THEN "idle" ELSE "data", todo |-> rest]
    /\ UNCHANGED <<reader, got, sent, hist>>

\* The writer dies, at any moment: the pipe is at its end after what is in it.
WriterDies ==
    /\ writer.at # "dead"
    /\ writer' = [at |-> "dead", todo |-> <<>>]
    /\ sent' = IF writer.at = "idle" THEN sent
               ELSE [sent EXCEPT ![Len(sent)] =
                        IF writer.at = "count" THEN <<>>
                        ELSE SubSeq(@, 1, Len(@) - Len(writer.todo))]
    /\ UNCHANGED <<pipe, reader, got, hist>>

-----------------------------------------------------------------------------
(* zardpr.                                                                 *)

AtEnd == pipe = <<>> /\ writer.at = "dead"

\* The records that are left when the current one was given to the reader.
Rest == IF sent = <<>> THEN <<>> ELSE Tail(sent)

\* The read ends with what is in buf, or, if an interrupt was pending, without.
Finish(buf) ==
    /\ got' = IF reader.pending THEN got ELSE [ok |-> TRUE, data |-> buf]
    /\ reader' = Waiting
    /\ sent' = Rest

Fail ==
    /\ got' = [ok |-> FALSE, data |-> <<>>]
    /\ reader' = Waiting

ReadMagic ==
    /\ reader.at = "idle" /\ pipe # <<>> /\ hist.reads < MaxReads
    /\ IF Head(pipe) = IPC_MAGIC
       THEN /\ \E n \in Limits : reader' = [Waiting EXCEPT !.at = "count", !.limit = n]
            /\ UNCHANGED <<got, sent>>
       ELSE Fail /\ UNCHANGED sent
    /\ pipe' = Tail(pipe)
    /\ hist' = [hist EXCEPT !.reads = @ + 1]
    /\ UNCHANGED writer

ReadEnd ==
    /\ reader.at = "idle" /\ AtEnd /\ hist.reads < MaxReads
    /\ got' = [ok |-> TRUE, data |-> <<>>]
    /\ hist' = [hist EXCEPT !.reads = @ + 1]
    /\ UNCHANGED <<pipe, writer, reader, sent>>

\* Mutant: as much is read as the caller has room for.
ReadCountMax ==
    /\ reader.at = "count" /\ pipe # <<>>
    /\ reader' = [reader EXCEPT !.at = "mask", !.left = reader.limit,
                                !.skip = Head(pipe) - reader.limit]
    /\ pipe' = Tail(pipe)
    /\ UNCHANGED <<writer, got, sent, hist>>

ReadCount ==
    /\ reader.at = "count" /\ pipe # <<>>
    /\ LET n == Least(Head(pipe), reader.limit)
       IN  reader' = [reader EXCEPT !.at = "mask", !.left = n, !.skip = Head(pipe) - n]
    /\ pipe' = Tail(pipe)
    /\ UNCHANGED <<writer, got, sent, hist>>

ReadCountFails ==
    /\ reader.at = "count" /\ AtEnd
    /\ Fail
    /\ sent' = Rest
    /\ UNCHANGED <<pipe, writer, hist>>

\* Interrupts are blocked from here on.
Mask ==
    /\ reader.at = "mask"
    /\ reader' = [reader EXCEPT !.at = "data"]
    /\ UNCHANGED <<pipe, writer, got, sent, hist>>

\* Mutant: what is read is not subtracted from what there is to read.
ReadDataAgain ==
    /\ reader.at = "data" /\ reader.left > 0 /\ pipe # <<>>
    /\ LET n == Least(reader.left, Len(pipe))
       IN  /\ reader' = [reader EXCEPT !.buf = @ \o SubSeq(pipe, 1, n)]
           /\ pipe' = SubSeq(pipe, n + 1, Len(pipe))
    /\ UNCHANGED <<writer, got, sent, hist>>

ReadData ==
    /\ reader.at = "data" /\ reader.left > 0 /\ pipe # <<>>
    /\ LET n == Least(reader.left, Len(pipe))
       IN  /\ reader' = [reader EXCEPT !.left = @ - n, !.buf = @ \o SubSeq(pipe, 1, n)]
           /\ pipe' = SubSeq(pipe, n + 1, Len(pipe))
    /\ UNCHANGED <<writer, got, sent, hist>>

\* The rest of a record that is larger than maxbytes is discarded.
Discard ==
    /\ reader.at = "data" /\ reader.left = 0 /\ reader.skip > 0 /\ pipe # <<>>
    /\ reader' = [reader EXCEPT !.skip = @ - 1]
    /\ pipe' = Tail(pipe)
    /\ UNCHANGED <<writer, got, sent, hist>>

\* Mutant: the rest of a record is left in the pipe.
ReadDoneEarly ==
    /\ reader.at = "data"
    /\ reader.left = 0 \/ AtEnd
    /\ Finish(reader.buf)
    /\ UNCHANGED <<pipe, writer, hist>>

ReadDone ==
    /\ reader.at = "data"
    /\ (reader.left = 0 /\ reader.skip = 0) \/ AtEnd
    /\ Finish(reader.buf)
    /\ UNCHANGED <<pipe, writer, hist>>

\* A read that waits for the header is abandoned; later the interrupt waits.
Interrupt ==
    /\ reader.at # "idle" /\ ~reader.pending /\ hist.interrupts < MaxInterrupts
    /\ reader' = IF reader.at = "data" THEN [reader EXCEPT !.pending = TRUE] ELSE Waiting
    /\ hist' = [hist EXCEPT !.torn = @ \/ reader.at # "data", !.interrupts = @ + 1]
    /\ UNCHANGED <<pipe, writer, got, sent>>

Write == WriteMagic \/ WriteCount \/ WriteData
Read == ReadMagic \/ ReadEnd \/ ReadCount \/ ReadCountFails \/ Mask \/ ReadData
        \/ Discard \/ ReadDone

Next == Write \/ WriterDies \/ Read \/ Interrupt

\* A write that has begun goes on when there is room, a read when there is data.
Fairness == WF_vars(WriteCount \/ WriteData) /\ WF_vars(Read)

Spec == Init /\ [][Next]_vars /\ Fairness

-----------------------------------------------------------------------------
TypeOK ==
    /\ pipe \in Seq(Char) /\ Len(pipe) <= PipeSize
    /\ writer.at \in {"idle", "count", "data", "dead"}
    /\ writer.todo \in Record \cup {<<>>}
    /\ reader.at \in {"idle", "count", "mask", "data"}
    /\ reader.limit \in Limits \cup {0} /\ reader.left \in Nat /\ reader.skip \in Nat
    /\ reader.buf \in Seq(Char) /\ reader.pending \in BOOLEAN
    /\ got.ok \in BOOLEAN /\ got.data \in Seq(Char)
    /\ got.data = <<>> \/ \E n \in Limits : Len(got.data) <= n
    /\ sent \in Seq(Record \cup {<<>>})

\* Until an interrupt comes between the halves of a header the reader stays in
\* step: what it has still to read of the current record, the pipe and what the
\* writer has still to write are the records that were sent, to the char
\* ("Disaster occurs if the actual block length does not agree with the header").
Block(r) == <<IPC_MAGIC, Len(r)>> \o r
Stream(q) == FlattenSeq([i \in DOMAIN q |-> Block(q[i])])
Ahead == CASE writer.at = "count" -> <<Len(writer.todo)>> \o writer.todo
           [] OTHER -> writer.todo
Unread == reader.left + reader.skip
Behind == CASE reader.at = "idle" -> Stream(sent)
            [] reader.at = "count" -> Tail(Stream(sent))
            [] OTHER -> SubSeq(Head(sent), Len(Head(sent)) - Unread + 1, Len(Head(sent)))
                        \o Stream(Tail(sent))
InStep == ~hist.torn /\ writer.at # "dead" => pipe \o Ahead = Behind

\* Records arrive one by one, whole or cut to maxbytes, in order.
Queue == INSTANCE RecordQueue WITH
             Limit <- Limits,
             queue <- sent,
             open <- writer.at # "dead"
Records == Queue!Init /\ [][hist'.torn \/ Queue!Next]_<<sent, writer.at # "dead", got>>

\* A reader that is in step does not stay in its critical section, where no
\* interrupt reaches it: the rest of the record comes, or the writer dies.  (One
\* that is out of step may wait there for chars that were never sent.)
ReadEnds == (reader.at = "data" /\ ~hist.torn) ~> reader.at = "idle"

\* "This is implemented as a critical section to prevent corruption of the IPC
\* protocol when an interrupt occurs": no read from a living writer fails.
Uncorrupted == writer.at # "dead" => got.ok

=============================================================================
