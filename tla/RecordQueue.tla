---------------------------- MODULE RecordQueue -----------------------------
(***************************************************************************)
(* What an IPC channel promises: the records that are written are read one *)
(* at a time and in order, each of them whole or cut to the size that is   *)
(* asked for; if the writer dies the last record may be cut short.  A read *)
(* that is interrupted loses at most the record it was reading.            *)
(***************************************************************************)
EXTENDS Naturals, Sequences

CONSTANTS Record, Limit

VARIABLES queue,    \* the records that were sent and not read yet
          open,     \* the writer has the channel open
          got       \* what the last read returned

chan == <<queue, open, got>>

Cut(r, n) == SubSeq(r, 1, IF n < Len(r) THEN n ELSE Len(r))

Init == queue = <<>> /\ open = TRUE /\ got = [ok |-> TRUE, data |-> <<>>]

Send(r) == open /\ queue' = Append(queue, r) /\ UNCHANGED <<open, got>>

Receive(n) ==
    /\ queue # <<>>
    /\ got' = [ok |-> TRUE, data |-> Cut(Head(queue), n)]
    /\ queue' = Tail(queue) /\ UNCHANGED open

\* End of file, and an error for a record of which nothing but its start is there.
ReceiveEnd == /\ ~open /\ queue = <<>>
              /\ got' = [ok |-> TRUE, data |-> <<>>]
              /\ UNCHANGED <<queue, open>>

ReceiveError == /\ ~open /\ queue = << <<>> >>
                /\ got' = [ok |-> FALSE, data |-> <<>>]
                /\ queue' = <<>> /\ UNCHANGED open

Lose == queue # <<>> /\ queue' = Tail(queue) /\ UNCHANGED <<open, got>>

Die == /\ open /\ open' = FALSE /\ UNCHANGED got
       /\ \/ queue' = queue
          \/ /\ queue # <<>>
             /\ LET last == queue[Len(queue)]
                    rest == SubSeq(queue, 1, Len(queue) - 1)
                IN  \E n \in 0..Len(last) : queue' = Append(rest, Cut(last, n))

Next == \/ \E r \in Record : Send(r)
        \/ \E n \in Limit : Receive(n)
        \/ ReceiveEnd \/ ReceiveError \/ Lose \/ Die

Spec == Init /\ [][Next]_chan
=============================================================================
