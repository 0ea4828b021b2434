------------------------------ MODULE ByteFile ------------------------------
(***************************************************************************)
(* What a binary file of FIO promises the program that opens it: a         *)
(* sequence of chars and a position in it.  Between open and close the     *)
(* program sees what it has written; what it has written becomes permanent *)
(* piece by piece, and all of it when it flushes or closes the file.  An   *)
(* error or a death may lose what is not permanent yet, and nothing else.  *)
(***************************************************************************)
EXTENDS Integers, Sequences

CONSTANTS Char, EOF

VARIABLES content,  \* the file as the program sees it
          saved,    \* the file as it will be found if the program dies
          pos,      \* offset of the next char to be read or written
          out,      \* chars delivered by the last step
          isopen

bvars == <<content, saved, pos, out, isopen>>

\* Some of what has been written becomes permanent, char by char.
Writeback(old, new) ==
    /\ Len(saved') \in {Len(old)} \cup Len(old)..Len(new)
    /\ \A k \in 1..Len(saved') :
         \/ k <= Len(old) /\ saved'[k] = old[k]
         \/ k <= Len(new) /\ saved'[k] = new[k]

\* d with s at offset o; what is between the end of d and o is anything.
Written(d, o, s, new) ==
    /\ Len(new) = IF o + Len(s) - 1 > Len(d) THEN o + Len(s) - 1 ELSE Len(d)
    /\ \A k \in 1..Len(new) :
         /\ k \in o..o + Len(s) - 1 => new[k] = s[k - o + 1]
         /\ k < o /\ k <= Len(d) => new[k] = d[k]
         /\ k >= o + Len(s) => new[k] = d[k]

BInit ==
    /\ content = << >> /\ saved = << >> /\ pos = 1 /\ out = << >>
    /\ isopen = FALSE

\* A new file replaces the old one.
Open ==
    /\ ~isopen /\ isopen'
    /\ saved' \in {saved, << >>}
    /\ content' = saved' /\ out' = << >>
    /\ pos' \in {1, Len(content') + 1}

Read ==
    /\ isopen
    /\ out' # << >>
    /\ IF out' = <<EOF>>
       THEN pos > Len(content) /\ pos' = pos
       ELSE /\ pos + Len(out') - 1 <= Len(content)
            /\ out' = SubSeq(content, pos, pos + Len(out') - 1)
            /\ pos' = pos + Len(out')
    /\ Writeback(saved, content)
    /\ UNCHANGED <<content, isopen>>

Write ==
    /\ isopen
    /\ pos < pos' /\ pos' - 1 <= Len(content') /\ out' = << >>
    /\ Written(content, pos, SubSeq(content', pos, pos' - 1), content')
    /\ Writeback(saved, content)
    /\ UNCHANGED isopen

Seek ==
    /\ isopen
    /\ pos' \in Nat /\ out' = << >>
    /\ UNCHANGED <<content, saved, isopen>>

Flush ==
    /\ isopen
    /\ saved' = content /\ out' = << >>
    /\ UNCHANGED <<content, pos, isopen>>

\* Something is done to the file that does not show.
Hidden ==
    /\ out' = << >>
    /\ Writeback(saved, content)
    /\ UNCHANGED <<content, pos, isopen>>

\* What has not become permanent is given up; the file stays open.
Cancel ==
    /\ isopen
    /\ content' = saved /\ out' = << >>
    /\ UNCHANGED <<saved, pos, isopen>>

Close ==
    /\ isopen /\ ~isopen'
    /\ saved' = content /\ content' = saved'
    /\ out' = << >> /\ pos' = 1

\* The program fails or dies: a file that was new may be deleted.
Fail ==
    /\ ~isopen'
    /\ Writeback(saved, content) \/ saved' = << >>
    /\ content' = saved' /\ out' = << >> /\ pos' = 1

BNext == Open \/ Read \/ Write \/ Seek \/ Flush \/ Hidden \/ Cancel \/ Close \/ Fail

BSpec == BInit /\ [][BNext]_bvars
=============================================================================
