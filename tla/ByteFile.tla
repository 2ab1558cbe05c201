------------------------------ MODULE ByteFile ------------------------------
(***************************************************************************)
(* A file as its users see it through File.hpp: a sequence of bytes and a  *)
(* stream position, to read from, write to, seek in and truncate.          *)
(***************************************************************************)
EXTENDS Integers, Sequences

VARIABLES
    content, \* the bytes of the file
    pos,     \* where the next read or write begins
    call     \* the last read or write: the count asked for, the bytes transferred

(* After a seek that failed, or a truncation, the position is not defined. *)
Unknown == -1

NoCall == [asked |-> 0, bytes |-> << >>]

Init == content = << >> /\ pos = Unknown /\ call = NoCall

(* Opening a file positions it too. *)
Seek ==
    /\ pos' \in 0 .. Len(content) \union {Unknown}
    /\ call' = NoCall
    /\ UNCHANGED content

(* A read returns what was asked for, or all that is left. *)
Read ==
    /\ pos # Unknown
    /\ \E n \in 0 .. Len(content) - pos :
        /\ call'.bytes = SubSeq(content, pos + 1, pos + n)
        /\ n = call'.asked \/ (n = Len(content) - pos /\ n < call'.asked)
        /\ pos' = pos + n
    /\ UNCHANGED content

(* A write replaces the bytes from pos on; the file grows when they reach  *)
(* past its end.                                                           *)
Write ==
    /\ pos # Unknown
    /\ Len(call'.bytes) = call'.asked
    /\ pos' = pos + call'.asked
    /\ content' = [i \in 1 .. (IF pos' > Len(content) THEN pos' ELSE Len(content)) |->
                     IF i \in pos + 1 .. pos' THEN call'.bytes[i - pos] ELSE content[i]]

Truncate ==
    /\ \E n \in 0 .. Len(content) : content' = SubSeq(content, 1, n)
    /\ pos' = Unknown
    /\ call' = NoCall

Next == Seek \/ Read \/ Write \/ Truncate

Spec == Init /\ [][Next]_<<content, pos, call>>
=============================================================================
