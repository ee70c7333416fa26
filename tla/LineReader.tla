------------------------------ MODULE LineReader ------------------------------
(***************************************************************************)
(* The lines of the stdio listener.  The loop of serve_mcp_io calls        *)
(* read_bounded_line, which takes what is buffered, as much as there is,   *)
(* up to the end of a line, and forgets a line that is too large.          *)
(***************************************************************************)
EXTENDS Integers, FiniteSets, Sequences, SequencesExt

CONSTANTS
    Streams,  \* what may come on the standard input
    LF, CR,   \* the bytes that matter, line feed and carriage return
    MaxLine   \* WireLimits.mcp

VARIABLES
    stream,    \* all that comes on the standard input
    consumed,  \* how much of it was consumed
    output,    \* the line as far as it was read
    tooLarge,  \* too_large
    observed,  \* whether this call has seen a byte
    lines,     \* what the calls returned
    ended      \* whether a call returned None

reader == <<stream, consumed, output, tooLarge, observed, lines, ended>>

Line(content, large) == [content |-> content, large |-> large]

Init ==
    /\ stream \in Streams
    /\ consumed = 0
    /\ output = <<>> /\ tooLarge = FALSE /\ observed = FALSE
    /\ lines = <<>>
    /\ ended = FALSE

\* The call returns, and the next one begins.
Return(line) ==
    /\ lines' = Append(lines, line)
    /\ output' = <<>> /\ tooLarge' = FALSE /\ observed' = FALSE

\* What a turn keeps of the bytes of the line that it took.
Grown(taken) == IF tooLarge THEN <<>> ELSE output \o taken

\* Mutant: the size of the bytes at hand is compared, without those before them.
ExceedsAlone(taken) == tooLarge \/ Len(taken) > MaxLine

Exceeds(taken) == tooLarge \/ Len(output) + Len(taken) > MaxLine

Kept(taken) == IF Exceeds(taken) THEN <<>> ELSE Grown(taken)

WithoutCr(line) == IF line # <<>> /\ Last(line) = CR THEN Front(line) ELSE line

\* fill_buf() returns some of what is left; its first line feed ends the line.
ReadToLineFeed ==
    /\ ~ended
    /\ \E feed \in (consumed + 1)..Len(stream) :
          LET taken == SubSeq(stream, consumed + 1, feed - 1)
          IN  /\ stream[feed] = LF
              /\ LF \notin Range(taken)
              /\ consumed' = feed
              /\ Return(Line(WithoutCr(Kept(taken)), Exceeds(taken)))
    /\ UNCHANGED <<stream, ended>>

ReadOn ==
    /\ ~ended
    /\ \E last \in (consumed + 1)..Len(stream) :
          LET taken == SubSeq(stream, consumed + 1, last)
          IN  /\ LF \notin Range(taken)
              /\ consumed' = last
              /\ output' = Kept(taken)
              /\ tooLarge' = Exceeds(taken)
    /\ observed' = TRUE
    /\ UNCHANGED <<stream, lines, ended>>

ReadEof ==
    /\ ~ended
    /\ consumed = Len(stream)
    /\ IF observed
       THEN Return(Line(output, tooLarge)) /\ UNCHANGED ended
       ELSE ended' = TRUE /\ UNCHANGED <<output, tooLarge, observed, lines>>
    /\ UNCHANGED <<stream, consumed>>

Next == ReadToLineFeed \/ ReadOn \/ ReadEof

Spec == Init /\ [][Next]_reader

------------------------------------------------------------------------------
\* The lines of a stream that is known as a whole: what is between two line feeds,
\* without a carriage return, and what is left after the last one, if anything.
Feeds(whole) == {i \in DOMAIN whole : whole[i] = LF}
FeedsBefore(whole, i) == {j \in Feeds(whole) : j < i}

End(whole, k) ==
    CHOOSE i \in Feeds(whole) \cup {Len(whole) + 1} : Cardinality(FeedsBefore(whole, i)) = k - 1

Raw(whole, k) == SubSeq(whole, IF k = 1 THEN 1 ELSE End(whole, k - 1) + 1, End(whole, k) - 1)

LineOf(whole, k) ==
    IF Len(Raw(whole, k)) > MaxLine THEN Line(<<>>, TRUE)
    ELSE Line(IF End(whole, k) \in Feeds(whole) THEN WithoutCr(Raw(whole, k)) ELSE Raw(whole, k),
              FALSE)

LinesOf(whole) ==
    LET full == Cardinality(Feeds(whole))
        count == IF Raw(whole, full + 1) = <<>> THEN full ELSE full + 1
    IN  [k \in 1..count |-> LineOf(whole, k)]

\* What a stream may be for the theorems: any sequence.
ReaderInputs ==
    /\ MaxLine \in Nat
    /\ \A s \in Streams : s \in Seq(Range(s))

\* However the input is cut into reads, the listener sees each line of it once, in
\* order, whole or as one that is too large, and never holds more than the limit.
LinesAreExact ==
    /\ Len(output) <= MaxLine
    /\ ended => lines = LinesOf(stream)
==============================================================================
