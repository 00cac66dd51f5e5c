---------------------------- MODULE JsonlFormat -----------------------------
(***************************************************************************)
(* The physical format of a session log (session-persistence-jsonl/src:    *)
(* format.ts, zstd.ts) and what a reader makes of any file content.        *)
(*                                                                         *)
(* A file is a sequence of tokens.  An event row is its body followed by   *)
(* its newline; a Zstandard frame brackets the rows of one batch.  The     *)
(* header, written once with the first batch, is left out, and so is the   *)
(* packing of several delta events into one row.                           *)
(***************************************************************************)
EXTENDS Naturals, Sequences, SequencesExt

CONSTANTS
    MaxEvents,  \* bound: events in the log when another is accepted
    MaxLives    \* bound: processes that write the log, one after another

(* Two events with one sequence number differ in the process that wrote    *)
(* them; "end" marks turn/end.                                             *)
Event == [seq : 1..MaxEvents + MaxLives, life : 1..MaxLives, end : BOOLEAN]
FrameMark == [seq |-> 0, life |-> 0, end |-> FALSE]
Token == [is : {"body", "newline"}, of : Event] \cup [is : {"open", "close"}, of : {FrameMark}]

Rows(events) ==
    [i \in 1..2 * Len(events) |->
        [is |-> IF i % 2 = 1 THEN "body" ELSE "newline", of |-> events[(i + 1) \div 2]]]

Mark(kind) == [is |-> kind, of |-> FrameMark]

encodeEventBatch(compression, events) ==
    IF compression = "zstd"
    THEN <<Mark("open")>> \o Rows(events) \o <<Mark("close")>>
    ELSE Rows(events)

-----------------------------------------------------------------------------
(* SessionLogScanner: the contiguous event prefix, the tokens it spans, the *)
(* row in progress, whether a row was refused, whether the log was.         *)

EmptyScan == [events |-> <<>>, committed |-> 0, at |-> 0, row |-> <<>>,
              issue |-> FALSE, refused |-> FALSE]

(* A row made of the pieces of two bodies does not parse.  Once a row was  *)
(* refused the rest is ignored, but a turn/end there refuses the log.      *)
consumeEventLine(scan) ==
    LET parses == Len(scan.row) = 1
        event == scan.row[1]
        next == [scan EXCEPT !.at = @ + 1, !.row = <<>>]
        fits == ~scan.issue /\ event.seq = Len(scan.events) + 1
    IN  IF ~parses THEN [next EXCEPT !.issue = TRUE]
        ELSE IF fits
        THEN [next EXCEPT !.events = Append(@, event), !.committed = next.at]
        ELSE [next EXCEPT !.issue = TRUE, !.refused = @ \/ event.end]

ScanToken(scan, token) ==
    CASE token.is = "newline" -> consumeEventLine(scan)
      [] token.is = "body" -> [scan EXCEPT !.at = @ + 1, !.row = Append(@, token.of)]
      [] OTHER -> [scan EXCEPT !.at = @ + 1]

scanLog(file) == FoldLeft(ScanToken, EmptyScan, file)

-----------------------------------------------------------------------------
(* Cold reads.  A reading is the events, where the torn tail starts, the    *)
(* events recovered from that tail, and whether the log was refused.        *)

Reading(events, keep, recovered, refused) ==
    [events |-> events, keep |-> keep, recovered |-> recovered, refused |-> refused]

PlainReadings(file) ==
    LET scan == scanLog(file)
    IN  {Reading(scan.events, scan.committed, <<>>, scan.refused)}

Torn(file) ==
    {i \in DOMAIN file :
        /\ file[i].is = "open"
        /\ \A j \in i + 1..Len(file) :
            file[j].is = "close" => \E k \in i + 1..j : file[k].is = "open"}

tornStart(file) == CHOOSE i \in Torn(file) : \A j \in Torn(file) : i <= j

(* Complete frames must scan to the end.  The decoder yields some of the    *)
(* plaintext of a torn final frame.  A frame written after a torn one is    *)
(* walked as if it were the torn one's blocks: the outcome depends on the   *)
(* bytes, and is either a refusal or a tail that yields nothing.            *)
ZstdReadings(file) ==
    LET first == IF Torn(file) = {} THEN Len(file) + 1 ELSE tornStart(file)
        complete == scanLog(SubSeq(file, 1, first - 1))
        overrun == \E i \in first + 1..Len(file) : file[i].is = "open"
        tails == IF overrun \/ first > Len(file) THEN {first - 1} ELSE first..Len(file)
        refusal == Reading(<<>>, 0, <<>>, TRUE)
        With(scan) ==
            IF scan.refused THEN refusal
            ELSE Reading(scan.events, first - 1,
                         SubSeq(scan.events, Len(complete.events) + 1, Len(scan.events)), FALSE)
    IN  IF complete.issue \/ complete.row # <<>> THEN {refusal}
        ELSE {With(scanLog(SubSeq(file, 1, n))) : n \in tails}
             \cup (IF overrun THEN {refusal} ELSE {})

(* readPrefix *)
Readings(compression, file) ==
    IF compression = "zstd" THEN ZstdReadings(file) ELSE PlainReadings(file)

(* readRaw hands out the complete frames, or the text as it is. *)
rawText(compression, file) ==
    IF compression = "zstd" /\ Torn(file) # {} THEN SubSeq(file, 1, tornStart(file) - 1) ELSE file
=============================================================================
