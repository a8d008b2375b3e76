---------------------------- MODULE MessageFrames ----------------------------
(***************************************************************************)
(* msg3_parser.rs: how the content of a message is cut into elements.      *)
(* parse_msgcontent reads it for the chat page and for linking; before it, *)
(* link-chat asks msgcontent_maybe_contains_multi_msg whether there may be *)
(* a forwarded record at all.  The two walk over the same bytes, the first *)
(* one knowing what each element says, the second one only its length.     *)
(*                                                                         *)
(* Bytes are grouped into cells: a header is one cell, a payload as many   *)
(* cells as its length says, and a payload is made of cells too, so that a *)
(* reader that lost its place may take a payload for a header.  Of what    *)
(* the decoders find in an element, useful keeps whether useful_element    *)
(* accepts it.                                                             *)
(***************************************************************************)
EXTENDS Integers, Sequences, FiniteSets, SequencesExt

CONSTANTS
  Cells,     \* the cells contents are made of
  MaxCells,  \* bound on the cells of a content
  MaxScan,   \* how far next_standard_element_start looks, 1024 bytes
  GapFrom,   \* where raw_gap_element begins to accept gaps, byte 32
  MaxGap,    \* the longest gap it accepts, 512 bytes
  LongText,  \* text elements this long may be a record's, 1024 bytes
  Near       \* how far near_td_ta_marker_delta looks, 8 bytes

ASSUME FramesAssumption ==
  /\ \A c \in Cells :
       /\ c.kind \in {"other", "wide", "text", "frame", "multi", "layout", "record"}
       /\ c.len \in Nat /\ c.useful \in BOOLEAN
  /\ {MaxCells, MaxScan, GapFrom, MaxGap, LongText, Near} \subseteq Nat

VARIABLES
  content,  \* the bytes, after the header of 20 that begins with MSG
  reader,   \* who is at work: "parser", then "prefilter", then "none"
  at,       \* position of the reader
  out,      \* elements of the parser: where they begin, and their kind
  silent,   \* positions inside of valid frames that said nothing
  maybe     \* what the prefilter answers

frameVars == <<content, reader, at, out, silent, maybe>>

Standard == {"text", "frame", "multi", "layout"}  \* valid_element_type
Cell(p) == content[p]
Rest(p) == Len(content) - p

(***************************************************************************)
(* Lengths.                                                                *)
(***************************************************************************)
\* td_record_len, ta_record_len: the fields add up within the content.
RecordAt(p) == Cell(p).kind = "record" /\ Cell(p).len <= Rest(p)

\* Bug: elements without payload are no elements.
FrameNotEmptyAt(p) ==
  /\ Cell(p).kind \in Standard /\ Cell(p).len <= Rest(p)
  /\ Cell(p).len > 0

\* Only layout metadata may be empty.
FrameAt(p) ==
  /\ Cell(p).kind \in Standard /\ Cell(p).len <= Rest(p)
  /\ Cell(p).len > 0 \/ Cell(p).kind = "layout"

\* standard_element_len_at finds a length.
ElementAt(p) == RecordAt(p) \/ FrameAt(p)
Behind(p) == p + 1 + Cell(p).len

\* near_td_ta_marker_delta: a marker, whether or not a record follows it.
Markers(p) == {q \in p + 1 .. p + Near : q <= Len(content) /\ Cell(q).kind = "record"}
MarkerNear(p) == Cell(p).kind = "text" /\ Cell(p).len >= LongText /\ Markers(p) # {}

First(positions) == CHOOSE p \in positions : \A q \in positions : p <= q

\* next_standard_element_start; 0 for None.
NextStart(p) ==
  LET end == IF p + MaxScan < Len(content) + 1 THEN p + MaxScan ELSE Len(content) + 1
      starts == {q \in p .. end - 1 : ElementAt(q)}
  IN  IF starts # {} THEN First(starts)
      ELSE IF end = Len(content) + 1 THEN end ELSE 0

\* raw_gap_element finds a text in the bytes from p up to next.
Gap(p, next) ==
  /\ p >= GapFrom /\ p < next /\ next - p <= MaxGap
  /\ \E q \in p .. next - 1 : Cell(q).kind = "wide"

(***************************************************************************)
(* parse_msgcontent, one turn of the loop for each action.                 *)
(***************************************************************************)
Reading(who) == reader = who /\ at <= Len(content)
Elem(p, kind) == [at |-> p, kind |-> kind]

FramesInit ==
  /\ content \in UNION {[1 .. n -> Cells] : n \in 1 .. MaxCells}
  /\ reader = "parser" /\ at = 1 /\ out = {} /\ silent = {} /\ maybe = FALSE

ReadRecord ==
  /\ Reading("parser") /\ RecordAt(at)
  /\ out' = IF Cell(at).useful THEN out \cup {Elem(at, "record")} ELSE out
  /\ at' = Behind(at)
  /\ UNCHANGED <<content, reader, silent, maybe>>

ToMarker ==
  /\ Reading("parser") /\ ~RecordAt(at) /\ MarkerNear(at)
  /\ at' = First(Markers(at))
  /\ UNCHANGED <<content, reader, out, silent, maybe>>

\* Not a header: the bytes up to the next element may be a text.
ReadGap ==
  /\ Reading("parser") /\ ~RecordAt(at) /\ ~MarkerNear(at) /\ ~FrameAt(at)
  /\ LET next == NextStart(at + 1) IN
       IF next # 0 /\ Gap(at, next)
         THEN at' = next /\ out' = out \cup {Elem(at, "gap")}
         ELSE at' = at + 1 /\ UNCHANGED out
  /\ UNCHANGED <<content, reader, silent, maybe>>

ReadFrame ==
  /\ Reading("parser") /\ ~MarkerNear(at) /\ FrameAt(at)
  /\ Cell(at).useful
  /\ out' = out \cup {Elem(at, Cell(at).kind)} /\ at' = Behind(at)
  /\ UNCHANGED <<content, reader, silent, maybe>>

\* An element that says nothing may be a text, or else may not be one at all.
ReadSilent ==
  /\ Reading("parser") /\ ~MarkerNear(at) /\ FrameAt(at)
  /\ ~Cell(at).useful
  /\ IF Gap(at, Behind(at))
       THEN /\ out' = out \cup {Elem(at, "gap")} /\ at' = Behind(at)
            /\ UNCHANGED silent
       ELSE /\ at' = at + 1 /\ silent' = silent \cup (at + 1 .. Behind(at) - 1)
            /\ UNCHANGED out
  /\ UNCHANGED <<content, reader, maybe>>

\* embedded_visible_elements: when nothing is shown, any path in the bytes will
\* do. Whether a gap is shown depends on how its text was stored.
EndOfParse ==
  /\ reader = "parser" /\ at > Len(content)
  /\ reader' = "prefilter" /\ at' = 1
  /\ \/ UNCHANGED out
     \/ /\ \A e \in out : e.kind \in {"layout", "gap"}
        /\ out' = out \cup {Elem(0, "embedded")}
  /\ UNCHANGED <<content, silent, maybe>>

(***************************************************************************)
(* msgcontent_maybe_contains_multi_msg.                                    *)
(***************************************************************************)
\* Bug: where no element begins nearby, the rest is not looked at.
SkipToNext(p) == IF NextStart(p) # 0 THEN NextStart(p) ELSE Len(content) + 1

SkipTo(p) == IF NextStart(p) # 0 THEN NextStart(p) ELSE p

Prefilter ==
  /\ Reading("prefilter")
  /\ at' = IF RecordAt(at) THEN Behind(at)
           ELSE IF MarkerNear(at) THEN First(Markers(at))
           ELSE IF FrameAt(at) THEN Behind(at) ELSE SkipTo(at + 1)
  /\ maybe' = (FrameAt(at) /\ ~MarkerNear(at) /\ Cell(at).kind = "multi")
  /\ reader' = IF maybe' \/ at' > Len(content) THEN "none" ELSE reader
  /\ UNCHANGED <<content, out, silent>>

FramesNext ==
  \/ ReadRecord \/ ToMarker \/ ReadGap \/ ReadFrame \/ ReadSilent \/ EndOfParse
  \/ Prefilter

FramesSpec == FramesInit /\ [][FramesNext]_frameVars

(***************************************************************************)
(* Properties.                                                             *)
(***************************************************************************)
\* The reference: elements one behind the other, each complete and useful.
Complete(p) ==
  /\ Cell(p).kind \in Standard \cup {"record"} /\ Cell(p).useful
  /\ Cell(p).len > 0 \/ Cell(p).kind \in {"layout", "record"}

WellFormed ==
  LET ends == Len(content) + 1
      from[p \in 1 .. ends] == p = ends \/ (Complete(p) /\ p + 1 + Cell(p).len <= ends
                                            /\ from[p + 1 + Cell(p).len])
  IN  from[1]

Elements ==
  LET from[p \in 1 .. Len(content) + 1] ==
        IF p > Len(content) THEN {} ELSE {p} \cup from[p + 1 + Cell(p).len]
  IN  from[1]

TakenForRecord(p) ==
  /\ Cell(p).kind = "text" /\ Cell(p).len >= LongText
  /\ \E q \in p + 1 .. p + Near : q <= Len(content) /\ Cell(q).kind = "record"

(***************************************************************************)
(* Whatever its payloads contain, a content of complete elements is read   *)
(* as these elements (parse_msgcontent).  The exception is a long text     *)
(* that has the marker of a record in its first bytes.                     *)
(***************************************************************************)
ReadsWhatWasWritten ==
  reader # "parser" /\ WellFormed /\ (\A p \in Elements : ~TakenForRecord(p)) =>
    {e \in out : e.kind # "embedded"} = {Elem(p, Cell(p).kind) : p \in Elements}

(***************************************************************************)
(* "This must not reject a valid type-0x1e forwarded-record element": when *)
(* the parser finds one, the prefilter says that there may be one.         *)
(***************************************************************************)
Forwards == {e \in out : e.kind = "multi"}

PrefilterKeepsForwards == reader = "none" /\ Forwards # {} => maybe

(***************************************************************************)
(* It holds but for elements in the payload of a valid frame that says     *)
(* nothing, which the parser looks into and the prefilter passes over.     *)
(***************************************************************************)
ForwardsAreFound ==
  reader = "none" /\ (\E e \in Forwards : e.at \notin silent) => maybe

\* The two readers and the writer agree on where the elements are.
FramesAgree == ReadsWhatWasWritten /\ ForwardsAreFound
=============================================================================
