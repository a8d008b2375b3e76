----------------------------- MODULE MediaWalks -----------------------------
(***************************************************************************)
(* media_info.rs: what the parsers make of the first bytes of a file.  A   *)
(* probe reads a window from the start; of an MP4 whose index is not in    *)
(* it, the end of the file as well.  parse_media_with_tail picks a parser  *)
(* by the signature, and each parser walks over the parts of its format    *)
(* until the data, or the format, ends.                                    *)
(*                                                                         *)
(* A file is a set of parts laid out in bytes from `at` to `end`, with     *)
(* `lead` bytes of header; the parts inside one begin at `inner`.  A part  *)
(* that is read tells facts (a function from a name to a value), or offers *)
(* them where nothing was told yet; its header tells `early` ones.  A      *)
(* position without a part holds bytes that look like the header of one    *)
(* too long for the file.                                                  *)
(***************************************************************************)
EXTENDS Integers, Sequences, FiniteSets, SequencesExt, FiniteSetsExt, TLC

CONSTANTS
  Samples,        \* files
  TailBytes,      \* mp4_tail_read_bytes
  MaxProbe,       \* MAX_PROBE_READ_BYTES
  SyncBytes, SyncCandidates,      \* MAX_MP3_SYNC_SEARCH_BYTES, _CANDIDATES
  MinFrames, MaxFrames,           \* frames of an MP3 that have to agree
  EbmlDepth,      \* the deepest range that parse_ebml_range walks
  SvgBytes        \* how much of an SVG is searched for its size

ASSUME WalksAssumption ==
  /\ {TailBytes, MaxProbe, SyncBytes, SyncCandidates, EbmlDepth, SvgBytes} \subseteq Nat \ {0}
  /\ MinFrames \in 1..MaxFrames

VARIABLES
  sample,  \* the file
  sight,   \* what was read of it: the length, whether there is more, the tail
  parse    \* the parser: its format, position and findings

walksVars == <<sample, sight, parse>>

Nothing == <<>>
NoTail  == -1

NoParse == [format |-> "none", pos |-> 0, told |-> Nothing, frames |-> 0, partial |-> FALSE,
            cut |-> FALSE, stack |-> <<>>, tracks |-> <<>>, inTail |-> FALSE, scan |-> 0,
            movies |-> <<>>, over |-> FALSE, panics |-> FALSE]

\* The facts of a part, over the earlier ones and under them.
Put(told, u) == u.tells @@ told @@ u.offers

Junk(pos) == [kind |-> "junk", at |-> pos, lead |-> 8, inner |-> 8, end |-> sample.size + 1,
              early |-> Nothing, tells |-> Nothing, offers |-> Nothing, size |-> "known"]

PartAt(pos) ==
  LET there == {u \in sample.parts : u.at = pos}
  IN IF there = {} THEN Junk(pos) ELSE CHOOSE u \in there : TRUE

Here     == PartAt(parse.pos)
Within(n) == parse.pos + n <= sight.len
Whole(u)  == u.end <= sight.len

----------------------------------------------------------------------------
(* Reading the file.  A damaged file ends early, and is read to its end.   *)
WalksInit ==
  /\ sample \in Samples
  /\ \E len \in 1..sample.size, more \in BOOLEAN :
       /\ len = sample.size => ~more
       /\ sight = [len |-> len, more |-> more, tail |-> NoTail]
  /\ parse = NoParse

FileSize == IF sight.more THEN sample.size ELSE sight.len

\* read_box: the header and the box have to lie within the range and the data.
BoxFits(u, limit, dataEnd) ==
  /\ u.at + u.lead <= limit /\ u.at + u.lead <= dataEnd
  /\ u.end <= limit /\ u.end <= dataEnd

IsIso == sample.format = "iso" /\ BoxFits(PartAt(0), sight.len, sight.len)

\* has_complete_top_level_box of "moov": the boxes before it have to be whole too.
CompleteMoov ==
  \E u \in sample.parts :
    u.kind = "moov" /\ u.at \in sample.tops /\ BoxFits(u, sight.len, sight.len)

TailLen == Min({TailBytes, FileSize, MaxProbe - sight.len})

WantsTail ==
  sight.tail = NoTail /\ IsIso /\ ~CompleteMoov /\ sight.more /\ sight.len < MaxProbe

\* mp4_tail_read_plan: the tail joins the head, or stays apart.
ReadTail ==
  /\ parse.format = "none" /\ WantsTail
  /\ LET offset == FileSize - TailLen
     IN sight' = IF offset <= sight.len
                 THEN [sight EXCEPT !.len = FileSize, !.more = FALSE]
                 ELSE [sight EXCEPT !.tail = offset]
  /\ UNCHANGED <<sample, parse>>

----------------------------------------------------------------------------
(* MP3: the frames that follow a place that looks like one.                *)
Tag == IF sight.len >= 10 THEN sample.tag ELSE 0

SyncFrom == Min({Tag, sight.len})
SyncEnd  == Min({sight.len, SyncFrom + SyncBytes})

Syncs == {u \in sample.syncs : SyncFrom <= u.at /\ u.at + 4 <= SyncEnd}

SyncAt(pos) == {u \in sample.syncs : u.at = pos}

\* Frames of one kind from `first` on, all of them whole, at most MaxFrames.
Chain(first) ==
  LET at[n \in 0..MaxFrames] ==
        IF n = 0 THEN first.at
        ELSE IF at[n - 1] = NoTail THEN NoTail
        ELSE LET frames == {u \in SyncAt(at[n - 1]) : u.frame = first.frame /\ Whole(u)}
             IN IF frames = {} THEN NoTail ELSE (CHOOSE u \in frames : TRUE).end
  IN Max({n \in 0..MaxFrames : at[n] # NoTail})

\* Bug: two frames that agree are enough.
TwoFrames(first) == first.frame # "none" /\ Chain(first) + 1 >= MinFrames

Agreeing(first) == first.frame # "none" /\ Chain(first) >= MinFrames

\* find_mp3_probe: the first places that look like a frame are tried.
Tried == {u \in Syncs : Cardinality({v \in Syncs : v.at <= u.at}) <= SyncCandidates}

IsMp3 == \E u \in Tried : Agreeing(u)

\* The first of them, with the facts of its header.
Mp3First == CHOOSE u \in Tried : Agreeing(u) /\ \A v \in Tried : Agreeing(v) => u.at <= v.at

----------------------------------------------------------------------------
(* parse_media_with_tail: which parser.                                    *)
Signed(formats) == sample.format \in formats /\ sample.sign <= sight.len

FormatSeen ==
  IF sight.len <= sample.zeros THEN "zeros"
  ELSE IF Signed({"jpeg", "png", "gif", "webp", "jp2", "j2k", "jxl", "wav", "avi", "riff"}) \/ IsIso
  THEN sample.format
  ELSE IF IsMp3 THEN "mp3"
  ELSE IF Signed({"flac", "ogg", "mkv", "silk", "pdf", "svg", "xml"}) THEN sample.format
  ELSE "other"

Start(format) ==
  CASE format = "jpeg" -> 2
    [] format = "png" -> 8
    [] format = "gif" -> 13 + sample.palette
    [] format \in {"webp", "wav"} -> 12
    [] format = "j2k" -> 2
    [] format = "flac" -> 4
    [] OTHER -> 0

Walked == {"jpeg", "png", "gif", "webp", "jp2", "j2k", "wav", "flac", "iso", "mkv"}

\* An attribute of an SVG counts from its first digit on, cut or not.
SvgEnd == Min({sight.len, SvgBytes})

SvgFacts ==
  LET attrs == {u \in sample.parts : u.at + u.lead < SvgEnd}
      attr(kind) == CHOOSE u \in attrs : u.kind = kind
  IN [kind \in {u.kind : u \in attrs} |->
        (IF attr(kind).end <= SvgEnd THEN attr(kind).tells ELSE attr(kind).early)[kind]]

\* The formats without a walk: parse_ogg looks at the first page, parse_silk
\* at the byte after the signature.
Glance(format) ==
  CASE format = "mp3" -> Mp3First.tells
    [] format = "svg" -> SvgFacts
    [] format = "ogg" /\ Whole(PartAt(0)) -> PartAt(0).tells
    [] format = "silk" /\ Whole(PartAt(sample.sign)) -> PartAt(sample.sign).tells
    [] format = "gif" /\ sight.len >= 10 -> [dims |-> sample.dims]
    [] OTHER -> Nothing

Recognise ==
  /\ parse.format = "none" /\ ~WantsTail
  /\ LET format == FormatSeen
     IN parse' = [parse EXCEPT !.format = format, !.pos = Start(format),
                               !.told = Glance(format), !.over = format \notin Walked]
  /\ UNCHANGED <<sample, sight>>

----------------------------------------------------------------------------
(* The loops of the parsers.                                               *)
Parsing(format) == parse.format = format /\ ~parse.over

Becomes(next) == parse' = next /\ UNCHANGED <<sample, sight>>

Over      == Becomes([parse EXCEPT !.over = TRUE])
Cut       == Becomes([parse EXCEPT !.over = TRUE, !.partial = TRUE, !.cut = TRUE])
MoveTo(p) == Becomes([parse EXCEPT !.pos = p])
Take(u)   == Becomes([parse EXCEPT !.pos = u.end, !.told = Put(@, u)])

\* parse_jpeg_with_file_size: bytes between segments are passed over.
JpegSegment ==
  /\ Parsing("jpeg")
  /\ \/ ~Within(2) /\ Over
     \/ /\ Within(2) /\ Here.kind = "junk"
        /\ LET later == {u.at : u \in {v \in sample.parts : v.at > parse.pos}}
           IN MoveTo(Min(later \cup {sight.len}))
     \/ Within(2) /\ Here.kind \in {"EOI", "SOS"} /\ Over
     \/ Within(2) /\ Here.kind = "RST" /\ MoveTo(parse.pos + 2)
     \/ Within(2) /\ Here.kind = "segment" /\ (IF Whole(Here) THEN Take(Here) ELSE Cut)

\* parse_png_with_file_size: fewer bytes than a chunk takes are a cut one.
PngChunk ==
  /\ Parsing("png")
  /\ \/ ~Within(12) /\ (IF Within(1) THEN Cut ELSE Over)
     \/ Within(12) /\ ~Whole(Here) /\ Cut
     \/ Within(12) /\ Whole(Here) /\ Here.kind = "IEND" /\ Over
     \/ Within(12) /\ Whole(Here) /\ Here.kind # "IEND" /\ Take(Here)

\* parse_gif_with_file_size: an unknown block is no fault of the window.
GifBlock ==
  /\ Parsing("gif")
  /\ \/ ~Within(1) /\ Over
     \/ /\ Within(1) /\ Here.kind = "image"
        /\ LET counted == [parse EXCEPT !.frames = IF Within(10) THEN @ + 1 ELSE @]
           IN IF Whole(Here) THEN Becomes([counted EXCEPT !.pos = Here.end])
              ELSE Becomes([counted EXCEPT !.over = TRUE, !.partial = TRUE, !.cut = TRUE])
     \/ Within(1) /\ Here.kind = "control" /\ (IF Within(7) THEN Take(Here) ELSE Cut)
     \/ Within(1) /\ Here.kind = "extension" /\ (IF Whole(Here) THEN Take(Here) ELSE Cut)
     \/ Within(1) /\ Here.kind = "trailer" /\ Over
     \/ Within(1) /\ Here.kind = "junk" /\ Becomes([parse EXCEPT !.over = TRUE, !.partial = TRUE])

\* Chunks are padded to an even length; the padding need not be there.
\* Bug: the padding is forgotten.
Unpadded(u) == u.end

Padded(u) == u.end + ((u.end - u.at) % 2)

\* parse_webp_with_file_size.
WebpChunk ==
  /\ Parsing("webp")
  /\ \/ ~Within(8) /\ (IF Within(1) THEN Cut ELSE Over)
     \/ Within(8) /\ ~Whole(Here) /\ Cut
     \/ /\ Within(8) /\ Whole(Here)
        /\ Becomes([parse EXCEPT !.pos = Padded(Here), !.told = Put(@, Here)])

\* parse_wav: the length of the samples is in the header of their chunk.
WavChunk ==
  /\ Parsing("wav")
  /\ \/ ~Within(8) /\ Over
     \/ /\ Within(8)
        /\ LET headed == Here.early @@ parse.told
           IN IF Whole(Here)
              THEN Becomes([parse EXCEPT !.pos = Padded(Here), !.told = Here.tells @@ headed])
              ELSE Becomes([parse EXCEPT !.told = headed, !.over = TRUE, !.partial = TRUE,
                                         !.cut = TRUE])

\* parse_jpeg2000: a box or segment that is not whole ends the walk in silence.
Jp2Box ==
  /\ Parsing("jp2")
  /\ IF BoxFits(Here, sight.len, sight.len) THEN Take(Here) ELSE Over

J2kSegment ==
  /\ Parsing("j2k")
  /\ IF Within(4) /\ Whole(Here) /\ Here.kind # "SOT" THEN Take(Here) ELSE Over

\* parse_flac: the last block says so.
FlacBlock ==
  /\ Parsing("flac")
  /\ \/ ~Within(4) /\ Over
     \/ Within(4) /\ ~Whole(Here) /\ Cut
     \/ Within(4) /\ Whole(Here) /\ Here.kind # "last" /\ Take(Here)
     \/ /\ Within(4) /\ Whole(Here) /\ Here.kind = "last"
        /\ Becomes([parse EXCEPT !.told = Put(@, Here), !.over = TRUE])

----------------------------------------------------------------------------
(* Parts within parts: the functions that walk them call each other, and   *)
(* the stack holds the calls.  What is read inside a track is the track's. *)
DataEnd == IF parse.inTail THEN sample.size ELSE sight.len
Limit   == IF parse.stack = <<>> THEN DataEnd ELSE Last(parse.stack).end
Level   == IF parse.stack = <<>> THEN "top" ELSE Last(parse.stack).kind

Track   == {"trak", "TrackEntry"}
InTrack == \E i \in DOMAIN parse.stack : parse.stack[i].kind \in Track

Learn(p, u) ==
  IF InTrack THEN [p EXCEPT !.tracks[Len(p.tracks)] = Put(@, u)]
  ELSE IF p.inTail THEN [p EXCEPT !.movies[Len(p.movies)] = Put(@, u)]
  ELSE [p EXCEPT !.told = Put(@, u)]

Opened(p, u) ==
  [p EXCEPT !.tracks = IF u.kind \in Track /\ ~InTrack THEN Append(@, Nothing) ELSE @]

Enter(p, u) ==
  LET call == [kind |-> u.kind, start |-> u.at + u.inner, end |-> u.end]
  IN Becomes([Opened(p, u) EXCEPT !.pos = call.start, !.stack = Append(@, call)])

Leave == Becomes([parse EXCEPT !.pos = Last(parse.stack).end, !.stack = Front(@)])

\* What each function of the ISO parser looks into, and what it reads.
Containers ==
  [top |-> {"moov"}, moov |-> {"trak"}, trak |-> {"mdia"}, mdia |-> {"minf"}, minf |-> {"stbl"},
   stbl |-> {"stsd"}, stsd |-> {"entry"}, entry |-> {"esds"},
   esds |-> {"ES", "config"}, ES |-> {"ES", "config"}, config |-> {"ES", "config"}]

Leaves ==
  [top |-> {"ftyp"}, moov |-> {"mvhd"}, trak |-> {"tkhd"}, mdia |-> {"mdhd", "hdlr"}, minf |-> {},
   stbl |-> {"stts", "stsz"}, stsd |-> {}, entry |-> {"avcC", "colr"},
   esds |-> {"specific"}, ES |-> {"specific"}, config |-> {"specific"}]

\* Only the first sample entry describes the track.
Enters(u) ==
  /\ u.kind \in Containers[Level]
  /\ u.kind = "entry" => u.at = Last(parse.stack).start

\* parse_iso_bmff_with_tail, parse_moov, parse_trak, parse_mdia, parse_minf,
\* parse_stbl, parse_stsd, parse_sample_entry and parse_es_descriptors; with no tracks in the head
\* the tail is searched.
IsoBox ==
  /\ Parsing("iso") /\ (parse.inTail => parse.stack # <<>>)
  /\ \/ /\ BoxFits(Here, Limit, DataEnd) /\ Enters(Here)
        /\ Enter(IF Here.kind \in {"entry", "config"} THEN Learn(parse, Here) ELSE parse, Here)
     \/ /\ BoxFits(Here, Limit, DataEnd) /\ ~Enters(Here)
        /\ LET read == IF Here.kind \in Leaves[Level] THEN Learn(parse, Here) ELSE parse
           IN Becomes([read EXCEPT !.pos = Here.end])
     \/ ~BoxFits(Here, Limit, DataEnd) /\ parse.stack # <<>> /\ Leave
     \/ /\ ~BoxFits(Here, Limit, DataEnd) /\ parse.stack = <<>>
        /\ IF parse.tracks = <<>> /\ sight.tail # NoTail
           THEN Becomes([parse EXCEPT !.inTail = TRUE, !.scan = sight.tail])
           ELSE Over

\* Bug: the first "moov" of the tail is taken, with tracks or without.
FirstMoov == parse.movies # <<>>

MoovFound == parse.tracks # <<>>

\* parse_moov_from_tail looks for the type at every byte of the tail.
NextMoov ==
  /\ Parsing("iso") /\ parse.inTail /\ parse.stack = <<>>
  /\ LET moovs == {u \in sample.parts : /\ u.kind = "moov" /\ u.at >= parse.scan
                                        /\ u.at + 8 < sample.size
                                        /\ BoxFits(u, sample.size, sample.size)}
         next  == CHOOSE u \in moovs : \A v \in moovs : u.at <= v.at
         movie == IF parse.movies = <<>> THEN Nothing
                  ELSE IF MoovFound THEN Last(parse.movies) ELSE Head(parse.movies)
     IN IF MoovFound \/ moovs = {}
        THEN Becomes([parse EXCEPT !.told = movie @@ @, !.over = TRUE])
        ELSE Enter([parse EXCEPT !.scan = next.at + 1, !.movies = Append(@, Nothing)], next)

----------------------------------------------------------------------------
(* Matroska: parse_ebml_range and, in a track, parse_ebml_track.           *)
Masters == {"EBML", "Segment", "Info", "Tracks", "TrackEntry", "Video", "Audio"}

\* Bug: an element that reaches beyond its parent is read.
ReadsOn(u) == u.at + u.lead <= sight.len /\ u.size = "known" /\ u.end <= sight.len

\* read_ebml_elem: an unknown size ends the range.  So does one of eight bytes
\* where overflow is not checked: `0xffu8 >> 8` leaves the marker in the size.
Readable(u) ==
  u.at + u.lead <= sight.len /\ u.size = "known" /\ u.end <= sight.len /\ u.end <= Limit

\* The scale of a duration is the one that was read before it.
Scaled(u) ==
  IF u.kind # "Duration" THEN u
  ELSE [u EXCEPT !.tells =
          [duration |-> <<@.duration, IF "scale" \in DOMAIN parse.told THEN parse.told.scale
                                      ELSE 1>>]]

EbmlElement ==
  /\ Parsing("mkv")
  /\ \/ /\ Readable(Here) /\ Here.kind \in Masters /\ Len(parse.stack) < EbmlDepth
        /\ Enter(parse, Here)
     \/ /\ Readable(Here) /\ ~(Here.kind \in Masters /\ Len(parse.stack) < EbmlDepth)
        /\ Becomes([Opened(Learn(parse, Scaled(Here)), Here) EXCEPT !.pos = Here.end])
     \/ ~Readable(Here) /\ parse.stack # <<>> /\ Leave
     \/ ~Readable(Here) /\ parse.stack = <<>> /\ Over

\* Where overflow is checked, that shift is a panic.
EbmlPanics ==
  /\ Parsing("mkv") /\ Here.size = "wide" /\ Here.at + Here.lead <= sight.len
  /\ Becomes([parse EXCEPT !.over = TRUE, !.panics = TRUE])

----------------------------------------------------------------------------
(* What the parsers report.                                                *)
Told(key) == key \in DOMAIN parse.told

\* probe_truncated: only the window is short, and the header is known.
Excused(key) == parse.cut /\ sight.more /\ Told(key)

TracksOf(handler) == {i \in DOMAIN parse.tracks :
                        "handler" \in DOMAIN parse.tracks[i] /\ parse.tracks[i].handler = handler}

StillBrand == Told("brand") /\ parse.told.brand \in {"avif", "heic", "heif"}
MediaKind ==
  CASE parse.format = "gif" -> IF parse.frames > 1 THEN "animated_image" ELSE "image"
    [] parse.format \in {"png", "webp"} -> IF Told("animation") THEN "animated_image" ELSE "image"
    [] parse.format \in {"jpeg", "jp2", "j2k", "jxl"} -> "image"
    [] parse.format = "svg" -> "image_vector"
    [] parse.format = "iso" /\ StillBrand -> "image"
    [] parse.format = "mkv" \/ (parse.format = "iso" /\ ~StillBrand) ->
         IF TracksOf("video") # {} THEN "video"
         ELSE IF TracksOf("audio") # {} THEN "audio" ELSE "unknown"
    [] parse.format \in {"wav", "mp3", "flac", "ogg", "silk"} -> "audio"
    [] parse.format = "avi" -> "video"
    [] parse.format \in {"pdf", "xml"} -> "document"
    [] OTHER -> "unknown"

IsPartial ==
  CASE parse.format \in {"jpeg", "gif", "webp"} -> parse.partial /\ ~Excused("dims")
    [] parse.format = "png" -> (parse.partial \/ ~Told("dims")) /\ ~Excused("dims")
    [] parse.format = "wav" -> parse.partial /\ ~Excused("rate")
    [] parse.format = "flac" -> parse.partial
    [] parse.format = "mkv" -> MediaKind = "unknown"
    [] parse.format = "iso" -> sight.more /\ parse.tracks = <<>>
    [] OTHER -> parse.format = "avi"

ScanStatus ==
  IF IsPartial THEN "partial"
  ELSE IF parse.format \in {"zeros", "riff", "other"} \/ (parse.format = "iso" /\ MediaKind = "unknown")
  THEN "unsupported" ELSE "ok"

----------------------------------------------------------------------------
WalksNext ==
  \/ ReadTail \/ Recognise \/ JpegSegment \/ PngChunk \/ GifBlock \/ WebpChunk \/ WavChunk
  \/ Jp2Box \/ J2kSegment \/ FlacBlock \/ IsoBox \/ NextMoov \/ EbmlElement \/ EbmlPanics

WalksSpec == WalksInit /\ [][WalksNext]_walksVars

----------------------------------------------------------------------------
(* Properties.  `truth` is what a reader of the whole file would report,   *)
(* `enough` how much of it holds all that this takes.                      *)
Report == [format |-> parse.format, status |-> ScanStatus, kind |-> MediaKind,
           told |-> parse.told, tracks |-> parse.tracks]

Done       == parse.over /\ ~parse.panics
Recognised == parse.format = sample.truth.format

\* A whole file gets the report it deserves, in whatever order its parts come.
WholeAccepted == Done /\ sight.len = sample.size => Report = sample.truth

\* A window that holds the headers, or a tail that holds the movie, is as good
\* as the whole file.
MovieInTail ==
  /\ sight.tail # NoTail /\ sample.truth.tracks # <<>>
  /\ \E u \in sample.parts : u.kind = "moov" /\ u.at \in sample.tops /\ u.at >= sight.tail

HeadersSuffice ==
  Done /\ sight.more /\ (sight.len >= sample.enough \/ MovieInTail) => Report = sample.truth

\* Less of a file never says anything else than all of it, but for an SVG whose
\* size is cut in the middle of a number.
Agrees(f, g) == \A k \in DOMAIN f : k \in DOMAIN g /\ f[k] = g[k]

HeadHonest ==
  Done /\ Recognised /\ parse.format # "svg" =>
    /\ Agrees(parse.told, sample.truth.told)
    /\ parse.tracks \in {<<>>, sample.truth.tracks}

\* A file that was damaged before its headers end passes for sound only if it
\* ends between two parts, or its format does not say how long it is.
Silent   == {"jp2", "j2k", "jxl", "mp3", "ogg", "silk", "svg", "pdf", "xml"}
Shortest == [jpeg |-> 2, png |-> 1, gif |-> 1, webp |-> 1, wav |-> 8, flac |-> 4]

DamageSeen ==
  /\ Done /\ Recognised /\ ~sight.more /\ sight.len < sample.enough
  /\ ScanStatus = "ok" /\ parse.format \notin Silent
  => /\ parse.format \in DOMAIN Shortest
     /\ parse.pos + Shortest[parse.format] > sight.len

(***************************************************************************)
(* What is reported of a file does not depend on where the window or the   *)
(* file happens to end: the headers are enough, nothing is reported that   *)
(* the whole file would not confirm, and a part that is cut is noticed     *)
(* (the loops of parse_jpeg_with_file_size to parse_matroska, the tail of  *)
(* parse_iso_bmff_with_tail, find_mp3_probe).                              *)
(***************************************************************************)
WalksSound == WholeAccepted /\ HeadersSuffice /\ HeadHonest /\ DamageSeen
=============================================================================
