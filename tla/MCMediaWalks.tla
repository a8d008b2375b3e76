---------------------------- MODULE MCMediaWalks ----------------------------
(***************************************************************************)
(* Files of every format, laid out with short parts, with what a reader    *)
(* who has the whole file should know about them.                          *)
(***************************************************************************)
EXTENDS MediaWalks

Leaf(kind, lead, body, tells) ==
  [kind |-> kind, lead |-> lead, inner |-> lead, body |-> body, pad |-> 0, early |-> Nothing,
   tells |-> tells, offers |-> Nothing, size |-> "known", kids |-> <<>>]

Node(kind, lead, kids) == [Leaf(kind, lead, 0, Nothing) EXCEPT !.kids = kids]

RECURSIVE Bytes(_), Lay(_, _)
Bytes(spec) == spec.inner + spec.body + FoldSeq(LAMBDA kid, n : Bytes(kid) + kid.pad + n, 0, spec.kids)

Lay(at, specs) ==
  IF specs = <<>> THEN {}
  ELSE LET s == Head(specs)
       IN {[kind |-> s.kind, at |-> at, lead |-> s.lead, inner |-> s.inner, end |-> at + Bytes(s),
            early |-> s.early, tells |-> s.tells, offers |-> s.offers, size |-> s.size]}
          \cup Lay(at + s.inner, s.kids) \cup Lay(at + Bytes(s) + s.pad, Tail(specs))

Span(start, specs) == start + FoldSeq(LAMBDA s, n : Bytes(s) + s.pad + n, 0, specs)

RECURSIVE Starts(_, _)
Starts(at, specs) ==
  IF specs = <<>> THEN {}
  ELSE {at} \cup Starts(at + Bytes(Head(specs)) + Head(specs).pad, Tail(specs))

\* What has to be in the window: all that tells, and what comes before it.
Enough(sign, parts) == Max({sign} \cup {u.end : u \in {v \in parts : v.tells # Nothing}}
                           \cup {u.at + u.lead : u \in {v \in parts : v.early # Nothing}})

Truth(status, kind, told, tracks) == [format |-> "none", status |-> status, kind |-> kind, told |-> told, tracks |-> tracks]

\* `rest` bytes follow the parts.
File(format, sign, start, specs, rest, truth) ==
  [format |-> format, sign |-> sign, size |-> Span(start, specs) + rest, zeros |-> 0, palette |-> 0,
   dims |-> "none", tag |-> 0, syncs |-> {}, parts |-> Lay(start, specs),
   tops |-> Starts(start, specs), enough |-> Enough(sign, Lay(start, specs)),
   truth |-> [truth EXCEPT !.format = format]]


Dims == [dims |-> "4x3"]

Jpeg(between) ==
  File("jpeg", 3, 2, <<Leaf("segment", 4, 2, [jfif |-> 1])>> \o between
         \o <<Leaf("segment", 4, 4, Dims), Leaf("segment", 4, 1, [huffman |-> 1]), Leaf("SOS", 4, 2, Nothing)>>,
       6, Truth("ok", "image", [jfif |-> 1] @@ Dims @@ [huffman |-> 1], <<>>))

Restart == [Leaf("RST", 2, 0, Nothing) EXCEPT !.pad = 2]

Png(extra, trailing) ==
  File("png", 8, 8, <<Leaf("IHDR", 12, 3, Dims)>> \o extra
         \o <<Leaf("IDAT", 12, 3, Nothing), Leaf("IEND", 12, 0, Nothing)>>,
       trailing, Truth("ok", IF extra = <<>> THEN "image" ELSE "animated_image",
                       Dims @@ (IF extra = <<>> THEN Nothing ELSE [animation |-> 1]), <<>>))

GifImage == Leaf("image", 10, 5, Nothing)
\* An animation is one once the header of its second picture is there.
Gif(blocks, kind, told) ==
  [File("gif", 6, 19, blocks, 0, Truth("ok", kind, Dims @@ told, <<>>))
     EXCEPT !.palette = 6, !.dims = Dims.dims, !.enough = IF kind = "image" THEN @ ELSE 63]

Webp(chunks, kind, told) == File("webp", 12, 12, chunks, 0, Truth("ok", kind, told, <<>>))
Odd(leaf) == [leaf EXCEPT !.pad = 1]

Wav ==
  File("wav", 12, 12, <<Odd(Leaf("LIST", 8, 3, Nothing)), Leaf("fmt", 8, 4, [rate |-> 8]),
                        [Leaf("data", 8, 7, Nothing) EXCEPT !.early = [length |-> 7]]>>,
       0, Truth("ok", "audio", [rate |-> 8, length |-> 7], <<>>))

Jp2 == File("jp2", 12, 0, <<Leaf("jP", 8, 4, Nothing), Leaf("jp2h", 8, 6, Dims),
                            Leaf("jp2c", 8, 5, [order |-> 1])>>,
            0, Truth("ok", "image", Dims @@ [order |-> 1], <<>>))
J2k == File("j2k", 4, 2, <<Leaf("SIZ", 4, 4, Dims), Leaf("COD", 4, 2, [order |-> 1]),
                           Leaf("SOT", 4, 0, [order |-> 2])>>,
            3, Truth("ok", "image", Dims @@ [order |-> 1], <<>>))

Flac == File("flac", 4, 4, <<Leaf("block", 4, 5, [rate |-> 44]), Leaf("last", 4, 3, [picture |-> 1])>>,
             6, Truth("ok", "audio", [rate |-> 44, picture |-> 1], <<>>))

Sync(at, frame, length, told) == [at |-> at, end |-> at + length, frame |-> frame, tells |-> told]
Mp3 ==
  [File("mp3", 0, 0, <<>>, 40, Truth("ok", "audio", [rate |-> 44], <<>>))
     EXCEPT !.tag = 12, !.enough = 33,
            !.syncs = {Sync(12, "none", 4, Nothing)} \cup {Sync(n, "a", 5, [rate |-> 44]) : n \in {18, 23, 28, 33}}]
\* Two frames of another kind come first, and a third sync that is none.
Mp3Late ==
  [Mp3 EXCEPT !.tag = 0, !.enough = 28,
              !.syncs = {Sync(3, "b", 5, [rate |-> 8]), Sync(8, "b", 5, [rate |-> 8]),
                                    Sync(13, "a", 5, [rate |-> 44])} \cup
                                   {Sync(n, "a", 5, [rate |-> 44]) : n \in {18, 23, 28}}]
\* A FLAC with MP3 frames early on is taken for an MP3.
FlacLikeMp3 == [Flac EXCEPT !.syncs = {Sync(n, "a", 4, [rate |-> 32]) : n \in {9, 13, 17}},
                            !.enough = 21, !.truth.told = [rate |-> 32], !.truth.format = "mp3"]

Ogg  == File("ogg", 4, 0, <<Leaf("page", 27, 4, [codec |-> "opus"])>>, 3,
             Truth("ok", "audio", [codec |-> "opus"], <<>>))
Silk == File("silk", 9, 9, <<Leaf("control", 0, 1, [control |-> 1])>>, 2,
             Truth("ok", "audio", [control |-> 1], <<>>))
SvgAttr(kind, lead, body, value, short) ==
  [Leaf(kind, lead, body, value) EXCEPT !.early = short]
Svg  == File("svg", 4, 5, <<SvgAttr("width", 7, 3, [width |-> 120], [width |-> 12]), SvgAttr("height", 8, 3, [height |-> 340], [height |-> 34])>>, 4,
             Truth("ok", "image_vector", [width |-> 120, height |-> 340], <<>>))
Plain(format, sign, status, kind) == File(format, sign, 0, <<>>, sign + 3, Truth(status, kind, Nothing, <<>>))
Zeros == [Plain("other", 0, "unsupported", "unknown") EXCEPT !.size = 6, !.zeros = 4, !.enough = 5]

----------------------------------------------------------------------------
Ftyp  == Leaf("ftyp", 8, 4, [brand |-> "mp42"])
Mvhd  == Leaf("mvhd", 8, 2, [scale |-> 600, duration |-> 9])
Tkhd  == Leaf("tkhd", 8, 2, [dims |-> "4x3"])
Mdhd  == Leaf("mdhd", 8, 1, [rate |-> 30])
Hdlr(handler) == Leaf("hdlr", 8, 1, [handler |-> handler])
SampleEntry(inner, told, offered, kids) ==
  [Leaf("entry", 8, 0, told) EXCEPT !.inner = inner, !.offers = offered, !.kids = kids]
Avc   == SampleEntry(12, [codec |-> "h264"], [dims |-> "4x4"], <<Leaf("avcC", 8, 1, [profile |-> 1])>>)
Other == SampleEntry(10, [codec |-> "jpeg"], Nothing, <<Leaf("avcC", 8, 1, [profile |-> 2])>>)
Config == [Node("config", 2, <<[Leaf("specific", 2, 1, Nothing) EXCEPT !.offers = [profile |-> 3]]>>)
             EXCEPT !.inner = 4, !.tells = [codec |-> "mp3", bitrate |-> 64]]
Aac   == SampleEntry(10, [codec |-> "aac"], Nothing,
               <<[Node("esds", 8, <<[Node("ES", 2, <<Config>>) EXCEPT !.inner = 5]>>) EXCEPT !.inner = 12]>>)
Stsd(entries) == [Node("stsd", 8, entries) EXCEPT !.inner = 12]
Minf(entries) == Node("minf", 8, <<Node("stbl", 8, <<Stsd(entries), Leaf("stsz", 8, 1, [samples |-> 7])>>)>>)

VideoTrack  == Node("trak", 8, <<Tkhd, Node("mdia", 8, <<Mdhd, Hdlr("video"), Minf(<<Avc, Other>>)>>)>>)
VideoTrack2 == Node("trak", 8, <<Node("mdia", 8, <<Minf(<<Avc, Other>>), Hdlr("video"), Mdhd>>), Tkhd>>)
AudioTrack  == Node("trak", 8, <<Node("mdia", 8, <<Hdlr("audio"), Minf(<<Aac>>)>>)>>)

VideoTruth == [dims |-> "4x3", rate |-> 30, handler |-> "video", codec |-> "h264", profile |-> 1, samples |-> 7]
AudioTruth == [handler |-> "audio", codec |-> "mp3", bitrate |-> 64, profile |-> 3, samples |-> 7]
MovieTruth == [brand |-> "mp42", scale |-> 600, duration |-> 9]

Mp4(specs, status, kind, told, tracks) == File("iso", 12, 0, specs, 0, Truth(status, kind, told, tracks))
Mdat(kids, body) == [Node("mdat", 8, kids) EXCEPT !.body = body]
Decoy == Node("moov", 8, <<Leaf("mvhd", 8, 2, [scale |-> 1])>>)

Mp4s ==
  {Mp4(<<Ftyp, Node("moov", 8, <<Mvhd, VideoTrack>>), Mdat(<<>>, 9)>>, "ok", "video", MovieTruth, <<VideoTruth>>),
   Mp4(<<Ftyp, Mdat(<<>>, 9), Node("moov", 16, <<VideoTrack2, Mvhd>>)>>, "ok", "video", MovieTruth, <<VideoTruth>>),
   Mp4(<<Ftyp, Mdat(<<Leaf("x", 3, 0, Nothing), Decoy>>, 30), Node("moov", 8, <<Mvhd, AudioTrack>>)>>,
       "ok", "audio", MovieTruth, <<AudioTruth>>),
   Mp4(<<Ftyp, Mdat(<<>>, 40), Node("moov", 8, <<Mvhd>>)>>, "unsupported", "unknown", MovieTruth, <<>>),
   Mp4(<<[Ftyp EXCEPT !.tells.brand = "heic"], Leaf("meta", 8, 6, Nothing), Mdat(<<>>, 9)>>,
       "ok", "image", [brand |-> "heic"], <<>>)}

----------------------------------------------------------------------------
Scale    == Leaf("TimecodeScale", 4, 1, [scale |-> 5])
Duration == Leaf("Duration", 3, 4, [duration |-> 9])
DocType  == Node("EBML", 5, <<Leaf("DocType", 3, 4, [doctype |-> "webm"])>>)
Tracks(kids) ==
  Node("Tracks", 5, <<Node("TrackEntry", 2, <<Leaf("TrackType", 2, 1, [handler |-> "video"]),
                                              Node("Video", 2, kids)>>)>>)
Width    == Leaf("PixelWidth", 2, 1, [width |-> 4])
Mkv(segment, told, tracks) ==
  LET file == File("mkv", 4, 0, <<DocType, segment>>, 0,
                   Truth(IF tracks = <<>> THEN "partial" ELSE "ok", IF tracks = <<>> THEN "unknown" ELSE "video",
                         [doctype |-> "webm"] @@ told, tracks))
  IN [file EXCEPT !.enough = file.size]
Segment(info, tracks) == Node("Segment", 5, <<Node("Info", 5, info), tracks, Leaf("Cluster", 5, 8, Nothing)>>)
MkvTrack == [handler |-> "video", width |-> 4]

Mkvs ==
  {Mkv(Segment(<<Scale, Duration>>, Tracks(<<Width>>)), [scale |-> 5, duration |-> <<9, 5>>], <<MkvTrack>>),
   Mkv(Segment(<<Duration, Scale>>, Tracks(<<Width>>)), [scale |-> 5, duration |-> <<9, 1>>], <<MkvTrack>>),
   Mkv(Segment(<<Scale>>, Tracks(<<Node("Video", 2, <<Width>>)>>)), [scale |-> 5], <<[handler |-> "video"]>>),
   Mkv([Segment(<<Scale>>, Tracks(<<Width>>)) EXCEPT !.size = "unknown"], Nothing, <<>>),
   Mkv([Segment(<<Scale>>, Tracks(<<Width>>)) EXCEPT !.size = "wide", !.lead = 12, !.inner = 12], Nothing, <<>>)}

----------------------------------------------------------------------------
MCSamples ==
  {Jpeg(<<>>), Jpeg(<<Restart>>), Png(<<>>, 0), Png(<<Leaf("acTL", 12, 1, [animation |-> 1])>>, 5),
   Gif(<<Leaf("control", 8, 0, [alpha |-> 1]), GifImage, Leaf("trailer", 1, 0, Nothing)>>, "image", [alpha |-> 1]),
   Gif(<<Leaf("extension", 14, 5, [loop |-> 1]), GifImage, GifImage, Leaf("trailer", 1, 0, Nothing)>>,
       "animated_image", [loop |-> 1]),
   [Gif(<<GifImage, Leaf("junk", 1, 4, Nothing)>>, "image", Nothing) EXCEPT !.truth.status = "partial", !.enough = 39],
   Webp(<<Leaf("VP8", 8, 6, Dims)>>, "image", Dims),
   Webp(<<Leaf("VP8X", 8, 4, Dims), Odd(Leaf("ICCP", 8, 3, Nothing)), Leaf("ANIM", 8, 2, [animation |-> 1])>>,
        "animated_image", Dims @@ [animation |-> 1]),
   Wav, Jp2, J2k, Flac, FlacLikeMp3, Mp3, Mp3Late, Ogg, Silk, Svg, Zeros,
   Plain("jxl", 12, "ok", "image"), Plain("avi", 12, "partial", "video"),
   Plain("riff", 12, "unsupported", "unknown"), Plain("pdf", 5, "ok", "document"),
   Plain("xml", 5, "ok", "document"), Plain("other", 1, "unsupported", "unknown")}
  \cup Mp4s \cup Mkvs
=============================================================================
