----------------------------- MODULE VideoExtract -----------------------------
(***************************************************************************)
(* UnpackOmv.h: a video of the game is an Ogg file behind a header.  It is *)
(* copied as it is (ExtractOmvTypeUnk) or decoded to a sequence of         *)
(* pictures (OmvToPng_Normal; OmvToPng_Fixed and Omv2Avi.cpp have the same *)
(* loops).  libogg cuts the bytes into pages (ogg_sync) and the pages of    *)
(* the Theora stream into packets (ogg_stream); both report a gap once,    *)
(* by a negative result, and go on after it when they are called again.    *)
(*                                                                         *)
(* The file is a sequence of units, each a part of a page.  NtFileDisk's   *)
(* Read fails at the end of the file and then leaves the count alone that  *)
(* its caller has not initialised.                                         *)
(***************************************************************************)
EXTENDS Integers, Sequences, SequencesExt

CONSTANTS Chunk,     \* 4096, what is read at a time
          PageSizes, \* the units of a page
          MaxPages   \* bound: the pages behind the headers

VideoAssumption ==
  /\ Chunk \in Nat \ {0} /\ PageSizes \subseteq Nat \ {0} /\ MaxPages \in Nat

(* A page: whether it begins a stream, whether that is the Theora stream, and
   its packets: a header, one that the decoder refuses, or a frame by its number.
   A damaged page is no page to libogg. *)
Header == 0
Refused == -1
Hole   == -2   \* in place of a packet: libogg reports a gap

Page(bos, theora, packets) == [bos |-> bos, theora |-> theora, packets |-> packets, damaged |-> FALSE]
Damaged == [bos |-> FALSE, theora |-> TRUE, packets |-> <<>>, damaged |-> TRUE]

Heads == {<<Page(TRUE, TRUE, <<Header>>)>>,
          <<Page(TRUE, TRUE, <<Header>>), Page(TRUE, FALSE, <<>>)>>,
          <<Page(TRUE, FALSE, <<>>)>>}
Setup == Page(FALSE, TRUE, <<Header, Header>>)

(* The pages behind the headers by the frames they hold; the packet of a frame
   may be refused. *)
PageKinds == {"one", "two", "bad", "other", "damaged"}
Frames(kind) == CASE kind = "one" -> 1 [] kind = "two" -> 2 [] kind = "bad" -> 2
                  [] kind \in {"other", "damaged"} -> 0
FramesBefore(kinds) ==
  LET before[k \in 1 .. Len(kinds) + 1] ==
        IF k = 1 THEN 0 ELSE before[k - 1] + Frames(kinds[k - 1])
  IN  before
KindPage(kind, n) ==
  CASE kind = "one" -> Page(FALSE, TRUE, <<n + 1>>)
    [] kind = "two" -> Page(FALSE, TRUE, <<n + 1, n + 2>>)
    [] kind = "bad" -> Page(FALSE, TRUE, <<Refused, n + 2>>)
    [] kind = "other" -> Page(FALSE, FALSE, <<>>)
    [] kind = "damaged" -> Damaged
Body(kinds) == [k \in DOMAIN kinds |-> KindPage(kinds[k], FramesBefore(kinds)[k])]

VARIABLES
  OGVFlag,   \* "decode" (copy the video) or "png"
  pages,     \* the video
  pagesize,  \* the units of each page
  filesize,  \* the units the file has of it
  position,  \* m_Position of the file
  sync,      \* the units in the synchronisation layer (oy)
  unsynced,  \* it has reported the gap it is in
  to,        \* the packets in the Theora stream, and Hole for a gap
  lastpage,  \* the page that came into it last
  theora_p,  \* 0 or the headers found so far
  vphase,
  videobuf_ready, frames,
  video      \* the output: units copied, or <<name, frame>> of each picture

film  == <<OGVFlag, pages, pagesize, filesize>>
ogg   == <<sync, unsynced, to, lastpage>>
vvars == <<film, position, ogg, theora_p, vphase, videobuf_ready, frames, video>>

Unit(p, k) == <<p, k>>
Stale == <<0, 1>>
Whole == Len(pages) * pagesize
Content(first, n) == [k \in 1 .. n |-> LET u == first + k - 1
                                        IN  Unit(1 + (u \div pagesize), 1 + (u % pagesize))]

Init ==
  /\ OGVFlag \in {"decode", "png"}
  /\ \E head \in Heads, n \in 0 .. MaxPages : \E kinds \in [1 .. n -> PageKinds] :
       pages = head \o <<Setup>> \o Body(kinds)
  /\ pagesize \in PageSizes
  /\ filesize \in {1, pagesize, 2 * pagesize, Whole - 1, Whole}
  /\ position = 0 /\ sync = <<>> /\ unsynced = FALSE /\ to = <<>> /\ lastpage = 0
  /\ theora_p = 0 /\ vphase = IF OGVFlag = "decode" THEN "copy" ELSE "bos"
  /\ videobuf_ready = FALSE /\ frames = 0 /\ video = <<>>

-----------------------------------------------------------------------------
(* ExtractOmvTypeUnk. *)

Least(a, b) == IF a < b THEN a ELSE b

(* Mutant: the rest of the file is taken for a chunk. *)
NeedChunk == Chunk

NeedRead == Least(Chunk, filesize - position)

(* Before the loop the output file is made, or the copy is given up. *)
RefuseCopy ==
  /\ vphase = "copy" /\ position = 0
  /\ vphase' = "refused"
  /\ UNCHANGED <<film, position, ogg, theora_p, videobuf_ready, frames, video>>

Copy ==
  /\ vphase = "copy"
  /\ IF position < filesize
     THEN /\ video' = video \o Content(position, NeedRead)
          /\ position' = position + NeedRead
          /\ UNCHANGED vphase
     ELSE vphase' = "done" /\ UNCHANGED <<position, video>>
  /\ UNCHANGED <<film, ogg, theora_p, videobuf_ready, frames>>

-----------------------------------------------------------------------------
(* libogg. *)

(* A page starts at k and what is there does not contradict it. *)
Starts(k) ==
  /\ sync[k][1] > 0 /\ sync[k][2] = 1 /\ ~pages[sync[k][1]].damaged
  /\ \A j \in 1 .. pagesize - 1 : k + j <= Len(sync) => sync[k + j] = Unit(sync[k][1], j + 1)

(* ogg_sync_pageout: "page", "gap" (bytes were skipped; said once) or "none". *)
PageOut ==
  LET starts == {k \in DOMAIN sync : Starts(k)}
      k      == IF starts = {} THEN Len(sync) + 1
                ELSE CHOOSE n \in starts : \A m \in starts : n <= m
      whole  == k + pagesize - 1 <= Len(sync)
  IN  IF k > 1 /\ ~unsynced THEN [result |-> "gap", page |-> 0, rest |-> SubSeq(sync, k, Len(sync))]
      ELSE IF whole THEN [result |-> "page", page |-> sync[k][1],
                          rest |-> SubSeq(sync, k + pagesize, Len(sync))]
      ELSE [result |-> "none", page |-> 0, rest |-> SubSeq(sync, k, Len(sync))]

NowUnsynced == PageOut.result = "gap" \/ (unsynced /\ PageOut.result = "none")

TakePage == sync' = PageOut.rest /\ unsynced' = NowUnsynced

(* ogg_stream_pagein of queue_page: a page of another stream is refused, a gap
   in the page numbers of the stream is marked. *)
Missing(p) == lastpage > 0 /\ \E n \in lastpage + 1 .. p - 1 : pages[n].theora

queue_page(p) ==
  IF theora_p > 0 /\ pages[p].theora
  THEN /\ to' = to \o (IF Missing(p) THEN <<Hole>> ELSE <<>>) \o pages[p].packets
       /\ lastpage' = p
  ELSE UNCHANGED <<to, lastpage>>

(* The rest of an inner loop over pages: one page. *)
NextPage == PageOut.result = "page" /\ TakePage /\ queue_page(PageOut.page)
NoPage   == PageOut.result # "page" /\ TakePage /\ UNCHANGED <<to, lastpage>>

(* buffer_data, with ret its result, behind the bytes that are buffered: at the end of the file Read fails and the
   count is what the stack holds. *)
buffer_data(buffered, ret) ==
  /\ IF position < filesize
     THEN /\ ret = Least(Chunk, filesize - position)
          /\ sync' = buffered \o Content(position, ret)
          /\ position' = position + ret
     ELSE /\ ret \in 0 .. Chunk
          /\ sync' = buffered \o [k \in 1 .. ret |-> Stale]
          /\ UNCHANGED position
  /\ UNCHANGED <<to, lastpage>>

-----------------------------------------------------------------------------
(* OmvToPng_Normal: the headers. *)

BosRead ==
  /\ vphase = "bos"
  /\ \E ret \in 0 .. Chunk :
       buffer_data(sync, ret) /\ vphase' = IF ret = 0 THEN "headers" ELSE "bospages"
  /\ UNCHANGED <<film, unsynced, theora_p, videobuf_ready, frames, video>>

(* The first page of the Theora stream gives its header; the first page that
   begins no stream ends the search. *)
BosPage ==
  /\ vphase = "bospages"
  /\ \/ /\ PageOut.result = "page" /\ pages[PageOut.page].bos
        /\ TakePage
        /\ IF pages[PageOut.page].theora
           THEN theora_p' = 1 /\ lastpage' = PageOut.page
           ELSE UNCHANGED <<theora_p, lastpage>>
        /\ UNCHANGED <<to, vphase>>
     \/ /\ PageOut.result = "page" /\ ~pages[PageOut.page].bos
        /\ NextPage /\ vphase' = "headers" /\ UNCHANGED theora_p
     \/ NoPage /\ vphase' = "bos" /\ UNCHANGED theora_p
  /\ UNCHANGED <<film, position, videobuf_ready, frames, video>>

(* th_decode_headerin on the next packet: a header is passed; the first frame
   ends the headers, or fails when it comes before the third. *)
HeaderPacket ==
  /\ vphase = "headers" /\ theora_p > 0 /\ to # <<>>
  /\ CASE Head(to) = Header -> to' = Tail(to) /\ theora_p' = theora_p + 1 /\ UNCHANGED vphase
       [] Head(to) = Hole   -> to' = Tail(to) /\ UNCHANGED <<theora_p, vphase>>
       [] OTHER -> /\ vphase' = IF theora_p >= 3 THEN "init" ELSE "refused"
                   /\ UNCHANGED <<to, theora_p>>
  /\ UNCHANGED <<film, position, sync, unsynced, lastpage, videobuf_ready, frames, video>>

(* No packet: the next page, or else more data; without data the process exits. *)
HeaderPage ==
  /\ vphase = "headers" /\ theora_p > 0 /\ to = <<>>
  /\ NextPage
  /\ UNCHANGED <<film, position, theora_p, vphase, videobuf_ready, frames, video>>

HeaderRead ==
  /\ vphase = "headers" /\ theora_p > 0 /\ to = <<>> /\ PageOut.result # "page"
  /\ \E ret \in 0 .. Chunk :
       /\ buffer_data(PageOut.rest, ret)
       /\ vphase' = IF ret = 0 THEN "exited" ELSE "headers"
  /\ unsynced' = NowUnsynced
  /\ UNCHANGED <<film, theora_p, videobuf_ready, frames, video>>

(* Without a Theora stream th_setup_free is given a pointer nobody has set. *)
InitDecoder ==
  /\ \/ vphase = "init" /\ vphase' = "rest"
     \/ vphase = "headers" /\ theora_p = 0 /\ vphase' \in {"rest", "fault"}
  /\ UNCHANGED <<film, position, ogg, theora_p, videobuf_ready, frames, video>>

-----------------------------------------------------------------------------
(* The main loop. *)

QueueRest ==
  /\ vphase = "rest"
  /\ \/ NextPage /\ UNCHANGED vphase
     \/ NoPage /\ vphase' = "main"
  /\ UNCHANGED <<film, position, theora_p, videobuf_ready, frames, video>>

(* One packet, one frame; a packet the decoder refuses is passed. *)
DecodePacket ==
  /\ vphase = "main" /\ theora_p > 0 /\ ~videobuf_ready
  /\ to # <<>> /\ Head(to) # Hole
  /\ to' = Tail(to)
  /\ IF Head(to) = Refused THEN UNCHANGED <<videobuf_ready, frames, video>>
     ELSE /\ videobuf_ready' = TRUE /\ frames' = frames + 1
          /\ video' = Append(video, <<0, Head(to)>>)
  /\ UNCHANGED <<film, position, sync, unsynced, lastpage, theora_p, vphase>>

(* Mutant: the end of the file ends the loop, whatever packets are left. *)
StalledEarly == ~videobuf_ready

(* There is no packet, or a gap is reported in place of one. *)
Stalled == ~videobuf_ready /\ (\A k \in DOMAIN to : k = 1 => to[k] = Hole)

PassHole == to' = IF to = <<>> THEN to ELSE Tail(to)

(* Mutant: the loop also waits for the bytes that are buffered. *)
EndWhenEmpty ==
  /\ vphase = "main" /\ Stalled /\ position = filesize /\ sync = <<>>
  /\ PassHole /\ vphase' = "done"
  /\ UNCHANGED <<film, position, sync, unsynced, lastpage, theora_p, videobuf_ready, frames, video>>

EndOfVideo ==
  /\ vphase = "main" /\ Stalled /\ position = filesize
  /\ PassHole /\ vphase' = "done"
  /\ UNCHANGED <<film, position, sync, unsynced, lastpage, theora_p, videobuf_ready, frames, video>>

ReadMore ==
  /\ vphase = "main" /\ Stalled /\ position # filesize
  /\ PassHole
  /\ sync' = sync \o Content(position, NeedRead) /\ position' = position + NeedRead
  /\ vphase' = "pages"
  /\ UNCHANGED <<film, unsynced, lastpage, theora_p, videobuf_ready, frames, video>>

QueuePages ==
  /\ vphase = "pages"
  /\ \/ NextPage /\ UNCHANGED vphase
     \/ NoPage /\ vphase' = "main"
  /\ UNCHANGED <<film, position, theora_p, videobuf_ready, frames, video>>

(* The picture goes to the file of its number; without a file fclose is given
   none. *)
WriteFrame ==
  /\ vphase = "main" /\ videobuf_ready
  /\ \/ video' = [video EXCEPT ![Len(video)][1] = frames] /\ UNCHANGED vphase
     \/ vphase' = "fault" /\ UNCHANGED video
  /\ videobuf_ready' = FALSE
  /\ UNCHANGED <<film, position, ogg, theora_p, frames>>

Next == \/ RefuseCopy \/ Copy
        \/ BosRead \/ BosPage \/ HeaderPacket \/ HeaderPage \/ HeaderRead \/ InitDecoder
        \/ QueueRest \/ DecodePacket \/ EndOfVideo \/ ReadMore \/ QueuePages \/ WriteFrame

Spec == Init /\ [][Next]_vvars

(* One thread runs the loop. *)
FairSpec == Spec /\ WF_vvars(Next)

-----------------------------------------------------------------------------
(* Properties. *)

Theora == \E p \in DOMAIN pages : pages[p].bos /\ pages[p].theora

(* The frames among packets, and those of the first n pages. *)
FramesIn(packets) == FlattenSeq([k \in DOMAIN packets |-> IF packets[k] > 0 THEN <<packets[k]>> ELSE <<>>])
FramesOf(n) == FlattenSeq([p \in 1 .. n |-> FramesIn(pages[p].packets)])
InFile  == filesize \div pagesize
Damage  == {p \in 1 .. InFile : pages[p].damaged}

(* The copy is the video, as far as the file has it. *)
CopyIsVideo ==
  OGVFlag = "decode" => /\ video = Content(0, position)
                        /\ vphase = "done" => position = filesize

(* The pictures are the frames, each once, in order, numbered without a gap,
   and at the end none is missing: what stands before the first damaged page
   is never lost. *)
Pictures == [k \in 1 .. Len(video) - (IF videobuf_ready THEN 1 ELSE 0) |-> video[k]]

PicturesAreFrames ==
  OGVFlag = "png" /\ Theora =>
    /\ \A k \in DOMAIN Pictures : vphase # "fault" => Pictures[k][1] = k
    /\ \A k \in 2 .. Len(video) : video[k - 1][2] < video[k][2]
    /\ vphase = "done" =>
         LET sound == IF Damage = {} THEN InFile
                      ELSE (CHOOSE p \in Damage : \A q \in Damage : p <= q) - 1
         IN  /\ Len(FramesOf(sound)) <= Len(video)
             /\ \A k \in DOMAIN FramesOf(sound) : video[k][2] = FramesOf(sound)[k]
             /\ Damage = {} => Len(video) = Len(FramesOf(InFile))

(* A video whose headers and first frame are in the file is worked off: the
   loops that wait for pages and packets do not wait for what will not come. *)
HeadersInFile == \E p \in 1 .. InFile : pages[p].packets # <<>> /\ ~pages[p].bos /\ pages[p] # Setup
                                        /\ \A q \in 1 .. p : ~pages[q].damaged

Stopped == vphase \in {"done", "refused", "exited", "fault"}

VideoEnds == OGVFlag = "decode" \/ (Theora /\ HeadersInFile) => <>Stopped
=============================================================================
