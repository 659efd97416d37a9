-------------------------------- MODULE Media --------------------------------
(***************************************************************************)
(* The sound and video unpackers.  The worker takes one file at a time and *)
(* its kind decides which of the modules runs; the others rest.            *)
(***************************************************************************)
EXTENDS StreamWriter

CONSTANTS Programs, Kinds, Formats, MaxEntries, MaxParts, BlockSize, Chunk, MaxStream,
          Levels, Exponents, Fields, Holds, Left, Right, MaxCodes, PageSizes, MaxPages

VARIABLES
  program,
  kind, format, sounds, units, table, entry, phase, at, left, converting, header, curblock,
  stream, offset, sent, saved, denied,
  info, codes, dsize, tmpdata, data, shift, d, flip_flag, runlength, outdata,
  OGVFlag, pages, pagesize, filesize, position, sync, unsynced, to, lastpage, theora_p,
  vphase, videobuf_ready, frames, video

Sound == INSTANCE SoundArchive
Block == INSTANCE BlockDecoder
Video == INSTANCE VideoExtract

ASSUME MediaAssumption ==
  Sound!SoundAssumption /\ Block!BlockAssumption /\ Video!VideoAssumption

soundvars == <<kind, format, sounds, units, table, entry, phase, at, left, converting, header,
               curblock, stream, offset, sent, saved, denied>>
blockvars == <<info, codes, dsize, tmpdata, data, shift, d, flip_flag, runlength, outdata>>
videovars == <<OGVFlag, pages, pagesize, filesize, position, sync, unsynced, to, lastpage,
               theora_p, vphase, videobuf_ready, frames, video>>
mediavars == <<program, vars, soundvars, blockvars, videovars>>

SoundRests ==
  /\ kind = "" /\ format = "" /\ sounds = <<>> /\ units = <<>> /\ table = <<>>
  /\ entry = 0 /\ phase = "" /\ at = 0 /\ left = 0 /\ converting = 0 /\ header = 0
  /\ curblock = 0 /\ Sound!W!Init /\ saved = <<>> /\ denied = {}
BlockRests ==
  /\ info = <<>> /\ codes = <<>> /\ dsize = 0 /\ tmpdata = <<>> /\ data = 0 /\ shift = 0
  /\ d = <<>> /\ flip_flag = 0 /\ runlength = 0 /\ outdata = <<>>
VideoRests ==
  /\ OGVFlag = "" /\ pages = <<>> /\ pagesize = 0 /\ filesize = 0 /\ position = 0
  /\ sync = <<>> /\ unsynced = FALSE /\ to = <<>> /\ lastpage = 0 /\ theora_p = 0
  /\ vphase = "" /\ videobuf_ready = FALSE /\ frames = 0 /\ video = <<>>

MediaInit ==
  /\ program \in Programs
  /\ Init
  /\ IF program = "sound" THEN Sound!Init ELSE SoundRests
  /\ IF program = "block" THEN Block!Init ELSE BlockRests
  /\ IF program = "video" THEN Video!Init ELSE VideoRests

MediaNext ==
  \/ program = "stream" /\ Next /\ UNCHANGED <<program, soundvars, blockvars, videovars>>
  \/ program = "sound" /\ Sound!Next /\ UNCHANGED <<program, vars, blockvars, videovars>>
  \/ program = "block" /\ Block!Next /\ UNCHANGED <<program, vars, soundvars, videovars>>
  \/ program = "video" /\ Video!Next /\ UNCHANGED <<program, vars, soundvars, blockvars>>

(* One thread runs the program. *)
MediaSpec == MediaInit /\ [][MediaNext]_mediavars
               /\ WF_mediavars(program = "video" /\ MediaNext)

-----------------------------------------------------------------------------
(* Properties; each is stated in its module. HeadIsFile is that of
   StreamWriter, whose stream rests while another program runs. *)

(* A file that has a stream of its own has its own sound. *)
OwnSoundInOwnStream == program = "sound" => Sound!OwnSoundInOwnStream

(* No whole entry of an archive is passed over. *)
NoneSkipped == program = "sound" => Sound!NoneSkipped

(* A compressed block is decoded to what its codes mean. *)
BlockDecoded == program = "block" => Block!BlockDecoded

(* The bit cursor reads no more than one byte behind the block. *)
WindowSuffices == program = "block" => Block!WindowSuffices

(* The copy of a video is the video. *)
CopyIsVideo == program = "video" => Video!CopyIsVideo

(* The pictures of a video are its frames. *)
PicturesAreFrames == program = "video" => Video!PicturesAreFrames

(* A video with its headers and a frame is worked off. *)
VideoEnds == program = "video" => Video!VideoEnds
=============================================================================
