# SiglusExtract: a TLA+ verification project

SiglusExtract is a Windows extractor and repacker for the data files of the Siglus
visual-novel engine.  This directory models its own logic in TLA+, checks the models
with TLC and proves the most important facts with TLAPS.  All source paths are
relative to the repository; `X` stands for `source/SiglusExtract/SiglusExtract`.

## 1. Inventory

| Component | Source | State it keeps | Operations | What makes it correct |
|---|---|---|---|---|
| Dialog and its threads | `X/SiglusExtractDialog.cpp` | `WorkerThreadHandle`, `WorkerList`, the static `Param`, the enabled controls | `OnDropFiles`, `OnBnClickedScePack`, the wrapper and worker threads, `InternalReset`, `EnableAll`, `DisableAll`, `OnClose` | no object used after its deletion, no double close, controls restored, GUI thread never blocked |
| Drop queue | `X/SiglusExtractDialog.cpp:438-573`, `X/Tool.h` | `WorkerList` under construction | enumerate folders, dispatch on the extension | every supported file that was dropped is queued |
| Script LZSS codec | `X/Compression.cpp`, `X/UnpackScene.h` | encoder cursor, match table, decoder cursor | `CompressData`, `SearchData`, `GenerateTable`, `DecompressData` | decoding gives back the input, buffers suffice |
| Memory stream | `X/StreamWriter.h` | vector and offset | `Write`, `Read`, `Seek` | what was written is the head of the buffer |
| Sound containers | `X/UnpackOvk.h`, `X/UnpackNwk.h`, `X/UnpackNwa.h`, `X/UnpackOGG.h` | file cursor, entry tables, output stream | `Unpack` | each entry gives one file with its own bytes |
| NWA decoder | `X/nwa2wav.cpp` | header, block and bit cursors, channel predictors | `ReadHeader`, `CheckHeader`, `Decode`, `NWADecode` | never reads a block beyond the table, decodes what the header promises |
| Scene archive | `X/UnpackScene.h`, `X/CreateScenePck.cpp`, `X/PckCommon.h` | header and index tables | `Unpack`, `CreateScenePck` | offsets written are the offsets read, an archive is whole unless its writing was cut |
| Script text repacker | `source/SiglusExtract/ScriptRepacker/ScriptRepacker.cpp` | string table and text | `wmain` | each string keeps its index |
| Gameexe | `X/UnpackGameexe.h`, `X/CreateGameexe.cpp` | one buffer; the archive on the disk | `Unpack`, `CreateGameexe` | a text comes out as it was written, a failed pack costs nothing |
| Database | `X/UnpackDbs.h` | one buffer, `Line` and `Row` | `Unpack` | every word decrypted with its own key |
| G00 images | `X/UnpackG00.h`, `X/Color*.h` | buffers, `tTVPMemoryStream`, parts | `Unpack`, `save*` | pictures are shown upright with every block at its place, no part costs one before it its file |
| OMV video | `X/UnpackOmv.h`, `source/SiglusExtract/Omv2Avi` | file cursor, pages, packets, the frame that is ready | `Unpack`, `OmvToPng` | every frame once and in order, the loops come to an end |
| Key finder | `X/SiglusHook.cpp`, `X/hardwarebp.cpp`, `X/SiglusExtract.cpp`, `X/InitDialog.cpp` | hooks, hardware breakpoints, key buffer | startup hand-shake | the dialog opens once, with the key |
| Universal patch | `source/SiglusExtract/SiglusUniversalPatch` | `g_SiglusConfig` | `LoadPatchConfig`, `HookCreateFileW`, font hooks | any file but a listed one is opened as asked, tables that fit each other do the game no harm; a font name fits its face |
| Loaders | `source/SiglusExtract/Loader`, `source/SiglusExtract/PatchLoader` | the child process and its suspend count | `VMeCreateProcess`, `wWinMain` | the child is resumed once the DLL is in |
| Native library | `source/SiglusExtract/NativeLib` | file, memory and thread wrappers | utility functions | - |
| Configuration tool | `source/SiglusExtract/SiglusExtractCfg` | settings, boxes, the file | load, the handlers of the boxes, save key by key | what is reported as saved is what the form shows |
| Image and video tools | `tools/src` | - | batch converters | - |
| Vendored code | `json`, `jsoncpp`, `curl`, `FLAC`, `ogg`, `vorbis`, `theora`, `toml.hpp`, `lodepng`, `libjpeg`, `detours`, nt headers | - | - | not ours |

**How they interact.**  The dialog is the hub.  A drop builds one `iUnpackObject` per
supported file in `WorkerList`; a worker thread calls the virtual `Unpack` of each one
in turn, handing it a `DecodeControl` copied from the dialog's options and the private
key the key finder stored with `SetPrivateKey`.  A pack runs `CreateScenePck` in the same
worker/wrapper construction.  The objects share nothing but the disk and the heap; the
sound objects write through `StreamWriter`, the script objects through the LZSS codec.
Updating a control from a worker sends a message to the GUI thread, so workers wait for
the GUI thread; the GUI thread waits for a worker only with a timeout.

**What is hard.**  Three kinds of threads touch `WorkerThreadHandle`, `WorkerList` and
`Param` with no lock; the GUI handler may terminate a worker; wrappers of earlier
requests outlive the handler that stopped their worker.  The data formats are hard in
another way: boundaries of windows, tables and blocks, sign and width of header fields,
and state shared between entries.  Files are created, replaced, cut and removed by the user
and by other programs while all of them run; the packers, the configuration tool and the
library in the game meet that.

## 2. Plan

The order follows the weight of the behaviour and the difficulty of testing it.

| # | Module | Models | State |
|---|---|---|---|
| 1 | `WorkerLifecycle`, `ExtractService`, `LifecycleRefinement`, `LifecycleProofs` | the dialog's threads and members; the promise they implement; the proofs | proved, but for liveness |
| 2 | `ScriptCodec`, `CodecProofs` | the LZSS codec, both decoders | proved |
| 3 | `StreamWriter` | the file in memory; what a client may rely on | proved (`MediaProofs`) |
| 4 | `SoundArchive` (composes `StreamWriter`) | OVK, NWK and NWA unpacking | proved (`MediaProofs`) |
| 5 | `DropQueue` | building `WorkerList` from a drop | proved (`FormatProofs`) |
| 6 | `TextRepack` | extracted text, `GetLines`, the script repacker | proved (`ToolProofs`) |
| 7 | `SceneArchive`, `SceneProofs` | packing and unpacking `Scene.pck` | proved |
| 8 | `UniversalPatch` | `LoadPatchConfig`, `HookCreateFileW` and `HookCreateFontIndirectW` | proved (`ToolProofs`) |
| 9 | `Gameexe` | packing, installing and unpacking `Gameexe.dat` | proved (`FormatProofs`) |
| 10 | `Database` | both key passes of `*.dbs` | proved (`FormatProofs`) |
| 11 | `BlockDecoder` | `NWADecode`: the bit cursor, the fields, the run length, two channels | proved (`MediaProofs`) |
| 12 | `ImageParts` | pictures, parts and blocks of a G00 image, three ways of saving | proved (`FormatProofs`) |
| 13 | `VideoExtract` | copying a video, and the loops of `OmvToPng` over libogg | the copy proved (`MediaProofs`), the pictures proved (`VideoProofs`), the end of the loops model-checked |
| 14 | `ConfigTool` | `SettingParser` and the form | proved (`ToolProofs`) |
| 15 | `SequenceLemmas` | no code: facts about flattened and accumulated sequences that the proofs share | proved |

"Proved" means every safety property that a passing run checks of the module; section 6 has
the arguments.  That the loops end is model-checked.

`Media`, `Formats` and `Tools` put the programs that share nothing side by side
(`MCFormats` and `MCTools` give the last two the values of their instances): the variable `program` says which one a behaviour runs, and the others rest.  A run over such a
module asks each program its own questions; no interleaving is lost, because the programs
run in one worker thread one after the other, or in processes of their own that meet only in
files, and those meetings are in their modules.

## 3. The modules and the code

Every module opens with the code it models.  A definition stands beside the name of
the function or the variable it comes from; `PROJECT.json` lists the lines of each.
Operators whose comment starts with "Mutant" are wrong versions of the definition that
follows; no specification uses them.

### WorkerLifecycle

*State.*  `handle`, `list`, `param`, `enabled` are the members `WorkerThreadHandle`,
`WorkerList`, the static `Param` and the enabled controls.  `open` and `live` are the
kernel's and the heap's account of them: the worker handles not closed, the objects not
deleted.  `gui`, `wrap[j]` and `work[j]` are the program counters of the GUI thread, of
the wrapper and of the worker of request `j`.  `done`, `requested`, `overlap`, `failed`
and `fault` are history.

*Actions.*  `Request` is the arrival of `WM_DROPFILES` or of a click on "Do Pack!";
`CheckWorker`, `TerminateWorker`, `CloseOld`, `ForgetOld`, `DeleteOldList`, `FillList` and
`SpawnWrapper` are the stretches of `OnDropFiles` and `OnBnClickedScePack` between two
accesses to shared members.  `DisableAll` to `EnableAll` are the two wrapper functions
with `InternalReset`; `NextItem` to `WorkerEnableAll` are `WorkerThread`; `BeginPack`
and `EndPack` are `CreateWorkerThread`.  `Close` is `OnClose`.

*What is worth knowing about the code.*  The time `OnDropFiles` gives to
`NtWaitForSingleObject` is positive, hence an absolute time in 1601: the wait returns at
once, so a worker that still runs is terminated.  `INVALID_HANDLE_VALUE` is also the
pseudo-handle of the process, so a wrapper that reads the member after another thread
reset it waits for the process itself.  A control updated from another thread is a
message to the GUI thread: those actions have the guard `Pumping`.  A drop is not
refused while the controls are greyed, and `OnDropFiles` enables them; that is how
requests come to overlap.

*Abstractions.*  A handle value is the worker it was made for and is never reused (a
real reuse can only add behaviour after an overlap).  The contents of a drop are the
numbers of its objects; `DropQueue` builds the list in detail.  `Unpack` itself is one
interval, from `BeginUnpack` to `EndUnpack`; the format modules say what happens in it.

### ExtractService and LifecycleRefinement

`ExtractService` has three variables: a phase, the queue of files still to unpack and
the files unpacked.  It says that a request is either abandoned before it starts or has
each of its files unpacked once, in order, before the dialog is ready again.
`LifecycleRefinement` maps: the phase is "starting" until the worker exists, "working"
until the wrapper returned; the queue is `WorkerList` from the loop index of its worker on
(`Rest`).  A request that comes to nothing or packs scripts is an empty batch.

### ScriptCodec

*State.*  The locals of `CompressData`, `GenerateTable` and `SearchData` under their own
names, the code as a sequence of items, and the cursor of the decoder.
*Actions.*  One per loop iteration: `OpenGroup`, `Prepare`, `TableStep`, `TableEnd`,
`SearchStep`, `SearchEnd`, `Emit` and `Finish` encode; `ReadControl`, `CopyLiteral`,
`ReadReference`, `CopyByte`, `EndCopy` and the two stops decode.  `reader` tells
`DecompressData` from the assembler routine `decompress_data`, which looks for the end of
the output at other places.
*Worth knowing.*  The `memset` of the table clears `LEVEL + 1` bytes of an array of
integers, so `OffTable` keeps old entries; the outer loop runs while `curlen <= len`, so
an input that ends with a full group has one more control byte and one literal from
behind the input; and the size in the header leaves out the last byte of the last item,
which the appended bytes of `CreateScenePck` make good.

### StreamWriter and SoundArchive

`StreamWriter` is the vector and the offset with `Write`, `Seek` and `Read`; `file` is
what an ordinary file would hold.  A write first grows the vector, then pushes the bytes
again, then copies them to their place, so the vector is longer than the file.
`SoundArchive` uses it through the instance `W` and models three `Unpack` methods.  The
archive is a sequence of units, each naming the sound and the part it belongs to; the
table holds offsets and sizes as in the file.  `BeginCopy`, `CopyChunk`, `EndCopy` are
OVK; `BeginConvert` to `EndConvert` are NWK and NWA with the block loop of `nwa2wav.cpp`,
including the second conversion that `UnpackNWK` makes for WAV output.  What an encoder
makes of the stream is `Output`: `Flac` reads one header and the sound it announces, and is
made only if that sound is 16-bit stereo (`Encodable`), else the entry ends without a file;
`Vorbis` reads to the end of the stream, whatever sounds are in it (`Garbled`).

### DropQueue

The loop of `OnDropFiles` over the dropped paths: files that vanished (`SkipMissing`),
files (`AddFile`), folders through `FindFirstFileW` and `FindNextFileW` (`OpenFolder`,
`NextEntry`, `CloseFolder`), with `CreateAddObject` choosing by the extension.  A name is
a record of what the code looks at: the kind of its suffix, the hidden attribute and
the leading point.

### TextRepack

`ExtractText` writes a line per string; the translator's edit is any list of lines that
is not longer, with either line end; `ReadChar` is one iteration of `GetLines`, reading in
`memory`, which is the file followed by the zeros of the allocation and then by the heap;
`MatchLines`, `WriteString` and `WriteScript` are the rest of `wmain`.

### SceneArchive

`PackEntry` appends a compressed, twice encrypted script and its index entry;
`PackMissing` is the early return of a script that cannot be opened.  `CreateOutput` empties
the file, or cannot open it; `Write` is the two unchecked `fwrite` calls and `fclose`, after which any
beginning of index and data may be on the disk and the pack is reported as done; `Restart`
ends the program anywhere, also inside a write.  `torn` is the history of whether the file lacks bytes.
`UnpackEntry` decrypts in place and decompresses an entry that is whole in the file;
`UnpackBeyond` is one that is not: the code reads on behind its buffer.  A byte carries the set
of XOR keys on it, so that what a wrong offset decrypts is visible.  `Edit` is the user.

### BlockDecoder

*State.*  `data`, `shift`, `d`, `flip_flag`, `runlength` and `outdata` are the locals of
`NWADecode`; the two bytes that `getbits` looks at lie at `data`.  A block is described by
its codes, whose bits are those of the comment at the head of `nwa2wav.cpp` (`Format`,
`Codes`); the decoder's own arithmetic is in `BITS` and `SHIFT`, so the run compares the two.
*Actions.*  `DecodeCode` is one turn of the loop with a new code, `HoldSample` one inside a
run of equal samples.

### VideoExtract

*State.*  The file and its position, the synchronisation layer of libogg (`sync`,
`unsynced`), the packets of the Theora stream (`to`), `theora_p`, `videobuf_ready` and
`frames`.  libogg is external and modelled by what its callers rely on: it cuts pages out of
the bytes, reports a gap once, and marks a missing page in the stream.
*Actions.*  `RefuseCopy` and `Copy` are `ExtractOmvTypeUnk`; `BosRead`, `BosPage`, `HeaderPacket`, `HeaderPage`,
`HeaderRead` and `InitDecoder` are the search for the headers; `QueueRest` to `WriteFrame`
the main loop.  *Worth knowing.*  At the end of the file `Read` leaves the count as it was:
`buffer_data` then hands on any number of old bytes.

### Gameexe

The file the user edits, `Gameexe.new.dat`, `Gameexe.dat` and the text the unpacker writes;
`Open`, `Create` and `Write` are `CreateGameexe` between its calls, `Read` and `Save` are
`UnpackGameexe`.  The user edits, installs the new archive, or packs the unpacked text again;
`Restart` ends the game anywhere, also inside a write.  A byte carries the locks on it.

### Database

`Unlock` takes the first key off, `Copy` decompresses or copies, `DecodeWord` takes the
second key off word by word with `Line` and `Row`, `Write` ends it.  `Square` is the scheme
those counters are meant to follow.  The file may have lost its end.

### ImageParts

A picture is its pixels.  `DecodeItem` is one item of `lzss_decompress_24bit`, a pixel or a
reference that an encoder may have made; `fix_bmp` turns the rows; `SaveSingle`,
`SaveIndexed`, `SkipPart`, `SavePart` and `SaveAstray` are the three types of image and the
parts of a directory.  `Pasted` writes a block where the code does, also one that is wider than
its part.  A part of a type other than 1 and 2 has no buffer of its own and is turned, saved and
freed through the pointer of an earlier one, and a block before or behind the buffer is written
there: such a part strays (`Strays`), and from it on anything may be saved, or the directory
ends in an exception (`SaveAstray`).  `Stored` is what a file shows once `savebmp`, `savepng` or `savejpg`
has written it; `NoRoom` is the PNG whose buffer is too small.

### ConfigTool

`setting` are the fields of `SettingParser`, `shown` the boxes, `ini` the file.  `Start`,
`ShowTexts`, `ShowFlag` and `ShowFonts` are the constructor, during which the handlers of the
boxes run; `TypeName`, `ChooseFlag`, `Answer` and `ChooseFont` are the handlers; `Save` and
`WriteKey` write one key at a time, `FailWrite` fails, `Close` ends the program anywhere.

### UniversalPatch

A string is its folders and the pieces of its name between the points; an entry of a table may
have a stem, an extension, folders or none of them.  `cfg` is `g_SiglusConfig`, `face` is `lfFaceName` with two cells behind it.
`LoadPatchConfig` runs when the library is loaded; `CallCreateFileW` chooses the name and
`OpenFile` opens it, and `ChangeFile` comes between or at any other time.
`CallCreateFontIndirectW` copies the font.  The iterator that `HookCreateFileW` reads may be
the end of its table: what it finds there is nondeterministic, and so any file may be opened,
or the game ends.  `RedirectSafe` therefore has two halves: whatever the configuration, only a
listed name is opened as another; and if every listed name has its extension in the other table
(`Fitting`), the iterator is never at the end.

## 4. The runs

| Run | Module | Instance | Distinct states | What it shows |
|---|---|---|---|---|
| `lifecycle` | `MCWorkerLifecycle` | two drops and two packs to choose two requests from, up to two files, impatient user | 1 461 748 | memory and handle errors, killed workers, lost objects and usable controls only follow a request made over a running one; the controls always come back |
| `lifecycle_liveness` | `MCWorkerLifecycle` | two drops of at most one file, impatient user | 288 132 | the GUI thread returns, wrappers end |
| `lifecycle_refinement` | `MCLifecycleRefinement` | two drops of up to two files and a pack, patient user | 10 616 | the threads implement `ExtractService` |
| `codec` | `ScriptCodec` | inputs of up to 11 bytes over two values | 539 038 | both decoders give back the input; the table, the search, the recorded size and the allocation are right |
| `media` | `Media` | streams, sounds, blocks of samples and videos (below) | 766 384 | the head of the vector is the file; own sound in own stream, none skipped; a block means its codes and its cursor stays in bounds; the pictures of a video are its frames, its copy is the video, and it is worked off |
| `formats` | `MCFormats` | scripts, drops, `Gameexe.dat`, databases and images (below) | 1 239 262 | unpacking gives what was packed, of a cut archive what lies before the cut, and only a cut leaves an archive that is not whole; the queue is the drop; a text survives and a failed pack keeps the last archive; every word loses its key; pictures are shown as they were stored, and no part costs one before it its file |
| `tools` | `MCTools` | repacking, the configuration tool and the library in the game (below) | 817 070 | a written script is consistent and lines reach their strings; "Save ok" is true; only a listed file is redirected, and with tables that fit each other to the file they say; a font name stays in its face |
| `sound_nwk_own` | `SoundArchive` | NWK only | violation | finding 1 |
| `drop_extension` | `MCFormats` | drops only | violation | finding 2 |
| `repack_extracted` | `TextRepack` | three strings of at most one character | violation | finding 3 |
| `config_checks` | `MCTools` | the configuration tool only | violation | finding 4 |
| `patch_redirect` | `MCTools` | the library only | violation | finding 5 |

**Why the bounds are enough.**
*Lifecycle*: every hazard is a race of one request with the threads of another, and a
pair shows each; four candidates let the pair be two drops, two packs or one of each in
either order.  Two files make the loop iterate, shrink under a worker and be deleted half
done.  The liveness instance needs no second file: the loop's progress does not depend on
it.  The refinement instance serves three requests one after the other, so that the
second and the third start from what the others left.
*Codec*: the window of 7, the match of 4, the length field of 3 and the group of 3 items
keep the order of the real 0xfff, 17, 16 and 8 (match < window, match = field + 1), and
an input of 11 passes the window, fills more than one group, ends on and off a group and
has self-overlapping matches.  Two byte values give all border shapes of a pattern of
four.
*Sound*: a chunk and a block of 2 with sounds of up to 5 units has full, partial and
last chunks; two entries in either order of the file show every effect of one on the
next.  Sounds are 16-bit stereo or not, one by one, as the check of the FLAC encoder tells them.
`MaxStream` is beyond what two sounds can fill.
*Drop*: two items and two entries have everything next to everything; the names are one
of each kind that the code tells apart.
*Repack*: an index that moves shows on two strings; the third gives a line that is
neither first nor last.  A longer string adds nothing but data.
*Scene*: the keys are shorter than an entry, so they wrap, and their lengths differ; three
scripts have a first, a middle and a last one for a missing file and for a cut.
*Streams*: three byte values and writes of two in a vector of up to eight let every write
fall before, across and behind the end.
*Blocks*: every sequence of three codes out of the least and the greatest of each width
starts codes at many bits of a byte, at each of the six levels of the format; runs of 0, 2 and 3
more samples have all three forms of their length.
*Videos*: three pages behind the headers put a damaged, foreign or refused one before,
between and behind frames; a page of one unit or of three is less or more than the two that
are read at a time; the file is whole, one unit short, or cut in or behind the headers.
*Gameexe*: one text with a mark and one without, keys of three and two bytes, which wrap at
different places.
*Databases*: three words to a line and a square of two by two keys in place of 16 and five by
five, so that `Line` and `Row` wrap at different counts; a table of 34 bytes has more words
than both repeat after, one of 15 ends inside a word.  Losses fall in the data, at the
headers and inside a word.
*Images*: pictures of two by two are the smallest whose rows and columns can be confused;
the nine parts are a whole one, one of overlapping blocks with a gap behind an origin, a
single pixel, one whose block is wider than itself, two of types without a buffer, one with a
block before and one with a block behind its buffer, and an empty entry, three of them in any order.
*Settings*: names that are there, missing, empty and padded; two fonts, one the default, and
settings that name another; every file an earlier run left.
*Patch*: names in capitals, without a point, of a folder, in either table, in both and in
none; entries with and without a point, a stem and a folder, empty ones and ones that are no
strings; two configurations whose tables do not fit each other; a face of two characters with fonts of none to three.

Deadlock is not checked where the program really stops (a process that ended, a file
that is unpacked, a batch that is done), which every run contains.

**Fairness.**  `WF_vars` on the GUI handler and on each wrapper and worker: they are
operating-system threads, and the scheduler runs every thread that can run.  A thread
that needs an answer from the GUI thread is enabled only while that thread pumps, and a
weak fairness condition on it is enough because the GUI thread returns to its loop and
stays there until the user acts; the requests of a behaviour are bounded, as a user's
are.  The user owes nothing: no request, no close.  `FairSpec` of the codec, and
the fairness of `MediaSpec` while the video program runs, are the single thread that runs the
loop: it stops only when the loop does.

## 5. What disagrees with the documents

1. *`sound_nwk_own`.*  `UnpackNWK::Unpack` (`X/UnpackNwk.h:118`) has one `StreamWriter`
   for all its entries and never empties it.  `README.md:53` lists `*.nwk` among the
   supported archives; from the second file on, each starts with the first sound.
2. *`drop_extension`.*  `README.md:47` invites "single / multiple files or folders".  A
   file without a point in its path makes `GetFileNameExtension` (`X/Tool.h:25`) return
   a null pointer where a string is constructed.
3. *`repack_extracted`.*  `ScriptRepacker.cpp:146` gives `GetLines` the number of bytes
   for the number of characters.  The zeros behind the text then make one more line, and
   the unedited text of `ExtractText` is refused with "Index error(to large)".
4. *`config_checks`.*  Both boxes of `SiglusExtractCfg` call `SetPatchDVD`
   (`Form1.cs:117`), so the setting of the font check never changes and that of the DVD
   check is overwritten.  Their help texts (`Form1.Designer.cs:132`) give each box a meaning
   of its own.
5. *`patch_redirect`.*  `HookCreateFileW` (`SiglusUniversalPatch.cpp:603`) replaces the
   extension and then looks the name up in `FileMapper` anew; a name that is not there is
   opened unchanged.  `SiglusCfg.json:3` shows `ExtensionReplacer` with entries of its own.

Two more are written into properties and not into findings, since no document speaks of
them: the first entry of a dropped drive root is lost, for a root lists no "." entry to
skip (`RootCostsItsFirst`); and an empty line reaches `wmain` as the line end that follows
it, so `LinesKept` speaks of lines that are not empty.

The overlap of requests is not listed as a finding either: no text says that a drop over
a running batch is safe.  The properties state the exact border (`FaultsNeedOverlap`,
`KillsNeedOverlap`): a batch that nobody interrupts is safe.

## 6. The proofs

TLAPS checks every theorem for every value of the constants that satisfies the named
assumption of the module; TLC evaluates each of them in a run.  They are
`LifecycleAssumption`, `CodecAssumption`, `StreamAssumption`, `SceneAssumption`,
`RepackAssumption`, and `MediaAssumption`, `FormatsAssumption` and `ToolAssumption`, which
put together those of the modules they instantiate (`SoundAssumption`, `BlockAssumption` and
`VideoAssumption`; `DropAssumption`, `GameexeAssumption`, `DatabaseAssumption` and
`ImageAssumption`; `PatchAssumption` and `ConfigAssumption`).  Most of them say only
that bounds are numbers and that the values which stand for "nothing" are not data.  Six
say more.  `BlockAssumption` has the levels, exponents and run lengths of the format.  `CodecAssumption` has a window longer than the longest match, whose length fits
its field, and a table with room for it, as the constants of `Compression.cpp` are.
`GameexeAssumption` has texts with something behind their byte order mark, `DropAssumption` no
leading point in a name without an extension, `PatchAssumption` no points in the folders of the
files the game opens.  `LifecycleAssumption` has requests and objects that are different
things.  A theorem about `Media`, `Formats` or `Tools` names the property that the run
checks, `program = ... => ...`, and its invariant has the same premise.

**`LifecycleProofs`.**  `FaultsNeedOverlap` is not inductive: it says nothing of who owns
the handle or the list.  The strengthening is `SerializedUnlessOverlap`: as long as no
request came over a live thread, at most one wrapper and its worker are alive
(`OneAtATime`), their positions fit (`WorkerInWrapper`), the member and the kernel agree
that the handle is theirs (`HandleIsWrappers`), the list holds exactly the live objects
(`ListIsLive`), the loop index bounds what is done (`LoopProgress`), a pack has its own
`Param` (`ParamIsOwn`) and the controls are greyed (`Greyed`).  It needs one fact that
holds with or without an overlap, `FreshRequests`: a request has no wrapper before its
handler is left.  `SerializedStep` is the lemma of one step, one case per action;
`FaultsOnlyByOverlap`, `KillsOnlyByOverlap`, `NoUnpackSkipped`, `NoLeak` and
`GreyedCorrect` follow.  `ControlsComeBack` has its own, `OwedEnable`: disabled controls
are owed an `EnableAll` by some living wrapper, which overlaps do not change.
`TypeCorrect` is the type invariant.

`DialogServes` is the step simulation of `LifecycleRefinement`: with a patient user the
initial state is one of `ExtractService` and every step is a step of it or none.  Beside
`Serialized` it needs `RefineInv`: there is never an overlap, the list is the batch of the
request that is served, objects are unpacked only after their worker was created, a worker
ends when the loop has passed its list, and a cleared list stays empty.  One lemma per kind
of thread maps its steps.  The run of the same refinement adds what the proof leaves out,
that every request finishes.

**`CodecProofs`.**  Two arguments.  The search: `SearchInv` follows the loops of
`GenerateTable` and `SearchData`.  The part of the table that was filled holds the longest
border of each prefix (`TableState`, with the lemma that a border of a border is a border and
that no longer one than the candidate is left); while the window is searched, no place
passed has a longer match than the best so far, and the present place fits as far as the
loop says (`SearchState`).  That the old entries `memset` leaves behind do no harm is part
of it: nothing is read of the table but what was filled.  `TableHoldsBorders` and
`MatchIsLongest` follow.  The code: the layout of the output is three functions, where in
the code each item stands, in which group, and how many bytes come before it (`Coding`); the
decoder is at one of those places and its output is the input up to there (`Reading`).
`CodeInv` says that such functions exist, so no step computes them; each step extends
them by one value.  A reference repeats what the window has, which is what `MatchIsLongest`
says of the encoder, also where source and target overlap.  `CodecGivesBack`, `RecordedSizeIsRead`,
`CodeFits` and `CodecTypes` follow.

**`MediaProofs`.**  `HeadCorrect` rests on two lemmas: what `Overwrite` returns at every
index, and that `Written` agrees with the old vector outside the place written and with
the buffer inside.  `StreamTypes` bounds the offset by the length of the file.
`VideoIsCopied`: the copy is as long as the position is behind the first page (`CopyInv`),
and the content of a file that lost its end is a beginning of the whole content
(`ContentGrows`).
The sounds: `SoundsLie` shows that an archive built of sounds in any order has each of them
at the offset its table entry names, which is a fact about flattened sequences
(`FlatPlaces`) and about an order that is its own inverse (`Involutive`).  `SoundInv` then
says: the archive lies so and its tables are never written (`ArchiveLies`); each entry behind
the loop was saved, refused or is not whole in the file (`Passed`); the stream is a vector and
an offset as `HeadCorrect` has them (`Streaming`); and, for a copied entry, that the stream has
the units read so far (`Copying`), for a converted one that the blocks decoded are those of
the first block on, raw or packed, in the first or the second conversion (`Converting`).
`SavedOwn` keeps what a saved file has.  `SoundsAreOwn` and `SoundsAreReached` follow.
The blocks: `FieldIsRead` shows that `getbits` gives back a number put down in up to eight
bits behind the cursor, from any place in a byte; the sum of bits by powers of two is made
width by width (`SumIs`), since the provers do powers only for literals.  `CodeIsRead` takes
the kinds of codes one by one, at every level: `Decoded` gives the difference, the run and the
cursor behind the code (`TakenFor`), with the sign bit of the code against the sign of the
format (`SignIsHighest`).  `BlockInv` then says that the block is codes laid one behind the
other (`Laid`), that the cursor stands behind the first of them and a run may be under way
(`Standing`), and that what is out are the values of the definition, each cut, and the last of
each channel is in `d` (`Sounding`).  Since the values are cut at every sample and the
definition cuts only at the end, `CutAdds` is needed.  `BlocksAreDecoded` follows, and
`WindowIsEnough` because a cursor behind a code stands inside a byte that was begun.

**`VideoProofs`.**  `FramesAreDrawn` is `PicturesAreFrames`.  The property compares the pictures
with the frames of the file; the way between them leads over two queues of libogg, so the
invariant follows a frame on it.  `Watched` names, once for the whole behaviour, the frames of
the video (`fs`), how many of them come before each page (`s`) and how many pages of the file
come before the first damaged one (`w`), and says with the number `q` of pages passed so far:
the buffer holds the file from behind these pages, or from inside the last of them if that is
torn, up to the position, and behind the end of the file only what the stack held
(`Synced`); the packets queued bring the frames behind the last picture, one after the other,
up to the last of these pages, and report a gap only behind the frames of the intact
pages (`Gathered`, where `Ranked` counts the frames before each packet); the pictures are the
first frames, and all but the one not yet written have their number (`Drawn`); and in the
phases that wait for data no whole intact page is left in the buffer (`Phased`, with `Awaits`).  Without the last the loop could end at the end of the file with a page
still buffered.  `PageOutIs` is the central lemma: `ogg_sync_pageout` passes torn pages only and
returns the page behind them exactly if the file was read up to its end.  One lemma per
action keeps `Watched`; `PicturesFollow` reads the property off it: where the loop ends, the
pages awaited are none of the intact ones, so all their frames were drawn.

**`SceneProofs`.**  The invariant `IInv` says that index, bytes and scripts of both the
archive being built and the one written agree (`Built`, `Placed`), also as far as a cut file
goes (`Begun`), and that exactly the entries from `entry` on are still locked
(`UnpackingRight`).  The lemmas: a lock put on twice is off, packing one more script keeps
`Built`, a beginning of a built archive is one as far as it goes (`BuiltCut`), and decrypting
one entry leaves the bytes of those that follow, because entries do not overlap.  `SceneRoundTrip`,
`SceneWhole` and `SceneTypes` follow from `SceneInvariant`.

**`FormatProofs`.**  `GameexeIsKept`: as long as no pack was cut, each file and the buffer
between them hold a text that was written or the archive of one (`GameInv`); `GameCleared`
is the lemma that the unpacker takes off exactly the locks the packer put on.
`GameexeFailureKeeps` needs `Untouched`: before the archive is made it is that of the last
pack.
`DatabaseIsDecoded`: `DatabaseInv` says that the two counters are the word's place in the
square of keys (`CounterRight`, with the arithmetic of division that the counters avoid) and
that exactly the words from the present one on still have their key (`TableRight`).
`PicturesAreRight` and `PartsAreSaved`: an item decoded by the loop extends the pixels as the
recursive reference does, and blocks pasted one by one give at each pixel the last block that
covers it, which is defined over the whole list (`ImageInv`: `PicturesRight`); a block that lies
in its part neither strays nor wraps (`FitsStaysHome`).  Each part before the present one has its
picture or a reason of its own (`PartsTried`), and a fault comes only behind the parts that no
stray one precedes (`FaultRight`, with `AstrayGrows`).
`QueueServesDrop` and `RootLosesFirst`: `DropInv` says that the queue is what is wanted of
the items passed, and of the entries passed of the present folder (`QueueRight`); the
definition flattens what is wanted of each item, and `FlatStep` makes one more item or
entry one more piece of it.

**`ToolProofs`.**  `RepackIsConsistent` is `IndexMatchesData` for all texts and heaps.  The
invariant `RepackInv` says that whatever was read past the text is at least a sequence of
things found in memory (`LinesTyped`), that a string is replaced by one line or none
(`NewTyped`), and that the strings written so far are where their entries say, under their
own keys (`Placed`); `WritePlaces` is its step, and `Least` gives `wcscpy` the first zero.
`EditedLinesAreKept` is about the reading itself.  The memory is the lines of the edit, one
behind the other with a line end between, and then a zero (`Buffer`).  `EditInv` says that
while the cursor is in the text (`InText`) the lines read are those of the edit before the
cursor and the line begun is the line up to it; that the last line, when it has no line end,
grows by what is behind the text and keeps its head (`Behind`), which the zero ends; and that
every line is kept from then on, whatever else is read (`Kept`).
`ConfigSavesWhatItShows` follows a value from its box to the setting
(`ConfigShown`), to the keys written so far (`ConfigSaving`) and to the report
(`ConfigSaved`), with the fact that a save and a warning exclude each other (`ConfigAlone`);
together `ConfigInv`.  `PatchRedirectsSafely` needs that the configuration in use, once it is
read, is what the file states, entries that are no strings left out (`RedirectInv`); then
`ByMapperSafe` gives what the second half of `HookCreateFileW` can come to, and tables that fit
keep its iterator from the end; `PatchFacesFit` that the face is the game's or the font of
the configuration, cut at its size (`FaceInv`).

**`SequenceLemmas`.**  The provers cannot use an induction theorem that takes an operator, so
a fact about all prefixes of a sequence is shown by its least counterexample (`Least`), and
what a fold or a flattened sequence is by a function that exists and is the only one
(`FlatExists`, `FlatSame`; `StepsExist`, `StepsAgree`); the lemmas on steps, places and
lengths rest on these.

**Only model-checked.**  Liveness, because fairness and `ENABLED` are out of the prover's
reach: the temporal part of the refinement, and that the loops of the codec and of the
videos and the requests of the dialog end.  Every invariant and every action property of a
passing run is stated by a theorem.

## 7. What is not modelled

* *Vendored code.*  Most of the repository's lines are not its own: `toml.hpp`, `lodepng`,
  `jsoncpp`, `json`, `Hash.h`, the NT headers of `NativeLib`, and the headers of FLAC, Ogg,
  Vorbis, Theora, PNG, curl and detours.  The tables of `Color*.h` are constants.  The models
  therefore cover a small share of all lines, although they cover the unpackers, the packers,
  the dialog and the tools.
* *Key finder, loaders*: hooks, machine code and the start of another process.  They have no
  state to explore without a model of Windows' loader and of a processor.
* *Native library*: thin wrappers; threads, waits and files appear in the modules as the
  primitives they are.
* *The options of the dialog* set flags that a worker copies when it starts; *other dialogs*
  have no state; *UnpackOGG* is one XOR over one buffer.
* *`OmvToPng_Fixed` and `Omv2Avi.cpp`* have the loops of `OmvToPng_Normal`.  The header in
  front of a video, the arithmetic of pixels and colours and libtheora's decoding are not
  modelled.

Limits of single modules:

* `Database` takes equal sizes for a stored table, as the code does; a compressed table of
  the same size cannot be told apart by either.
* `Gameexe`: the new archive is not installed while it is written.  A text has at least four
  bytes behind its mark; what `CompressData` allocates is too small for fewer, and `FitsAllocation`
  of the codec says from where on it suffices.
* `SceneArchive`: a script is a value with a size, so the same lower bound is taken for granted.
  The header in front of the index is written in the same call as the index and counts as a
  part of it.
* Files other than `Scene.pck` and `Gameexe.new.dat` are either created and written whole or not
  created: the unpackers do not look at what their writes return, and a disk that fills up under
  them is not modelled.
* Allocations succeed, but for the buffer of a scene entry that lies beyond the file.
* `SoundArchive`: what an encoder makes of its samples, and the sample rates it takes, are external.
* `VideoExtract`: the signature that is looked at before a video is copied is always there, since a
  video that starts with a damaged page is not among the files.
* `UniversalPatch`: the folders of the files the game opens have no points, two ways to one file
  by ".." are two files, and the conversion of a number to a font name is not spelled out.  A font as long as
  a face or longer leaves no zero in it; `FaceInBounds` asks only for the characters and the
  bound.
* `ImageParts`: the stream adapters of GDI+ are external.  A picture with a table of colours is
  not decoded by the code, so anything may be saved for it; the same holds from the first part on
  that strays, and the pictures saved before are taken to stay as they are, being on the disk.
* `TextRepack`: the buffer of 2047 characters for one string, and `SceneArchive`: the bytes
  read behind a compressed script, are taken to suffice.
* `ScriptCodec`: one call at a time; `OffTable` is a global of the process, and the packs
  that use it run in one thread each.
* `WorkerLifecycle`: `CreateThread` may fail, and then the wrapper leaves the controls disabled and
  its list undeleted, as the code does (`X/SiglusExtractDialog.cpp:931`); no document speaks of it,
  and `ControlsRestored` and `NothingLeaked` exempt it, so that hazard stays open.  A terminated
  worker leaves no lock of the C library behind.
