----------------------------- MODULE SceneArchive -----------------------------
(***************************************************************************)
(* Scene.pck: CreateScenePck puts the compressed scripts of a directory    *)
(* one after the other into a new archive, and UnpackScene takes an        *)
(* archive apart.  Between them the user edits and deletes scripts.        *)
(*                                                                         *)
(* A byte of the archive is a part of a compressed script with the locks   *)
(* on it: each of the two keys is one XOR, a lock that a second XOR of the *)
(* same key byte takes off again.  The codec is that of ScriptCodec.       *)
(* The archive is emptied before it is written, nobody looks at what       *)
(* fwrite returns, and the program may be ended at any moment.             *)
(***************************************************************************)
EXTENDS Integers, Sequences

CONSTANTS Scripts,     \* the contents of a script
          Size,        \* the bytes each one compresses to, without the header
          Header,      \* sizeof(compress_file_header_t)
          Entries,     \* the scripts of the archive
          FixedLength, \* 256, the bytes of the fixed key
          KeyLength,   \* 16, the bytes of the private key
          Absent, Garbled

ASSUME SceneAssumption ==
  /\ Size \in [Scripts -> Nat] /\ Header \in Nat \ {0} /\ Entries \in Nat \ {0}
  /\ FixedLength \in Nat \ {0} /\ KeyLength \in Nat \ {0}
  /\ Absent \notin Scripts /\ Garbled \notin Scripts /\ Absent # Garbled

VARIABLES
  needKey,   \* m_PckNeedKey
  dir,       \* the directory: the script of each entry, or Absent
  phase,     \* "idle", "pack", "write" or "unpack"
  info,      \* SceneDataInfo of the new archive: offset and count
  disk,      \* disk_buffer
  offset,    \* disk_offset
  taken,     \* history: the scripts read for the new archive
  output,    \* the file: info and data as far as they were written, and
             \* what it was made of
  torn,      \* history: the file lacks bytes of its archive
  buffer,    \* Buffer of UnpackScene
  entry,     \* i of UnpackScene
  unpacked   \* history: the files of this unpacking: a script, Garbled or Absent

packing   == <<info, disk, offset, taken>>
unpacking == <<buffer, entry, unpacked>>
archive   == <<output, torn>>
vars      == <<needKey, dir, phase, packing, archive, unpacking>>

Nothing == [info |-> <<>>, data |-> <<>>, of |-> <<>>]

(* A byte: part k of the script s, from 0, the header first. *)
Byte(s, k, locks) == [of |-> s, part |-> k, locks |-> locks]
Locks == ({"fixed"} \X (0 .. FixedLength - 1)) \cup ({"key"} \X (0 .. KeyLength - 1))
Bytes == [of : Scripts, part : Nat, locks : SUBSET Locks]

Init ==
  /\ needKey \in BOOLEAN
  /\ dir \in [1 .. Entries -> Scripts \cup {Absent}]
  /\ phase = "idle"
  /\ info = <<>> /\ disk = <<>> /\ offset = 0 /\ taken = <<>>
  /\ output = Nothing /\ torn = FALSE
  /\ buffer = <<>> /\ entry = 1 /\ unpacked = [e \in 1 .. Entries |-> Absent]

(* At any moment. *)
Edit ==
  /\ \E e \in 1 .. Entries, s \in Scripts \cup {Absent} : dir' = [dir EXCEPT ![e] = s]
  /\ UNCHANGED <<needKey, phase, packing, archive, unpacking>>

-----------------------------------------------------------------------------
(* XOR with a byte of a key puts its lock on or takes it off. *)
Xor(locks, lock) == IF lock \in locks THEN locks \ {lock} ELSE locks \cup {lock}

decrypt_1(locks, k) == IF needKey THEN Xor(locks, <<"key", k % KeyLength>>) ELSE locks
decrypt_2(locks, k) == Xor(locks, <<"fixed", k % FixedLength>>)

(* CompressData: complen counts the header. *)
CompLen(s) == Size[s] + Header

(* The entry on disk: complen bytes with their locks, and another eight that
   are left of the output buffer. *)
Packed(s) == [n \in 1 .. CompLen(s) + Header |->
                IF n <= CompLen(s) THEN Byte(s, n - 1, decrypt_1(decrypt_2({}, n - 1), n - 1))
                                   ELSE Byte(s, n - 1, {})]

(* Mutant: the index of the pack before is kept. *)
FreshKeepingInfo == UNCHANGED info /\ disk' = <<>> /\ offset' = 0 /\ taken' = <<>>

(* The locals of CreateScenePck, at its start and when it has returned. *)
Fresh == info' = <<>> /\ disk' = <<>> /\ offset' = 0 /\ taken' = <<>>

Return == phase' = "idle" /\ Fresh /\ UNCHANGED <<needKey, dir, unpacking>>

BeginPack ==
  /\ phase = "idle"
  /\ Fresh
  /\ phase' = "pack"
  /\ UNCHANGED <<needKey, dir, archive, unpacking>>

(* Mutant: the offset counts only what the header promises. *)
StepWithoutHeader(s) == CompLen(s)

(* What disk_offset grows by. *)
Step(s) == CompLen(s) + Header

PackEntry ==
  /\ phase = "pack" /\ Len(taken) < Entries
  /\ LET s == dir[Len(taken) + 1] IN
     /\ s # Absent
     /\ info' = Append(info, [offset |-> offset, count |-> CompLen(s)])
     /\ disk' = disk \o Packed(s)
     /\ offset' = offset + Step(s)
     /\ taken' = Append(taken, s)
  /\ UNCHANGED <<needKey, dir, phase, archive, unpacking>>

(* Mutant: what was packed so far is written. *)
SkipRest == output' = [info |-> info, data |-> disk, of |-> taken] /\ UNCHANGED torn

KeepOutput == UNCHANGED archive

(* A script cannot be opened: nothing is written. *)
PackMissing ==
  /\ phase = "pack" /\ Len(taken) < Entries
  /\ dir[Len(taken) + 1] = Absent
  /\ KeepOutput
  /\ Return

(* All scripts are read: the file is emptied, or it cannot be opened. *)
CreateOutput ==
  /\ phase = "pack" /\ Len(taken) = Entries
  /\ \/ /\ output' = [info |-> <<>>, data |-> <<>>, of |-> taken] /\ torn' = TRUE
        /\ phase' = "write" /\ UNCHANGED <<needKey, dir, packing, unpacking>>
     \/ Return /\ UNCHANGED archive

(* What reaches the disk is a beginning of the header with the index and of
   the data behind it. *)
Written ==
  \E n \in 0 .. Len(info), m \in 0 .. Len(disk) :
    /\ m > 0 => n = Len(info)
    /\ output' = [info |-> SubSeq(info, 1, n), data |-> SubSeq(disk, 1, m), of |-> taken]
    /\ torn' = (n < Len(info) \/ m < Len(disk))

(* The two fwrites and fclose; a disk that is full is not noticed. *)
Write ==
  /\ phase = "write"
  /\ Written
  /\ Return

Unopened == buffer' = <<>> /\ entry' = 1 /\ unpacked' = [e \in 1 .. Entries |-> Absent]

(* The program is ended, perhaps while it writes, and started again. *)
Restart ==
  /\ IF phase = "write" THEN Written ELSE UNCHANGED archive
  /\ phase' = "idle" /\ Fresh /\ Unopened
  /\ UNCHANGED <<needKey, dir>>

-----------------------------------------------------------------------------
(* UnpackScene. *)

BeginUnpack ==
  /\ phase = "idle" /\ output # Nothing
  /\ buffer' = output.data /\ entry' = 1
  /\ unpacked' = [e \in 1 .. Entries |-> Absent]
  /\ phase' = "unpack"
  /\ UNCHANGED <<needKey, dir, packing, archive>>

(* The bytes of an entry, first those of its header. *)
InEntry(e, n) == output.info[e].offset < n /\ n <= output.info[e].offset + output.info[e].count

(* The archive is decrypted in place. *)
Decrypted(e) ==
  [n \in DOMAIN buffer |->
     IF InEntry(e, n)
     THEN [buffer[n] EXCEPT !.locks =
             decrypt_2(decrypt_1(@, n - output.info[e].offset - 1), n - output.info[e].offset - 1)]
     ELSE buffer[n]]

(* The script that the bytes decompress to, when they are its own, from the
   header on and without a lock.  Garbled stands for whatever else comes out. *)
IsScript(bytes, first, s) ==
  \A k \in 0 .. CompLen(s) - 1 : bytes[first + k + 1] = Byte(s, k, {})

Unpacked(bytes, first) ==
  IF bytes[first + 1].of \in Scripts /\ IsScript(bytes, first, bytes[first + 1].of)
  THEN bytes[first + 1].of ELSE Garbled

(* The entry is whole in the file. *)
Within(e) ==
  e <= Len(output.info) /\ output.info[e].offset + output.info[e].count <= Len(output.data)

(* One iteration; a file that cannot be created is passed over. *)
UnpackEntry ==
  /\ phase = "unpack" /\ entry <= Entries /\ Within(entry)
  /\ buffer' = Decrypted(entry)
  /\ \E s \in {Unpacked(buffer', output.info[entry].offset), Absent} :
       unpacked' = [unpacked EXCEPT ![entry] = s]
  /\ entry' = entry + 1
  /\ UNCHANGED <<needKey, dir, phase, packing, archive>>

(* An entry, or the index itself, that reaches beyond the buffer: nothing is
   checked, and the memory there decides what comes out.  The loop goes on, or
   EndUnpack ends it without memory or with an exception. *)
UnpackBeyond ==
  /\ phase = "unpack" /\ entry <= Entries /\ ~Within(entry)
  /\ IF entry <= Len(output.info) THEN buffer' = Decrypted(entry) ELSE UNCHANGED buffer
  /\ \E s \in {Garbled, Absent} : unpacked' = [unpacked EXCEPT ![entry] = s]
  /\ entry' = entry + 1
  /\ UNCHANGED <<needKey, dir, phase, packing, archive>>

EndUnpack ==
  /\ phase = "unpack" /\ (entry > Entries \/ ~Within(entry))
  /\ phase' = "idle" /\ Unopened
  /\ UNCHANGED <<needKey, dir, packing, archive>>

Next == \/ Edit \/ Restart
        \/ BeginPack \/ PackEntry \/ PackMissing \/ CreateOutput \/ Write
        \/ BeginUnpack \/ UnpackEntry \/ UnpackBeyond \/ EndUnpack

Spec == Init /\ [][Next]_vars

-----------------------------------------------------------------------------
(* Properties. *)

TypeOK ==
  /\ needKey \in BOOLEAN /\ torn \in BOOLEAN
  /\ phase \in {"idle", "pack", "write", "unpack"}
  /\ dir \in [1 .. Entries -> Scripts \cup {Absent}]
  /\ unpacked \in [1 .. Entries -> Scripts \cup {Absent, Garbled}]
  /\ offset \in Nat /\ entry \in Nat
  /\ taken \in Seq(Scripts) /\ info \in Seq([offset : Nat, count : Nat])
  /\ disk \in Seq(Bytes) /\ Len(info) = Len(taken)

(* The archive on disk holds every script of the game, each in bytes of its
   own, however often a pack stops half-way, cannot open its file or is ended
   before it writes; only a writing that is itself cut short leaves less. *)
ArchiveWhole ==
  output # Nothing /\ ~torn =>
    /\ Len(output.of) = Entries /\ Len(output.info) = Entries
    /\ \A e \in 1 .. Entries :
         output.info[e].offset + output.info[e].count <= Len(output.data)
    /\ \A e \in 1 .. Entries : \A f \in 1 .. e - 1 :
         output.info[f].offset + output.info[f].count <= output.info[e].offset

(* Unpacking an archive gives, entry by entry, the scripts it was packed from,
   whatever the user did to the directory in the meantime; of an archive that
   was cut short, those that lie before the cut. *)
RoundTrip ==
  phase = "unpack" =>
    \A e \in 1 .. entry - 1 :
      unpacked[e] # Absent /\ Within(e) => unpacked[e] = output.of[e]
=============================================================================
