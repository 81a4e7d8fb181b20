------------------------------ MODULE Ramdisk -------------------------------
(***************************************************************************)
(* The initial ramdisk: initrd/quasfs.c, which builds the image on the     *)
(* host, and src/initrd/quasfs.c with fs/file.c, which read it in the      *)
(* kernel.                                                                 *)
(*                                                                         *)
(* The builder opens every file twice, for its size and for its content;   *)
(* between the two the build may still be writing it.  A name is a value;  *)
(* addresses count from the start of the image, whose content begins after *)
(* the head and the headers.                                               *)
(***************************************************************************)
EXTENDS Integers, SequencesExt

CONSTANTS Names, Contents,      \* host files and what may be in them
          Argvs,                \* the command lines of the builder
          HeadSize, HeaderSize, \* sizeof(quasHead) and sizeof(quasHdr)
          Leftover,             \* a byte of memory that malloc returned
          Missing,              \* what fopen, quasfs_read and file_read return without the file
          MaxEdits              \* bound: how often files change during the build

ASSUME RamdiskAssumption ==
    /\ HeadSize \in Nat /\ HeaderSize \in Nat /\ MaxEdits \in Nat
    /\ Argvs \subseteq Seq(Names)
    /\ \A content \in Contents : content \in Seq(ToSet(content))
    /\ Missing \notin Contents /\ Missing \notin Nat

VARIABLES file,      \* the host's files, or Missing
          argv,      \* of the builder, without its own name
          headers,   \* name, address and size of each file
          data,      \* what is in the image after the headers
          copied,    \* how many files are
          stage,     \* of the build, then of the kernel
          edits      \* history: the files that changed, in order

ramdiskVars == <<file, argv, headers, data, copied, stage, edits>>

RamdiskInit ==
    /\ file \in [Names -> Contents \cup {Missing}]
    /\ argv \in Argvs
    /\ headers = <<>> /\ data = <<>> /\ copied = 0 /\ stage = "sizes" /\ edits = <<>>

-----------------------------------------------------------------------------
(* The builder.  A file that cannot be opened is a NULL stream.               *)
FirstAddress == HeadSize + HeaderSize * Len(argv)

AddHeader ==
    /\ stage = "sizes" /\ Len(headers) < Len(argv)
    /\ LET name == argv[Len(headers) + 1]
           end == IF headers = <<>> THEN FirstAddress ELSE Last(headers).address + Last(headers).size
       IN \/ /\ file[name] # Missing
             /\ headers' = Append(headers, [name |-> name, address |-> end, size |-> Len(file[name])])
             /\ UNCHANGED stage
          \/ file[name] = Missing /\ stage' = "crashed" /\ UNCHANGED headers
    /\ UNCHANGED <<file, argv, data, copied, edits>>

OpenImage ==
    /\ stage = "sizes" /\ Len(headers) = Len(argv)
    /\ stage' = "contents"
    /\ UNCHANGED <<file, argv, headers, data, copied, edits>>

(* fread into tmpBuf, and fwrite of the size the header has.               *)
WrittenBytes_OnlyRead(content, size) ==
    SubSeq(content, 1, IF size < Len(content) THEN size ELSE Len(content))
WrittenBytes(content, size) ==
    [i \in 1..size |-> IF i <= Len(content) THEN content[i] ELSE Leftover]

WriteFile ==
    /\ stage = "contents" /\ copied < Len(argv)
    /\ LET i == copied + 1
       IN \/ /\ file[argv[i]] # Missing
             /\ data' = data \o WrittenBytes(file[argv[i]], headers[i].size)
             /\ copied' = i
             /\ UNCHANGED stage
          \/ file[argv[i]] = Missing /\ stage' = "crashed" /\ UNCHANGED <<data, copied>>
    /\ UNCHANGED <<file, argv, headers, edits>>

CloseImage ==
    /\ stage = "contents" /\ copied = Len(argv)
    /\ stage' = "built"
    /\ UNCHANGED <<file, argv, headers, data, copied, edits>>

(* The rest of the build, at any time. *)
Edit ==
    /\ stage \in {"sizes", "contents"} /\ Len(edits) < MaxEdits
    /\ \E name \in Names, content \in Contents \cup {Missing} :
          /\ content # file[name]
          /\ file' = [file EXCEPT ![name] = content]
          /\ edits' = Append(edits, name)
    /\ UNCHANGED <<argv, headers, data, copied, stage>>

-----------------------------------------------------------------------------
(* The kernel's reader. *)
quasfs_init ==
    /\ stage = "built"
    /\ stage' = "booted"
    /\ UNCHANGED <<file, argv, headers, data, copied, edits>>

(* The first header with that name, 0 if there is none. *)
Entry(name) == SelectInSeq(headers, LAMBDA h : h.name = name)
quasfs_read(name) == IF Entry(name) = 0 THEN Missing ELSE headers[Entry(name)].address
quasfs_ftell(name) == IF Entry(name) = 0 THEN 0 ELSE headers[Entry(name)].size
quasfs_dir == [i \in DOMAIN headers |-> headers[i].name]
quasfs_get_entry_count == Len(headers)

(* What memcpy puts at buf, from memory that the image may end in; Missing *)
(* stands for the return value 1.                                          *)
Byte(address) ==
    IF address - FirstAddress + 1 \in DOMAIN data THEN data[address - FirstAddress + 1] ELSE Leftover
file_read(path) ==
    IF quasfs_read(path) = Missing THEN Missing
    ELSE [k \in 1..quasfs_ftell(path) |-> Byte(quasfs_read(path) + k - 1)]

Building == AddHeader \/ OpenImage \/ WriteFile \/ CloseImage \/ Edit \/ quasfs_init

RamdiskSpec == RamdiskInit /\ [][Building]_ramdiskVars

-----------------------------------------------------------------------------
(* Properties. *)
Unedited(name) == name \notin ToSet(edits)

(* Every file that did not change while the image was built reads back     *)
(* exactly, whatever happened to the files before and after it in the      *)
(* image; names that are not in the image are not found.                   *)
ReadBack ==
    stage = "booted" =>
        \A name \in Names :
            /\ (quasfs_read(name) = Missing) <=> (name \notin ToSet(argv))
            /\ name \in ToSet(argv) /\ Unedited(name) =>
                    /\ file_read(name) = file[name]
                    /\ quasfs_ftell(name) = Len(file[name])
=============================================================================
