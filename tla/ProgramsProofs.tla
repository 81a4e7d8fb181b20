--------------------------- MODULE ProgramsProofs ----------------------------
(***************************************************************************)
(* Proofs about cat, ls and hexdump and what they rest on: the initial     *)
(* ramdisk, for any files, any command line of the builder and any number  *)
(* of changes to the files during the build; printf, for any calls; and    *)
(* what the programs print, for any ramdisk and any file on it.            *)
(***************************************************************************)
EXTENDS Programs, SequenceTheorems, FiniteSetTheorems, WellFoundedInduction, TLAPS

Bytes == (UNION {ToSet(content) : content \in Contents}) \cup {Leftover}
Headers == [name : Names, address : Nat, size : Nat]

(* Where the content of the next file will start, i files being behind it. *)
End(i) == IF i = 0 THEN FirstAddress ELSE headers[i].address + headers[i].size

RamdiskTypeOK ==
    /\ file \in [Names -> Contents \cup {Missing}]
    /\ argv \in Seq(Names)
    /\ headers \in Seq(Headers) /\ data \in Seq(Bytes) /\ copied \in Nat
    /\ stage \in {"sizes", "contents", "crashed", "built", "booted"}
    /\ edits \in Seq(Names)

(* The headers follow the command line and lie end to end. *)
EndToEnd ==
    /\ Len(headers) <= Len(argv)
    /\ \A i \in 1..Len(headers) :
          /\ headers[i].name = argv[i]
          /\ headers[i].address = End(i - 1)

(* The size of a file that did not change is the right one. *)
RightSizes ==
    \A i \in 1..Len(headers) :
        Unedited(argv[i]) => file[argv[i]] # Missing /\ headers[i].size = Len(file[argv[i]])

(* What has been copied lies where the headers say. *)
Copied(i) ==
    /\ headers[i].address >= FirstAddress
    /\ headers[i].address + headers[i].size <= FirstAddress + Len(data)
    /\ Unedited(argv[i]) =>
          \A k \in 1..headers[i].size :
              data[headers[i].address - FirstAddress + k] = file[argv[i]][k]
InPlace ==
    /\ copied <= Len(headers)
    /\ FirstAddress + Len(data) = End(copied)
    /\ \A i \in 1..copied : Copied(i)

Staged ==
    /\ stage = "sizes" => copied = 0
    /\ stage \in {"contents", "built", "booted"} => Len(headers) = Len(argv)
    /\ stage \in {"built", "booted"} => copied = Len(argv)

Image == RamdiskTypeOK /\ EndToEnd /\ RightSizes /\ InPlace /\ Staged

-----------------------------------------------------------------------------
LEMMA Content ==
  ASSUME NEW content \in Contents
  PROVE  /\ content \in Seq(Bytes) /\ Len(content) \in Nat
         /\ DOMAIN content = 1..Len(content)
         /\ content = [k \in 1..Len(content) |-> content[k]]
<1>1. content \in Seq(ToSet(content))
  BY RamdiskAssumption DEF RamdiskAssumption
<1>2. ToSet(content) \subseteq Bytes
  BY DEF Bytes
<1>3. content \in Seq(Bytes)
  BY <1>1, <1>2, SeqMonotonic
<1> QED BY <1>3, LenProperties

LEMMA FirstIsNat == RamdiskTypeOK => FirstAddress \in Nat
<1> SUFFICES ASSUME RamdiskTypeOK PROVE FirstAddress \in Nat
  OBVIOUS
<1>1. HeadSize \in Nat /\ HeaderSize \in Nat /\ Len(argv) \in Nat
  BY RamdiskAssumption, LenProperties DEF RamdiskAssumption, RamdiskTypeOK
<1>2. \A a, b, c \in Nat : a + b * c \in Nat
  OBVIOUS
<1> QED BY <1>1, <1>2 DEF FirstAddress

LEMMA HeaderParts ==
  ASSUME RamdiskTypeOK, NEW i \in 1..Len(headers)
  PROVE  /\ headers[i].name \in Names /\ headers[i].address \in Nat /\ headers[i].size \in Nat
         /\ headers[i].address + headers[i].size \in Nat
<1>1. headers[i] \in Headers
  BY ElementOfSeq DEF RamdiskTypeOK
<1> QED BY <1>1 DEF Headers

-----------------------------------------------------------------------------
LEMMA InitImage == RamdiskInit => Image
<1> SUFFICES ASSUME RamdiskInit PROVE Image
  OBVIOUS
<1>1. RamdiskTypeOK
  BY RamdiskAssumption DEF RamdiskInit, RamdiskTypeOK, RamdiskAssumption
<1>2. Len(headers) = 0 /\ Len(data) = 0 /\ Len(argv) \in Nat
  BY <1>1, LenProperties DEF RamdiskInit, RamdiskTypeOK
<1>3. EndToEnd /\ RightSizes
  BY <1>2 DEF EndToEnd, RightSizes
<1>4. InPlace
  BY <1>1, <1>2, FirstIsNat DEF RamdiskInit, InPlace, End
<1> QED BY <1>1, <1>3, <1>4 DEF Image, Staged, RamdiskInit

(* A new header starts where the last one ends. *)
LEMMA AddHeaderImage == Image /\ AddHeader => Image'
<1> SUFFICES ASSUME Image, AddHeader PROVE Image'
  OBVIOUS
<1>0. RamdiskTypeOK /\ FirstAddress \in Nat /\ Len(headers) \in Nat /\ Len(argv) \in Nat
  BY FirstIsNat, LenProperties DEF Image, RamdiskTypeOK
<1> DEFINE n == Len(headers)
           name == argv[n + 1]
           end == IF headers = <<>> THEN FirstAddress ELSE Last(headers).address + Last(headers).size
           h == [name |-> name, address |-> end, size |-> Len(file[name])]
<1>1. CASE file[name] = Missing /\ stage' = "crashed" /\ UNCHANGED headers
  BY <1>1 DEF AddHeader, Image, RamdiskTypeOK, EndToEnd, End, RightSizes, Unedited, InPlace, Copied,
              FirstAddress, Staged
<1>2. CASE file[name] # Missing /\ headers' = Append(headers, h) /\ UNCHANGED stage
  <2>1. UNCHANGED <<file, argv, data, copied, edits, stage>> /\ stage = "sizes" /\ n < Len(argv)
    BY <1>2 DEF AddHeader
  <2>2. name \in Names
    BY <1>0, <2>1, ElementOfSeq DEF RamdiskTypeOK
  <2>3. file[name] \in Contents
    BY <1>0, <1>2, <2>2 DEF RamdiskTypeOK
  <2>4. end = End(n) /\ end \in Nat
    <3>1. CASE n = 0
      <4>1. headers = <<>>
        BY <1>0, <3>1, EmptySeq DEF RamdiskTypeOK
      <4> QED BY <1>0, <3>1, <4>1 DEF End
    <3>2. CASE n # 0
      <4>1. headers # <<>> /\ n \in 1..n
        BY <1>0, <3>2, EmptySeq DEF RamdiskTypeOK
      <4> QED BY <1>0, <3>2, <4>1, HeaderParts DEF End, Last
    <3> QED BY <3>1, <3>2
  <2>5. h \in Headers
    BY <2>2, <2>3, <2>4, Content DEF Headers
  <2>6. /\ headers' \in Seq(Headers) /\ Len(headers') = n + 1
        /\ headers'[n + 1] = h /\ \A i \in 1..n : headers'[i] = headers[i]
    BY <1>0, <1>2, <2>5, AppendProperties DEF RamdiskTypeOK
  <2>7. FirstAddress' = FirstAddress /\ \A i \in 0..n : End(i)' = End(i)
    BY <1>0, <2>1, <2>6 DEF End, FirstAddress
  <2>8. RamdiskTypeOK'
    BY <1>0, <2>1, <2>6 DEF RamdiskTypeOK
  <2>9. EndToEnd'
    <3> SUFFICES ASSUME NEW i \in 1..(n + 1)
                 PROVE  headers'[i].name = argv[i] /\ headers'[i].address = End(i - 1)'
      BY <1>0, <2>1, <2>6 DEF EndToEnd
    <3>1. CASE i = n + 1
      BY <1>0, <2>4, <2>6, <2>7, <3>1
    <3>2. CASE i \in 1..n
      BY <1>0, <2>6, <2>7, <3>2 DEF Image, EndToEnd
    <3> QED BY <1>0, <3>1, <3>2
  <2>10. RightSizes'
    <3> SUFFICES ASSUME NEW i \in 1..(n + 1), Unedited(argv[i])
                 PROVE  file[argv[i]] # Missing /\ headers'[i].size = Len(file[argv[i]])
      BY <2>1, <2>6 DEF RightSizes, Unedited
    <3>1. CASE i = n + 1
      BY <1>2, <2>6, <3>1
    <3>2. CASE i \in 1..n
      BY <2>6, <3>2 DEF Image, RightSizes
    <3> QED BY <1>0, <3>1, <3>2
  <2>11. copied = 0
    BY <2>1 DEF Image, Staged
  <2>12. InPlace'
    BY <1>0, <2>1, <2>6, <2>7, <2>11 DEF InPlace, Image, End
  <2>13. Staged'
    BY <2>1, <2>11 DEF Staged
  <2> QED BY <2>8, <2>9, <2>10, <2>12, <2>13 DEF Image
<1> QED BY <1>1, <1>2 DEF AddHeader

-----------------------------------------------------------------------------
LEMMA WrittenType ==
  ASSUME NEW content \in Contents, NEW size \in Nat
  PROVE  /\ WrittenBytes(content, size) \in Seq(Bytes)
         /\ Len(WrittenBytes(content, size)) = size
         /\ size = Len(content) => \A k \in 1..size : WrittenBytes(content, size)[k] = content[k]
<1> DEFINE W == WrittenBytes(content, size)
<1>1. ASSUME NEW k \in 1..size
      PROVE  (IF k <= Len(content) THEN content[k] ELSE Leftover) \in Bytes
  <2>1. CASE k <= Len(content)
    <3>1. content \in Seq(Bytes) /\ Len(content) \in Nat
      BY Content
    <3>2. k \in 1..Len(content)
      BY <2>1, <3>1
    <3> QED BY <2>1, <3>1, <3>2, ElementOfSeq
  <2>2. CASE ~(k <= Len(content))
    BY <2>2 DEF Bytes
  <2> QED BY <2>1, <2>2
<1>2. W = [k \in 1..size |-> IF k <= Len(content) THEN content[k] ELSE Leftover]
  BY DEF WrittenBytes
<1> HIDE DEF W
<1>3. W \in [1..size -> Bytes]
  BY <1>1, <1>2
<1>4. W \in Seq(Bytes)
  BY <1>3, IsASeq
<1>5. Len(W) = size
  BY <1>3, <1>4, LenProperties
<1>6. size = Len(content) => \A k \in 1..size : W[k] = content[k]
  BY <1>2, Content
<1> QED BY <1>4, <1>5, <1>6 DEF W

(* What is written goes where its header says, and moves nothing.          *)
LEMMA WriteFileImage == Image /\ WriteFile => Image'
<1> SUFFICES ASSUME Image, WriteFile PROVE Image'
  OBVIOUS
<1>0. /\ RamdiskTypeOK /\ FirstAddress \in Nat /\ Len(headers) \in Nat /\ Len(argv) \in Nat
      /\ Len(data) \in Nat /\ copied \in Nat
  BY FirstIsNat, LenProperties DEF Image, RamdiskTypeOK
<1> DEFINE i == copied + 1
           W == WrittenBytes(file[argv[i]], headers[i].size)
<1>1. CASE file[argv[i]] = Missing /\ stage' = "crashed" /\ UNCHANGED <<data, copied>>
  BY <1>1 DEF WriteFile, Image, RamdiskTypeOK, EndToEnd, End, RightSizes, Unedited, InPlace, Copied,
              FirstAddress, Staged
<1>2. CASE file[argv[i]] # Missing /\ data' = data \o W /\ copied' = i /\ UNCHANGED stage
  <2>1. /\ UNCHANGED <<file, argv, headers, edits, stage>> /\ stage = "contents"
        /\ i \in 1..Len(headers) /\ Len(headers) = Len(argv)
    BY <1>0, <1>2 DEF WriteFile, Image, Staged
  <2>2. argv[i] \in Names /\ file[argv[i]] \in Contents
    <3>1. argv[i] \in Names
      BY <1>0, <2>1, ElementOfSeq DEF RamdiskTypeOK
    <3> QED BY <1>0, <1>2, <3>1 DEF RamdiskTypeOK
  <2>3. headers[i].address \in Nat /\ headers[i].size \in Nat
    BY <1>0, <2>1, HeaderParts
  <2>4. /\ W \in Seq(Bytes) /\ Len(W) = headers[i].size
        /\ headers[i].size = Len(file[argv[i]]) =>
              \A k \in 1..headers[i].size : W[k] = file[argv[i]][k]
    BY <2>2, <2>3, WrittenType
  <2> HIDE DEF W
  <2>5. /\ data' \in Seq(Bytes) /\ Len(data') = Len(data) + headers[i].size
        /\ \A k \in 1..Len(data) : data'[k] = data[k]
        /\ \A k \in 1..headers[i].size : data'[Len(data) + k] = W[k]
    <3>1. /\ data \o W \in Seq(Bytes) /\ Len(data \o W) = Len(data) + Len(W)
          /\ \A k \in 1..(Len(data) + Len(W)) :
                (data \o W)[k] = IF k <= Len(data) THEN data[k] ELSE W[k - Len(data)]
      BY <1>0, <2>4, ConcatProperties DEF RamdiskTypeOK
    <3>2. \A k \in 1..headers[i].size :
              /\ Len(data) + k \in 1..(Len(data) + headers[i].size)
              /\ ~(Len(data) + k <= Len(data)) /\ Len(data) + k - Len(data) = k
      BY <1>0, <2>3
    <3> QED BY <1>0, <1>2, <2>3, <2>4, <3>1, <3>2
  <2>6. FirstAddress' = FirstAddress /\ (\A k \in Nat : End(k)' = End(k))
        /\ headers[i].address = FirstAddress + Len(data)
    <3>1. headers[i].address = End(copied)
      BY <1>0, <2>1 DEF Image, EndToEnd
    <3> QED BY <2>1, <3>1 DEF End, FirstAddress, Image, InPlace
  <2>7. RamdiskTypeOK'
    BY <1>0, <1>2, <2>1, <2>5 DEF RamdiskTypeOK
  <2>8. EndToEnd' /\ RightSizes'
    BY <2>1 DEF Image, EndToEnd, RightSizes, End, FirstAddress, Unedited
  <2>9. ASSUME NEW j \in 1..i
        PROVE  Copied(j)'
    <3>0. /\ j \in 1..Len(headers) /\ headers[j].address \in Nat /\ headers[j].size \in Nat
      <4>1. j \in 1..Len(headers)
        BY <1>0, <2>1
      <4> QED BY <1>0, <4>1, HeaderParts
    <3>1. CASE j \in 1..copied
      <4>1. Copied(j)
        BY <3>1 DEF Image, InPlace
      <4>2. \A k \in 1..headers[j].size : headers[j].address - FirstAddress + k \in 1..Len(data)
        BY <1>0, <3>0, <4>1, SMTT(30) DEF Copied
      <4>3. headers[j].address + headers[j].size <= FirstAddress + Len(data')
        <5>1. \A a, b, c, d \in Nat : a <= b + c => a <= b + (c + d)
          OBVIOUS
        <5>2. headers[j].address + headers[j].size \in Nat
          BY <3>0
        <5>3. headers[j].address + headers[j].size <= FirstAddress + Len(data)
          BY <4>1 DEF Copied
        <5>4. headers[j].address + headers[j].size <= FirstAddress + (Len(data) + headers[i].size)
          BY <1>0, <2>3, <5>1, <5>2, <5>3
        <5> QED BY <2>5, <5>4
      <4> QED BY <2>1, <2>5, <2>6, <4>1, <4>2, <4>3 DEF Copied, Unedited
    <3>2. CASE j = i
      <4>1. headers[i].address - FirstAddress = Len(data)
        BY <1>0, <2>3, <2>6
      <4>2. /\ headers[i].address >= FirstAddress
            /\ headers[i].address + headers[i].size <= FirstAddress + Len(data')
        BY <1>0, <2>3, <2>5, <2>6
      <4>3. Unedited(argv[i]) => headers[i].size = Len(file[argv[i]])
        BY <2>1 DEF Image, RightSizes
      <4> QED BY <2>1, <2>4, <2>5, <2>6, <3>2, <4>1, <4>2, <4>3 DEF Copied, Unedited
    <3> QED BY <1>0, <3>1, <3>2
  <2>10. FirstAddress + Len(data') = End(i)
    BY <1>0, <2>3, <2>5, <2>6 DEF End
  <2>11. InPlace'
    BY <1>0, <1>2, <2>1, <2>6, <2>9, <2>10 DEF InPlace
  <2>12. Staged'
    BY <2>1 DEF Staged
  <2> QED BY <2>7, <2>8, <2>11, <2>12 DEF Image
<1> QED BY <1>1, <1>2 DEF WriteFile

-----------------------------------------------------------------------------
(* A file that changes is no longer an unedited one. *)
LEMMA EditImage == Image /\ Edit => Image'
<1> SUFFICES ASSUME Image, Edit PROVE Image'
  OBVIOUS
<1>1. PICK name \in Names, content \in Contents \cup {Missing} :
          file' = [file EXCEPT ![name] = content] /\ edits' = Append(edits, name)
  BY DEF Edit
<1>2. UNCHANGED <<argv, headers, data, copied, stage>>
  BY DEF Edit
<1>3. RamdiskTypeOK
  BY DEF Image
<1>4. RamdiskTypeOK'
  BY <1>1, <1>2, <1>3, AppendProperties DEF RamdiskTypeOK
<1>5. ASSUME NEW other \in Names, Unedited(other)'
      PROVE  Unedited(other) /\ file'[other] = file[other]
  <2>1. /\ Len(edits') = Len(edits) + 1 /\ Len(edits) \in Nat
        /\ edits'[Len(edits) + 1] = name /\ \A i \in 1..Len(edits) : edits'[i] = edits[i]
        /\ DOMAIN edits = 1..Len(edits) /\ DOMAIN edits' = 1..Len(edits')
    BY <1>1, <1>3, <1>4, AppendProperties, LenProperties DEF RamdiskTypeOK
  <2>2. other # name
    BY <1>5, <2>1 DEF Unedited, ToSet
  <2>3. Unedited(other)
    BY <1>5, <2>1 DEF Unedited, ToSet
  <2> QED BY <1>1, <1>3, <2>2, <2>3 DEF RamdiskTypeOK
<1>6. \A i \in 1..Len(headers) : argv[i] \in Names
  <2>1. Len(headers) \in Nat /\ Len(argv) \in Nat /\ Len(headers) <= Len(argv)
    BY <1>3, LenProperties DEF RamdiskTypeOK, Image, EndToEnd
  <2>2. \A i \in 1..Len(headers) : i \in 1..Len(argv)
    BY <2>1
  <2> QED BY <1>3, <2>2, ElementOfSeq DEF RamdiskTypeOK
<1>7. EndToEnd' /\ Staged'
  BY <1>2 DEF Image, EndToEnd, End, FirstAddress, Staged
<1>8. RightSizes'
  BY <1>2, <1>5, <1>6 DEF Image, RightSizes
<1>9. InPlace'
  <2>1. ASSUME NEW i \in 1..copied PROVE Copied(i)'
    <3>1. Copied(i) /\ i \in 1..Len(headers)
      BY <1>3, LenProperties DEF Image, InPlace, RamdiskTypeOK
    <3> QED BY <1>2, <1>5, <1>6, <3>1 DEF Copied, FirstAddress
  <2> QED BY <1>2, <2>1 DEF Image, InPlace, End, FirstAddress
<1> QED BY <1>4, <1>7, <1>8, <1>9 DEF Image

LEMMA OtherImage == Image /\ (OpenImage \/ CloseImage \/ quasfs_init \/ UNCHANGED ramdiskVars) => Image'
<1> SUFFICES ASSUME Image, OpenImage \/ CloseImage \/ quasfs_init \/ UNCHANGED ramdiskVars
             PROVE  Image'
  OBVIOUS
<1>1. UNCHANGED <<file, argv, headers, data, copied, edits>>
  BY DEF OpenImage, CloseImage, quasfs_init, ramdiskVars
<1>2. Staged' /\ RamdiskTypeOK'
  BY DEF Image, Staged, RamdiskTypeOK, OpenImage, CloseImage, quasfs_init, ramdiskVars
<1>3. EndToEnd' /\ RightSizes' /\ InPlace'
  BY <1>1 DEF Image, EndToEnd, RightSizes, InPlace, Copied, End, FirstAddress, Unedited
<1> QED BY <1>2, <1>3 DEF Image

-----------------------------------------------------------------------------
(* The reader's search ends at a header with the name, if there is one.    *)
LEMMA EntryFound ==
  ASSUME RamdiskTypeOK, NEW name
  PROVE  \/ Entry(name) = 0 /\ \A i \in 1..Len(headers) : headers[i].name # name
         \/ Entry(name) \in 1..Len(headers) /\ headers[Entry(name)].name = name
<1> DEFINE I == {i \in 1..Len(headers) : headers[i].name = name}
<1>1. Entry(name) = IF I # {} THEN Min(I) ELSE 0
  BY DEF Entry, SelectInSeq
<1>2. CASE I = {}
  BY <1>1, <1>2
<1>3. CASE I # {}
  <2>1. I \subseteq Nat
    BY LenProperties DEF RamdiskTypeOK
  <2>2. PICK least \in I : \A i \in I : <<i, least>> \notin OpToRel(<, Nat)
    BY <1>3, <2>1, WFMin, NatLessThanWellFounded
  <2>3. ASSUME NEW i \in I PROVE least <= i
    <3>1. i \in Nat /\ least \in Nat /\ <<i, least>> \notin OpToRel(<, Nat)
      BY <2>1, <2>2
    <3>2. ~(i < least)
      BY <3>1 DEF OpToRel
    <3>3. \A a, b \in Nat : ~(a < b) => b <= a
      OBVIOUS
    <3> QED BY <3>1, <3>2, <3>3
  <2>4. Min(I) \in I
    BY <2>3 DEF Min
  <2> QED BY <1>1, <1>3, <2>4
<1> QED BY <1>2, <1>3

(* The k-th byte of a file whose bytes lie in the image is one of its.     *)
LEMMA WithinData ==
  ASSUME NEW b \in Nat, NEW s \in Nat, NEW first \in Nat, NEW n \in Nat, NEW k \in 1..s,
         b >= first, b + s <= first + n
  PROVE  b - first + k \in 1..n
  OBVIOUS

LEMMA ImageReadsBack == Image => ReadBack
<1> SUFFICES ASSUME Image, stage = "booted", NEW name \in Names
             PROVE  /\ (quasfs_read(name) = Missing) <=> (name \notin ToSet(argv))
                    /\ name \in ToSet(argv) /\ Unedited(name) =>
                            file_read(name) = file[name] /\ quasfs_ftell(name) = Len(file[name])
  BY DEF ReadBack
<1>1. /\ RamdiskTypeOK /\ Len(headers) = Len(argv) /\ copied = Len(argv)
      /\ Len(argv) \in Nat /\ Len(data) \in Nat /\ DOMAIN argv = 1..Len(argv)
      /\ DOMAIN data = 1..Len(data) /\ FirstAddress \in Nat
  BY FirstIsNat, LenProperties DEF Image, Staged, RamdiskTypeOK
<1>2. \A i \in 1..Len(headers) : headers[i].name = argv[i]
  BY DEF Image, EndToEnd
<1>3. CASE Entry(name) = 0 /\ \A i \in 1..Len(headers) : headers[i].name # name
  <2>1. name \notin ToSet(argv)
    BY <1>1, <1>2, <1>3 DEF ToSet
  <2> QED BY <1>3, <2>1 DEF quasfs_read
<1>4. CASE Entry(name) \in 1..Len(headers) /\ headers[Entry(name)].name = name
  <2> DEFINE e == Entry(name)
             size == headers[e].size
             base == headers[e].address
  <2>1. argv[e] = name /\ name \in ToSet(argv)
    BY <1>1, <1>2, <1>4 DEF ToSet
  <2>2. base \in Nat /\ size \in Nat
    BY <1>1, <1>4, HeaderParts
  <2>3. quasfs_read(name) = base /\ quasfs_ftell(name) = size /\ base # Missing
    BY <1>4, <2>2, RamdiskAssumption DEF quasfs_read, quasfs_ftell, RamdiskAssumption
  <2>4. ASSUME Unedited(name)
        PROVE  file_read(name) = file[name] /\ size = Len(file[name])
    <3>1. Copied(e) /\ file[name] # Missing /\ size = Len(file[name])
      BY <1>1, <1>4, <2>1, <2>4 DEF Image, InPlace, RightSizes
    <3>2. file[name] \in Contents
      BY <1>1, <3>1 DEF RamdiskTypeOK
    <3>3. file[name] = [k \in 1..size |-> file[name][k]]
      BY <3>1, <3>2, Content
    <3> HIDE DEF e
    <3>4. ASSUME NEW k \in 1..size
          PROVE  Byte(base + k - 1) = file[name][k]
      <4>1. base + k - 1 - FirstAddress + 1 = base - FirstAddress + k
        BY <1>1, <2>2, SMTT(30)
      <4>2. base - FirstAddress + k \in 1..Len(data)
        <5>1. base >= FirstAddress /\ base + size <= FirstAddress + Len(data)
          BY <3>1 DEF Copied
        <5> HIDE DEF base, size
        <5> QED BY <1>1, <2>2, <5>1, WithinData
      <4>3. data[base - FirstAddress + k] = file[name][k]
        BY <2>1, <2>4, <3>1 DEF Copied
      <4>4. base - FirstAddress + k \in DOMAIN data
        BY <1>1, <4>2
      <4>5. Byte(base + k - 1) = data[base - FirstAddress + k]
        <5> DEFINE address == base + k - 1
                   place == base - FirstAddress + k
        <5>1. place \in DOMAIN data
          BY <4>4
        <5>2. address - FirstAddress + 1 = place
          BY <1>1, <2>2
        <5> HIDE DEF address, place
        <5>3. Byte(address) = data[place]
          BY <5>1, <5>2 DEF Byte
        <5> QED BY <5>3 DEF address, place
      <4> QED BY <4>3, <4>5
    <3>5. file_read(name) = [k \in 1..size |-> Byte(base + k - 1)]
      BY <2>3 DEF file_read
    <3> QED BY <3>1, <3>3, <3>4, <3>5
  <2> QED BY <2>1, <2>3, <2>4
<1> QED BY <1>1, <1>3, <1>4, EntryFound

(* Whatever else happens while the image is built, a file that did not     *)
(* change reads back in the kernel as it was on the host (both quasfs.c,   *)
(* file.c), and a name that is not in the image is not found.              *)
THEOREM RamdiskReadsBack == RamdiskSpec => []ReadBack
<1>1. Image /\ [Building]_ramdiskVars => Image'
  BY AddHeaderImage, WriteFileImage, EditImage, OtherImage DEF Building
<1> QED BY <1>1, InitImage, ImageReadsBack, PTL DEF RamdiskSpec

-----------------------------------------------------------------------------
(* printf: induction over the naturals, and iterations over a set.         *)

(* A set of naturals that is not empty has a least member.                 *)
LEMMA Least == ASSUME NEW T, T \subseteq Nat, T # {}
               PROVE  \E n \in T : \A k \in T : n <= k
<1> DEFINE I == {0..n : n \in T}
<1>1. \A n \in T : IsFiniteSet(0..n)
  BY FS_Interval
<1>2. I \subseteq FiniteSubsetsOf(Nat) /\ I # {}
  <2>1. \A n \in T : 0..n \in SUBSET Nat
    OBVIOUS
  <2>2. I # {}
    OBVIOUS
  <2> QED BY <1>1, <2>1, <2>2 DEF FiniteSubsetsOf
<1>3. IsWellFoundedOn(StrictSubsetOrdering(Nat), FiniteSubsetsOf(Nat))
  BY FS_StrictSubsetOrderingWellFounded
<1>4. PICK J \in I : \A y \in I : ~(<<y, J>> \in StrictSubsetOrdering(Nat))
  <2> HIDE DEF I
  <2> QED BY <1>2, <1>3, WFMin
<1>5. PICK n \in T : J = 0..n
  BY <1>4
<1>6. \A k \in T : n <= k
  <2> SUFFICES ASSUME NEW k \in T, k < n PROVE FALSE
    OBVIOUS
  <2>1. 0..k \in I /\ (0..k) \subseteq (0..n) /\ 0..k # 0..n
    BY <1>5
  <2>2. <<0..k, J>> \in StrictSubsetOrdering(Nat)
    BY <2>1, <1>5 DEF StrictSubsetOrdering
  <2> QED BY <2>1, <2>2, <1>4
<1> QED BY <1>6

(* Induction over the naturals, by the set of those it reached.            *)
LEMMA SetInduction == ASSUME NEW T, T \subseteq Nat, 0 \in T, \A n \in T : n + 1 \in T
                      PROVE  T = Nat
<1> SUFFICES ASSUME Nat \ T # {} PROVE FALSE
  OBVIOUS
<1>1. PICK n \in Nat \ T : \A k \in Nat \ T : n <= k
  <2> HIDE DEF Nat
  <2>1. Nat \ T \subseteq Nat OBVIOUS
  <2> QED BY <2>1, Least
<1>2. n - 1 \in Nat
  BY <1>1
<1>3. n - 1 \in T
  BY <1>1, <1>2
<1> QED BY <1>1, <1>3

(* Steps of an iteration over S_, and the sequence of its results.         *)
Steps(S_, N) == [S_ \X (1..N) -> S_]
IsRun(f, S_, s0, N, g) ==
    /\ f \in [0..N -> S_] /\ f[0] = s0
    /\ \A n \in 1..N : f[n] = g[<< f[n - 1], n >>]

(* A definition by recursion over 0..N has a solution. *)
LEMMA Iteration ==
  ASSUME NEW S_, NEW s0 \in S_, NEW N \in Nat, NEW g \in Steps(S_, N)
  PROVE  \E f : IsRun(f, S_, s0, N, g)
<1> USE DEF Steps
<1> DEFINE P(f, k) == /\ f \in [0..k -> S_] /\ f[0] = s0 
                      /\ \A n \in 1..k : f[n] = g[<<f[n - 1], n>>]
           T == {k \in Nat : k <= N => \E f \in [0..k -> S_] : P(f, k)}
<1>1. 0 \in T
  <2> [n \in 0..0 |-> s0] \in [0..0 -> S_]
    OBVIOUS
  <2> P([n \in 0..0 |-> s0], 0)
    OBVIOUS
  <2> QED OBVIOUS
<1>2. ASSUME NEW k \in T PROVE k + 1 \in T
  <2> SUFFICES ASSUME k + 1 <= N PROVE \E f \in [0..(k + 1) -> S_] : P(f, k + 1)
    OBVIOUS
  <2>1. PICK f \in [0..k -> S_] : P(f, k)
    OBVIOUS
  <2> DEFINE h == [n \in 0..(k + 1) |-> IF n <= k THEN f[n] ELSE g[<<f[k], k + 1>>]]
  <2>2. <<f[k], k + 1>> \in S_ \X (1..N)
    BY <2>1
  <2>3. h \in [0..(k + 1) -> S_]
    BY <2>1, <2>2
  <2>4. ASSUME NEW n \in 1..(k + 1) PROVE h[n] = g[<<h[n - 1], n>>]
    <3>1. n - 1 \in 0..(k + 1) /\ n - 1 <= k /\ h[n - 1] = f[n - 1]
      OBVIOUS
    <3>2. CASE n <= k
      <4>1. n \in 1..k /\ h[n] = f[n]
        BY <3>2
      <4> HIDE DEF h
      <4> QED BY <4>1, <3>1, <2>1
    <3>3. CASE n = k + 1
      <4>1. h[n] = g[<<f[k], k + 1>>] /\ n - 1 = k
        BY <3>3
      <4> HIDE DEF h
      <4> QED BY <4>1, <3>1, <3>3
    <3>4. n <= k \/ n = k + 1
      OBVIOUS
    <3> QED BY <3>2, <3>3, <3>4
  <2>5. h[0] = s0
    BY <2>1
  <2> HIDE DEF h
  <2> QED BY <2>3, <2>4, <2>5
<1>3. T = Nat
  <2> HIDE DEF T
  <2>1. T \subseteq Nat BY DEF T
  <2> QED BY <1>1, <1>2, <2>1, SetInduction
<1>4. N \in T
  BY <1>3
<1> QED BY <1>4 DEF IsRun

-----------------------------------------------------------------------------
(* The characters of texts and calls: any but NUL.                         *)
CONSTANTS Letter,   \* the characters but NUL
          Calls     \* the calls that are made
Signs == {Numeral[i] : i \in 1..16} \cup {Capital[i] : i \in 1..16}
            \cup {" ", "-", "+", "x", "X", "b", "(", ")", "n", "i", "l", "u"}
Alphabet == "NUL" \notin Letter /\ Signs \subseteq Letter
Letters == Seq(Letter)
Nums == {Numeral, Capital}

LEMMA Numerals ==
  ASSUME NEW s \in Nums, Alphabet PROVE \A i \in 1..16 : s[i] \in Letter
  BY DEF Nums, Alphabet, Signs

LEMMA InAlphabet ==
  ASSUME Alphabet
  PROVE  {"0", " ", "-", "+", "x", "X", "b", "(", ")", "n", "i", "l", "u"} \subseteq Letter
<1>1. Numeral[1] = "0"
  BY DEF Numeral
<1>2. "0" \in Signs
  BY <1>1 DEF Signs
<1> QED BY <1>2 DEF Alphabet, Signs

LEMMA One == ASSUME NEW c \in Letter PROVE << c >> \in Letters
  BY DEF Letters

LEMMA Concat == ASSUME NEW s \in Letters, NEW t \in Letters PROVE s \o t \in Letters
  BY ConcatProperties DEF Letters

LEMMA LettersType == ASSUME NEW s \in Letters PROVE Len(s) \in Nat /\ \A i \in 1..Len(s) : s[i] \in Letter
  BY DEF Letters

LEMMA Piece ==
  ASSUME NEW s \in Letters, NEW m \in 1..(Len(s) + 1), NEW n \in 0..Len(s)
  PROVE  SubSeq(s, m, n) \in Letters /\ Len(SubSeq(s, m, n)) = IF m <= n THEN n - m + 1 ELSE 0
<1>1. Len(s) \in Nat /\ \A i \in 1..Len(s) : s[i] \in Letter
  BY LettersType
<1>2. m \in Int /\ n \in Int /\ \A i \in m..n : s[i] \in Letter
  BY <1>1
<1> QED BY <1>2, SubSeqProperties DEF Letters

LEMMA CopiesLetters == ASSUME NEW n \in Int, NEW c \in Letter PROVE Copies(n, c) \in Letters
<1>1. CASE n < 0
  BY <1>1 DEF Copies, Letters
<1>2. CASE n >= 0
  <2>1. Copies(n, c) = [i \in 1..n |-> c] /\ n \in Nat
    BY <1>2 DEF Copies
  <2> QED BY <2>1, IsASeq DEF Letters
<1> QED BY <1>1, <1>2

LEMMA Cut ==
  ASSUME NEW s \in Letters, NEW n \in Int, n >= 0
  PROVE  SubSeq(s, 1, AtMost(Len(s), n)) \in Letters
<1>1. Len(s) \in Nat
  BY LettersType
<1>2. AtMost(Len(s), n) \in 0..Len(s) /\ 1 \in 1..(Len(s) + 1)
  BY <1>1 DEF AtMost
<1> QED BY <1>2, Piece

LEMMA RoomLetters == ASSUME NEW s \in Letters, NEW t \in Letters PROVE Room(s, t) \in Letters
<1>1. s \o t \in Letters
  BY Concat
<1>2. PRINTF_INTEGER_BUFFER_SIZE \in Int /\ PRINTF_INTEGER_BUFFER_SIZE >= 0
  BY FormatAssumption DEF FormatAssumption
<1> HIDE DEF Letters
<1> QED BY <1>1, <1>2, Cut DEF Room

LEMMA ZeroPadLetters ==
  ASSUME Alphabet, NEW s \in Letters, NEW n \in Int PROVE ZeroPad(s, n) \in Letters
<1>1. "0" \in Letter /\ n - Len(s) \in Int
  <2>1. Len(s) \in Nat
    BY LettersType
  <2>2. "0" \in Letter
    BY InAlphabet
  <2> QED BY <2>1, <2>2
<1>2. Copies(n - Len(s), "0") \in Letters
  BY <1>1, CopiesLetters
<1> QED BY <1>2, RoomLetters DEF ZeroPad

LEMMA ReverseLetters == ASSUME NEW s \in Letters PROVE Reverse(s) \in Letters
<1>1. Len(s) \in Nat /\ \A i \in 1..Len(s) : s[i] \in Letter
  BY LettersType
<1>2. \A i \in 1..Len(s) : (Len(s) - i) + 1 \in 1..Len(s)
  BY <1>1
<1>3. \A i \in 1..Len(s) : s[(Len(s) - i) + 1] \in Letter
  BY <1>1, <1>2
<1> QED BY <1>1, <1>3, IsASeq DEF Letters, Reverse

LEMMA OutLetters ==
  ASSUME Alphabet, NEW s \in Letters, NEW width \in Int, NEW flags
  PROVE  out_rev_(s, width, flags) \in Letters
<1> DEFINE fill == Copies(width - Len(s), " ")
<1>1. fill \in Letters /\ Reverse(s) \in Letters
  <2>1. Len(s) \in Nat
    BY LettersType
  <2>2. " " \in Letter
    BY InAlphabet
  <2>3. width - Len(s) \in Int
    BY <2>1
  <2> QED BY <2>2, <2>3, CopiesLetters, ReverseLetters
<1>2. fill \o Reverse(s) \in Letters /\ Reverse(s) \o fill \in Letters
  BY <1>1, Concat
<1> HIDE DEF fill
<1> DEFINE E == {"-", "0"} \cap flags
<1>3. out_rev_(s, width, flags) = CASE "-" \in flags -> Reverse(s) \o fill
                                   [] E = {} -> fill \o Reverse(s)
                                   [] E = {"0"} -> Reverse(s)
  BY DEF out_rev_, fill
<1>4. /\ "-" \in flags => E # {} /\ E # {"0"}
      /\ "-" \notin flags /\ "0" \notin flags => E = {}
      /\ "-" \notin flags /\ "0" \in flags => E = {"0"}
      /\ {} # {"0"}
  OBVIOUS
<1> HIDE DEF E
<1>5. \/ out_rev_(s, width, flags) = Reverse(s) \o fill
      \/ out_rev_(s, width, flags) = fill \o Reverse(s)
      \/ out_rev_(s, width, flags) = Reverse(s)
  BY <1>3, <1>4
<1> QED BY <1>1, <1>2, <1>5

LEMMA PrefixLetters == ASSUME Alphabet, NEW base, NEW flags PROVE Prefix(base, flags) \in Letters
<1>1. << "X" >> \in Letters /\ << "x" >> \in Letters /\ << "b" >> \in Letters /\ << >> \in Letters
  <2>1. "X" \in Letter /\ "x" \in Letter /\ "b" \in Letter
    BY InAlphabet
  <2> QED BY <2>1, One, EmptySeq DEF Letters
<1> HIDE DEF Letters
<1> QED BY <1>1 DEF Prefix

LEMMA SignLetters == ASSUME Alphabet, NEW negative \in BOOLEAN, NEW flags PROVE SignOf(negative, flags) \in Letters
<1>1. << "-" >> \in Letters /\ << "+" >> \in Letters /\ << " " >> \in Letters /\ << >> \in Letters
  <2>1. "-" \in Letter /\ "+" \in Letter /\ " " \in Letter
    BY InAlphabet
  <2> QED BY <2>1, One, EmptySeq DEF Letters
<1> HIDE DEF Letters
<1> QED BY <1>1 DEF SignOf

(* The digits of a number, one division at a time.                         *)
LEMMA DivisionNat == ASSUME NEW a \in Nat, NEW n \in Nat \ {0} PROVE a \div n \in Nat /\ a % n \in 0..(n - 1)
<1>1. a \div n \in Int /\ a % n \in 0..(n - 1)
  OBVIOUS
<1>2. a \div n >= 0
  OBVIOUS
<1> QED BY <1>1, <1>2

(* The quotients that give a number's digits.                             *)
Quotients(rest, value, base, numerals) ==
    /\ rest[0] = value /\ \A n \in 1..LongBits : rest[n] = rest[n - 1] \div base
    /\ \A n \in 0..LongBits : rest[n] \in Nat
    /\ Digits(value, base, numerals) =
         [n \in 1..Cardinality({n \in 1..LongBits : n = 1 \/ rest[n - 1] # 0}) |->
             numerals[(rest[n - 1] % base) + 1]]

LEMMA DigitsRest ==
  ASSUME NEW value \in Nat, NEW base \in {2, 8, 10, 16}, NEW numerals
  PROVE  \E rest : Quotients(rest, value, base, numerals)
<1> DEFINE N == LongBits
           q == [n \in Nat |-> n \div base]
           Eq(f) == f = [n \in 0..N |-> IF n = 0 THEN value ELSE f[n - 1] \div base]
           rest == CHOOSE f : Eq(f)
           g == [x \in Nat \X (1..N) |-> q[x[1]]]
           K == {n \in 1..N : n = 1 \/ rest[n - 1] # 0}
           count == Cardinality(K)
<1>1. N \in Nat
  BY FormatAssumption DEF FormatAssumption
<1>2. base \in Nat \ {0} /\ base - 1 \in 0..15
  OBVIOUS
<1>3. q \in [Nat -> Nat] /\ \A n \in Nat : q[n] = n \div base
  BY <1>2, DivisionNat
<1> HIDE DEF q
<1>4. g \in Steps(Nat, N)
  BY <1>3 DEF Steps
<1>5. PICK f : IsRun(f, Nat, value, N, g)
  <2> HIDE DEF g, N
  <2> QED BY <1>1, <1>4, Iteration
<1>6. f \in [0..N -> Nat] /\ f[0] = value /\ \A n \in 1..N : f[n] = f[n - 1] \div base
  <2>1. f \in [0..N -> Nat] /\ f[0] = value /\ \A n \in 1..N : f[n] = g[<< f[n - 1], n >>]
    BY <1>5 DEF IsRun
  <2>2. \A n \in 1..N : f[n - 1] \in Nat
    BY <1>1, <2>1
  <2>3. \A n \in 1..N : g[<< f[n - 1], n >>] = q[f[n - 1]]
    BY <2>2
  <2>4. \A n \in 1..N : q[f[n - 1]] = f[n - 1] \div base
    BY <1>3, <2>2
  <2> HIDE DEF g
  <2> QED BY <2>1, <2>3, <2>4
<1>7. Eq(f)
  <2> DEFINE body(n) == IF n = 0 THEN value ELSE f[n - 1] \div base
  <2>1. \A n \in 0..N : n = 0 \/ n \in 1..N
    BY <1>1
  <2>2. \A n \in 0..N : f[n] = body(n)
    BY <1>6, <2>1
  <2> HIDE DEF body
  <2>3. f = [n \in 0..N |-> body(n)]
    BY <1>6, <2>2
  <2> QED BY <2>3 DEF body
<1>8. Eq(rest)
  <2> HIDE DEF Eq
  <2> QED BY <1>7
<1>9. Digits(value, base, numerals) = [n \in 1..count |-> numerals[(rest[n - 1] % base) + 1]]
  BY DEF Digits
<1> HIDE DEF rest
<1>10. rest[0] = value /\ \A n \in 1..N : rest[n] = rest[n - 1] \div base
  <2> HIDE DEF N
  <2>1. \A n \in 0..N : rest[n] = IF n = 0 THEN value ELSE rest[n - 1] \div base
    <3> DEFINE body(n) == IF n = 0 THEN value ELSE rest[n - 1] \div base
    <3>1. rest = [n \in 0..N |-> body(n)]
      BY <1>8
    <3> HIDE DEF body
    <3>2. \A n \in 0..N : rest[n] = body(n)
      BY <3>1
    <3> QED BY <3>2 DEF body
  <2> HIDE DEF Eq
  <2>2. 0 \in 0..N /\ \A n \in 1..N : n \in 0..N /\ n # 0
    BY <1>1
  <2> QED BY <2>1, <2>2
<1> HIDE DEF Eq, g
<1>11. \A n \in 0..N : rest[n] \in Nat
  <2> HIDE DEF N
  <2> DEFINE T == {n \in Nat : n <= N => rest[n] \in Nat}
  <2>1. 0 \in T
    BY <1>10
  <2>2. ASSUME NEW n \in T PROVE n + 1 \in T
    <3> SUFFICES ASSUME n + 1 <= N PROVE rest[n + 1] \in Nat
      OBVIOUS
    <3>1. n \in Nat /\ rest[n] \in Nat /\ n + 1 \in 1..N /\ n + 1 - 1 = n
      BY <1>1
    <3> HIDE DEF T
    <3>2. rest[n + 1] = rest[n] \div base
      <4>1. rest[n + 1] = rest[n + 1 - 1] \div base
        BY <1>10, <3>1
      <4> QED BY <3>1, <4>1
    <3> QED BY <1>2, <3>1, <3>2, DivisionNat
  <2>3. T = Nat
    <3>1. T \subseteq Nat
      OBVIOUS
    <3> HIDE DEF T
    <3> QED BY <2>1, <2>2, <3>1, SetInduction
  <2> QED BY <1>1, <2>3
<1> HIDE DEF N
<1>12. \E r : /\ r[0] = value /\ \A n \in 1..N : r[n] = r[n - 1] \div base
              /\ \A n \in 0..N : r[n] \in Nat
              /\ Digits(value, base, numerals) =
                   [n \in 1..Cardinality({n \in 1..N : n = 1 \/ r[n - 1] # 0}) |->
                       numerals[(r[n - 1] % base) + 1]]
  BY <1>9, <1>10, <1>11
<1> QED BY <1>12 DEF N, Quotients

LEMMA DigitsLetters ==
  ASSUME Alphabet, NEW value \in Nat, NEW base \in {2, 8, 10, 16}, NEW numerals \in Nums
  PROVE  Digits(value, base, numerals) \in Letters
<1> DEFINE N == LongBits
<1>1. N \in Nat
  BY FormatAssumption DEF FormatAssumption
<1>2. base \in Nat \ {0} /\ base - 1 \in 0..15
  OBVIOUS
<1>8. PICK rest : Quotients(rest, value, base, numerals)
  BY DigitsRest
<1> DEFINE K == {n \in 1..N : n = 1 \/ rest[n - 1] # 0}
           count == Cardinality(K)
<1>9. Digits(value, base, numerals) = [n \in 1..count |-> numerals[(rest[n - 1] % base) + 1]]
  BY <1>8 DEF Quotients
<1>11. \A n \in 0..N : rest[n] \in Nat
  BY <1>8 DEF Quotients
<1>12. count \in 0..N
  <2>1. IsFiniteSet(1..N) /\ Cardinality(1..N) = N
    <3>1. 1 \in Int /\ N \in Int
      BY <1>1
    <3> QED BY <1>1, <3>1, FS_Interval
  <2>2. K \subseteq 1..N
    OBVIOUS
  <2> HIDE DEF K, N
  <2>3. count \in Nat /\ count <= N
    BY <2>1, <2>2, FS_Subset, FS_CardinalityType
  <2> QED BY <1>1, <2>3
<1> HIDE DEF count, N
<1>13. ASSUME NEW n \in 1..count PROVE numerals[(rest[n - 1] % base) + 1] \in Letter
  <2>1. n - 1 \in 0..N
    BY <1>1, <1>12
  <2>2. rest[n - 1] % base \in 0..(base - 1)
    BY <1>2, <1>11, <2>1, DivisionNat
  <2>3. (rest[n - 1] % base) + 1 \in 1..16
    BY <1>2, <2>2
  <2> QED BY <2>3, Numerals
<1>14. count \in Nat
  BY <1>1, <1>12
<1>15. [n \in 1..count |-> numerals[(rest[n - 1] % base) + 1]] \in Seq(Letter)
  BY <1>13, <1>14, IsASeq
<1> QED BY <1>9, <1>15 DEF Letters

LEMMA RoomLength ==
  ASSUME NEW s \in Letters, NEW t \in Letters
  PROVE  /\ Len(Room(s, t)) \in Nat /\ Len(Room(s, t)) <= PRINTF_INTEGER_BUFFER_SIZE
         /\ Len(s) <= PRINTF_INTEGER_BUFFER_SIZE => Len(s) <= Len(Room(s, t))
<1> DEFINE m == AtMost(Len(s \o t), PRINTF_INTEGER_BUFFER_SIZE)
<1>1. s \o t \in Letters /\ Len(s \o t) = Len(s) + Len(t)
  BY ConcatProperties DEF Letters
<1>2. Len(s) \in Nat /\ Len(t) \in Nat
  BY LettersType
<1>3. PRINTF_INTEGER_BUFFER_SIZE \in Nat
  BY FormatAssumption DEF FormatAssumption
<1>4. /\ m \in 0..Len(s \o t) /\ m <= PRINTF_INTEGER_BUFFER_SIZE
      /\ Len(s) <= PRINTF_INTEGER_BUFFER_SIZE => Len(s) <= m
  BY <1>1, <1>2, <1>3 DEF AtMost
<1>5. 1 \in 1..(Len(s \o t) + 1)
  BY <1>1, <1>2
<1> HIDE DEF m
<1>6. Len(SubSeq(s \o t, 1, m)) = IF 1 <= m THEN m - 1 + 1 ELSE 0
  BY <1>1, <1>4, <1>5, Piece
<1>7. m \in Nat
  BY <1>1, <1>2, <1>4
<1>8. Len(SubSeq(s \o t, 1, m)) = m
  BY <1>6, <1>7
<1>9. Room(s, t) = SubSeq(s \o t, 1, m)
  BY DEF Room, m
<1> QED BY <1>3, <1>4, <1>7, <1>8, <1>9

LEMMA ZeroPadLength ==
  ASSUME Alphabet, NEW s \in Letters, NEW n \in Int, Len(s) <= PRINTF_INTEGER_BUFFER_SIZE
  PROVE  /\ Len(ZeroPad(s, n)) \in Nat /\ Len(ZeroPad(s, n)) <= PRINTF_INTEGER_BUFFER_SIZE
         /\ Len(s) <= Len(ZeroPad(s, n))
<1>1. "0" \in Letter
  BY InAlphabet
<1>2. n - Len(s) \in Int
  <2>1. Len(s) \in Nat
    BY LettersType
  <2> QED BY <2>1
<1>3. Copies(n - Len(s), "0") \in Letters
  BY <1>1, <1>2, CopiesLetters
<1> HIDE DEF Letters
<1> QED BY <1>3, RoomLength DEF ZeroPad

LEMMA FinalLetters ==
  ASSUME Alphabet, NEW buf \in Letters, NEW negative \in BOOLEAN, NEW base, NEW precision \in Int,
         NEW width \in Int, NEW flags, Len(buf) <= PRINTF_INTEGER_BUFFER_SIZE
  PROVE  print_integer_finalization(buf, negative, base, precision, width, flags) \in Letters
<1> DEFINE w == IF /\ "-" \notin flags /\ "0" \in flags /\ width # 0
                   /\ negative \/ flags \cap {"+", " "} # {}
                THEN width - 1 ELSE width
           digits == ZeroPad(IF "-" \in flags \/ "0" \notin flags THEN buf ELSE ZeroPad(buf, w), precision)
           padding == Len(digits) - Len(buf)
           hash == \/ "pointer" \in flags
                   \/ "#" \in flags /\ ~(base = 8 /\ padding > 0)
           returned == IF "precision" \notin flags /\ Len(digits) \in {precision, w}
                       THEN AtMost(IF base = 8 THEN 1 ELSE 2, padding) ELSE 0
           cut == SubSeq(digits, 1, Len(digits) - returned)
           prefixed == Room(Room(cut, Prefix(base, flags)), <<"0">>)
           text == Room(IF hash THEN prefixed ELSE digits, SignOf(negative, flags))
<1>1. w \in Int
  OBVIOUS
<1>2. print_integer_finalization(buf, negative, base, precision, width, flags) = out_rev_(text, w, flags)
  BY DEF print_integer_finalization
<1> HIDE DEF w, hash
<1> DEFINE once == IF "-" \in flags \/ "0" \notin flags THEN buf ELSE ZeroPad(buf, w)
<1>a. /\ once \in Letters /\ Len(once) <= PRINTF_INTEGER_BUFFER_SIZE
      /\ Len(once) \in Nat /\ Len(buf) \in Nat /\ Len(buf) <= Len(once)
  <2>1. Len(buf) \in Nat
    BY LettersType
  <2> HIDE DEF Letters
  <2>2. CASE once = buf
    BY <2>1, <2>2
  <2>3. CASE once = ZeroPad(buf, w)
    BY <1>1, <2>1, <2>3, ZeroPadLetters, ZeroPadLength
  <2> QED BY <2>2, <2>3
<1> HIDE DEF once
<1>3. digits \in Letters /\ Len(digits) \in Nat /\ Len(buf) <= Len(digits)
  <2>1. digits = ZeroPad(once, precision)
    BY DEF once
  <2> HIDE DEF digits, Letters
  <2>2. digits \in Letters
    BY <1>a, <2>1, ZeroPadLetters
  <2>3. Len(digits) \in Nat /\ Len(once) <= Len(digits)
    BY <1>a, <2>1, ZeroPadLength
  <2> QED BY <1>a, <2>2, <2>3
<1> HIDE DEF digits
<1>4. cut \in Letters
  <2>1. padding \in Nat /\ padding <= Len(digits)
    BY <1>a, <1>3
  <2>2. AtMost(IF base = 8 THEN 1 ELSE 2, padding) \in 0..Len(digits)
    BY <1>3, <2>1 DEF AtMost
  <2>3. returned \in 0..Len(digits)
    BY <1>3, <2>2
  <2> HIDE DEF returned
  <2>4. Len(digits) - returned \in 0..Len(digits) /\ 1 \in 1..(Len(digits) + 1)
    BY <1>3, <2>3
  <2> QED BY <1>3, <2>4, Piece
<1> HIDE DEF cut
<1>5. prefixed \in Letters
  <2>1. << "0" >> \in Letters
    <3>1. "0" \in Letter
      BY InAlphabet
    <3> QED BY <3>1, One
  <2> QED BY <1>4, <2>1, PrefixLetters, RoomLetters
<1> HIDE DEF prefixed
<1>6. text \in Letters
  BY <1>3, <1>5, SignLetters, RoomLetters
<1> HIDE DEF text
<1> QED BY <1>1, <1>2, <1>6, OutLetters

LEMMA IntegerLetters ==
  ASSUME Alphabet, NEW value \in Nat, NEW negative \in BOOLEAN, NEW base \in {2, 8, 10, 16},
         NEW precision \in Int, NEW width \in Int, NEW flags
  PROVE  print_integer(value, negative, base, precision, width, flags) \in Letters
<1> DEFINE numerals == IF "X" \in flags THEN Capital ELSE Numeral
<1>1. numerals \in Nums
  BY DEF Nums
<1>2. << >> \in Letters /\ << "0" >> \in Letters
  <2>1. "0" \in Letter
    BY InAlphabet
  <2> QED BY <2>1, One, EmptySeq DEF Letters
<1> HIDE DEF numerals
<1>3. /\ Room(<< >>, Digits(value, base, numerals)) \in Letters
      /\ Len(Room(<< >>, Digits(value, base, numerals))) <= PRINTF_INTEGER_BUFFER_SIZE
  <2> HIDE DEF Letters
  <2> QED BY <1>1, <1>2, DigitsLetters, RoomLetters, RoomLength
<1> DEFINE zero == IF "precision" \in flags THEN << >> ELSE << "0" >>
           others == IF "precision" \notin flags \/ base = 16 THEN flags \ {"#"} ELSE flags
<1>4. zero \in Letters /\ Len(zero) <= PRINTF_INTEGER_BUFFER_SIZE
  <2>1. PRINTF_INTEGER_BUFFER_SIZE \in Nat \ {0} /\ Len(<< >>) = 0 /\ Len(<< "0" >>) = 1
    BY FormatAssumption DEF FormatAssumption
  <2>2. Len(zero) \in 0..1
    BY <2>1
  <2> QED BY <1>2, <2>1, <2>2
<1>5. print_integer(value, negative, base, precision, width, flags) =
         IF value = 0 THEN print_integer_finalization(zero, negative, base, precision, width, others)
         ELSE print_integer_finalization(Room(<< >>, Digits(value, base, numerals)), negative, base,
                                         precision, width, flags)
  BY DEF print_integer, numerals
<1> HIDE DEF zero, others
<1>6. print_integer_finalization(zero, negative, base, precision, width, others) \in Letters
  BY <1>4, FinalLetters
<1>7. print_integer_finalization(Room(<< >>, Digits(value, base, numerals)), negative, base,
                                 precision, width, flags) \in Letters
  BY <1>3, FinalLetters
<1> QED BY <1>5, <1>6, <1>7

-----------------------------------------------------------------------------
(* The parts of a directive.                                               *)
LEMMA LeadingFacts ==
  ASSUME NEW s \in Letters, NEW S
  PROVE  Leading(s, S) \in 0..Len(s) /\ \A i \in 1..Leading(s, S) : s[i] \in S
<1> DEFINE T == {n \in 0..Len(s) : n < Len(s) => s[n + 1] \notin S}
           Fits(n) == /\ \A i \in 1..n : s[i] \in S
                      /\ n < Len(s) => s[n + 1] \notin S
<1>1. Len(s) \in Nat
  BY LettersType
<1>2. PICK n \in T : \A k \in T : n <= k
  <2>1. Len(s) \in T /\ T \subseteq Nat
    BY <1>1
  <2> HIDE DEF T
  <2> QED BY <2>1, Least
<1>3. ASSUME NEW i \in 1..n PROVE s[i] \in S
  <2>1. i - 1 \in 0..Len(s) /\ i - 1 < n /\ i - 1 + 1 = i /\ i - 1 < Len(s)
    BY <1>1
  <2>2. i - 1 \notin T
    <3>1. n \in Nat
      BY <1>1
    <3> HIDE DEF T
    <3> QED BY <1>2, <2>1, <3>1
  <2> QED BY <2>1, <2>2
<1>4. n \in 0..Len(s) /\ Fits(n)
  BY <1>3
<1>5. Leading(s, S) = CHOOSE m \in 0..Len(s) : Fits(m)
  BY DEF Leading
<1> HIDE DEF Fits
<1>6. Leading(s, S) \in 0..Len(s) /\ Fits(Leading(s, S))
  BY <1>4, <1>5
<1> QED BY <1>6 DEF Fits

LEMMA DropLetters ==
  ASSUME NEW s \in Letters, NEW S PROVE Drop(s, Leading(s, S)) \in Letters
<1>1. Len(s) \in Nat
  BY LettersType
<1>2. Leading(s, S) + 1 \in 1..(Len(s) + 1) /\ Len(s) \in 0..Len(s)
  BY <1>1, LeadingFacts
<1> QED BY <1>2, Piece DEF Drop

LEMMA TailLetters ==
  ASSUME NEW s \in Letters, s # << >> PROVE Tail(s) \in Letters /\ Head(s) \in Letter
  BY HeadTailProperties DEF Letters

LEMMA DigitNat == ASSUME NEW c \in Decimal PROVE DigitValue(c) \in Nat
<1> DEFINE d == CHOOSE k \in 1..10 : Numeral[k] = c
<1>1. PICK i \in 1..10 : Numeral[i] = c
  BY DEF Decimal
<1>2. d \in 1..10
  BY <1>1
<1>3. DigitValue(c) = d - 1
  BY DEF DigitValue
<1> HIDE DEF d
<1> QED BY <1>2, <1>3

(* The values of a number's first digits.                                 *)
Values(value, s) ==
    /\ value[0] = 0 /\ atou_(s) = value[Leading(s, Decimal)]
    /\ \A n \in 1..Leading(s, Decimal) : value[n] = value[n - 1] * 10 + DigitValue(s[n])

LEMMA AtouRun == ASSUME NEW s \in Letters PROVE \E value : Values(value, s)
<1> DEFINE N == Leading(s, Decimal)
           Eq(f) == f = [n \in 0..N |-> IF n = 0 THEN 0 ELSE f[n - 1] * 10 + DigitValue(s[n])]
           value == CHOOSE f : Eq(f)
           g == [x \in Nat \X (1..N) |-> x[1] * 10 + DigitValue(s[x[2]])]
<1>1. N \in Nat
  <2>1. Len(s) \in Nat
    BY LettersType
  <2> HIDE DEF N
  <2>2. N \in 0..Len(s)
    BY LeadingFacts DEF N
  <2> QED BY <2>1, <2>2
<1>2. \A n \in 1..N : DigitValue(s[n]) \in Nat
  BY LeadingFacts, DigitNat
<1> HIDE DEF N
<1>3. g \in Steps(Nat, N)
  <2>1. \A a \in Nat, n \in 1..N : a * 10 + DigitValue(s[n]) \in Nat
    BY <1>2
  <2> QED BY <2>1 DEF Steps
<1>4. PICK f : IsRun(f, Nat, 0, N, g)
  <2> HIDE DEF g
  <2> QED BY <1>1, <1>3, Iteration
<1>5. f \in [0..N -> Nat] /\ f[0] = 0 /\ \A n \in 1..N : f[n] = f[n - 1] * 10 + DigitValue(s[n])
  <2>1. f \in [0..N -> Nat] /\ f[0] = 0 /\ \A n \in 1..N : f[n] = g[<< f[n - 1], n >>]
    BY <1>4 DEF IsRun
  <2>2. \A n \in 1..N : f[n - 1] \in Nat
    BY <1>1, <2>1
  <2>3. \A n \in 1..N : g[<< f[n - 1], n >>] = f[n - 1] * 10 + DigitValue(s[n])
    BY <2>2
  <2> HIDE DEF g
  <2> QED BY <2>1, <2>3
<1>6. Eq(f)
  <2> DEFINE body(n) == IF n = 0 THEN 0 ELSE f[n - 1] * 10 + DigitValue(s[n])
  <2>1. \A n \in 0..N : n = 0 \/ n \in 1..N
    BY <1>1
  <2>2. \A n \in 0..N : f[n] = body(n)
    BY <1>5, <2>1
  <2> HIDE DEF body
  <2>3. f = [n \in 0..N |-> body(n)]
    BY <1>5, <2>2
  <2> QED BY <2>3 DEF body
<1>7. Eq(value)
  <2> HIDE DEF Eq
  <2> QED BY <1>6
<1>8. atou_(s) = value[N]
  BY DEF atou_, N
<1> HIDE DEF value, g
<1>9. value[0] = 0 /\ \A n \in 1..N : value[n] = value[n - 1] * 10 + DigitValue(s[n])
  <2>1. \A n \in 0..N : value[n] = IF n = 0 THEN 0 ELSE value[n - 1] * 10 + DigitValue(s[n])
    <3> DEFINE body(n) == IF n = 0 THEN 0 ELSE value[n - 1] * 10 + DigitValue(s[n])
    <3>1. value = [n \in 0..N |-> body(n)]
      BY <1>7
    <3> HIDE DEF body
    <3>2. \A n \in 0..N : value[n] = body(n)
      BY <3>1
    <3> QED BY <3>2 DEF body
  <2> HIDE DEF Eq
  <2>2. 0 \in 0..N /\ \A n \in 1..N : n \in 0..N /\ n # 0
    BY <1>1
  <2> QED BY <2>1, <2>2
<1> HIDE DEF Eq
<1> QED BY <1>8, <1>9 DEF Values, N

LEMMA AtouNat == ASSUME NEW s \in Letters PROVE atou_(s) \in Nat
<1> DEFINE N == Leading(s, Decimal)
<1>1. N \in Nat /\ \A n \in 1..N : DigitValue(s[n]) \in Nat
  <2>1. Len(s) \in Nat
    BY LettersType
  <2>2. N \in 0..Len(s) /\ \A n \in 1..N : s[n] \in Decimal
    BY LeadingFacts
  <2> HIDE DEF N
  <2> QED BY <2>1, <2>2, DigitNat
<1>2. PICK value : Values(value, s)
  BY AtouRun
<1>9. value[0] = 0 /\ \A n \in 1..N : value[n] = value[n - 1] * 10 + DigitValue(s[n])
  BY <1>2 DEF Values
<1>8. atou_(s) = value[N]
  BY <1>2 DEF Values
<1> HIDE DEF N
<1>10. value[N] \in Nat
  <2> DEFINE T == {n \in Nat : n <= N => value[n] \in Nat}
  <2>1. 0 \in T
    BY <1>9
  <2>2. ASSUME NEW n \in T PROVE n + 1 \in T
    <3> SUFFICES ASSUME n + 1 <= N PROVE value[n + 1] \in Nat
      OBVIOUS
    <3>1. n \in Nat /\ value[n] \in Nat /\ n + 1 \in 1..N /\ n + 1 - 1 = n
      BY <1>1
    <3> HIDE DEF T
    <3>2. value[n + 1] = value[n + 1 - 1] * 10 + DigitValue(s[n + 1])
      BY <1>9, <3>1
    <3>3. DigitValue(s[n + 1]) \in Nat
      BY <1>1, <3>1
    <3> QED BY <3>1, <3>2, <3>3
  <2>3. T = Nat
    <3>1. T \subseteq Nat
      OBVIOUS
    <3> HIDE DEF T
    <3> QED BY <2>1, <2>2, <3>1, SetInduction
  <2> QED BY <1>1, <2>3
<1> QED BY <1>8, <1>10

(* Words.                                                                  *)
LEMMA BitsType == ASSUME NEW flags PROVE Bits(flags) \in {CharBits, ShortBits, IntBits, LongBits}
<1>1. \/ flags \cap {"long", "long long"} # {}
      \/ "char" \in flags
      \/ {"char", "short"} \cap flags = {"short"}
      \/ ~(flags \cap {"long", "long long"} # {} \/ "char" \in flags \/ {"char", "short"} \cap flags = {"short"})
  OBVIOUS
<1> QED BY <1>1 DEF Bits

LEMMA Word ==
  ASSUME NEW bits \in {CharBits, ShortBits, IntBits, LongBits}, NEW word \in Int
  PROVE  Unsigned(bits, word) \in Nat /\ Signed(bits, word) \in Int /\ Abs(Signed(bits, word)) \in Nat
<1> DEFINE m == 2^bits
           h == 2^(bits - 1)
<1>1. m \in Nat \ {0} /\ h \in Nat \ {0}
  BY FormatAssumption DEF FormatAssumption
<1>2. Unsigned(bits, word) = word % m
  BY DEF Unsigned
<1>3. Signed(bits, word) = IF word % m < h THEN word % m ELSE (word % m) - m
  BY DEF Signed, Unsigned
<1> HIDE DEF m, h
<1>4. word % m \in Nat
  BY <1>1
<1>5. Signed(bits, word) \in Int
  BY <1>1, <1>3, <1>4
<1>6. \A n \in Int : Abs(n) \in Nat
  BY DEF Abs
<1> QED BY <1>2, <1>4, <1>5, <1>6

-----------------------------------------------------------------------------
(* Calls, one after another.                                               *)
ProperCalls == \A c \in Calls : /\ c.to \in {"putchar", "buffer", "null"}
                                /\ c.size \in Nat /\ c.format \in Letters
Calling == phase \in {"idle", "returned"} /\ \E c \in Calls : Begin(c)
FormatSpec == FormatInit /\ [][Formatting \/ Calling]_formatVars

Running == phase \notin {"idle", "past", "returned"}

(* The caller's part: a directive finds an argument of its type.           *)
ArgumentsMatch ==
    /\ At("width", {"*"}) \/ At("digits", {"*"}) => Head(args) \in Int
    /\ At("specifier", {"d", "i", "u", "x", "X", "o", "b"}) => Head(args) \in Int
    /\ At("specifier", {"p"}) => Head(args) \in Nat
    /\ At("specifier", {"c"}) => Head(args) \in Letter
    /\ At("specifier", {"s"}) => Head(args) = NULL \/ Head(args) \in Letters

(* What a gadget holds while the call runs: the characters so far, those   *)
(* before max_chars, and no NUL among them.                                *)
Filled(g, to, max) ==
    /\ g = [to |-> to, pos |-> g.pos, max_chars |-> max, out |-> g.out]
    /\ g.pos \in Nat
    /\ DOMAIN g.out = {p \in 0..(g.pos - 1) : p < max}
    /\ g.out \in [DOMAIN g.out -> Letter]
Holds == Filled(gadget, call.to, GadgetOf(call).max_chars)

SpecOK == /\ spec = [flags |-> spec.flags, width |-> spec.width, precision |-> spec.precision]
          /\ spec.width \in Nat /\ spec.precision \in Nat

CallInv == /\ phase # "idle" => call \in Calls
           /\ Running => format \in Letters /\ SpecOK /\ Holds
           /\ Terminated

LEMMA MaxType ==
  ASSUME ProperCalls, NEW c \in Calls
  PROVE  /\ GadgetOf(c).max_chars \in Nat
         /\ GadgetOf(c) = [to |-> c.to, pos |-> 0, out |-> <<>>, max_chars |-> GadgetOf(c).max_chars]
         /\ c.to = "null" => GadgetOf(c).max_chars = 0
         /\ c.to = "buffer" => GadgetOf(c).max_chars = AtMost(c.size, PRINTF_MAX_POSSIBLE_BUFFER_SIZE)
<1>1. c.to \in {"putchar", "buffer", "null"} /\ c.size \in Nat
  BY DEF ProperCalls
<1>2. PRINTF_MAX_POSSIBLE_BUFFER_SIZE \in Nat
  BY FormatAssumption DEF FormatAssumption
<1>3. AtMost(c.size, PRINTF_MAX_POSSIBLE_BUFFER_SIZE) \in Nat
  BY <1>1, <1>2 DEF AtMost
<1>4. GadgetOf(c).max_chars = CASE c.to = "putchar" -> PRINTF_MAX_POSSIBLE_BUFFER_SIZE
                                [] c.to = "buffer" -> AtMost(c.size, PRINTF_MAX_POSSIBLE_BUFFER_SIZE)
                                [] c.to = "null" -> 0
  BY DEF GadgetOf
<1>5. GadgetOf(c) = [to |-> c.to, pos |-> 0, out |-> <<>>, max_chars |-> GadgetOf(c).max_chars]
  <2> DEFINE m == CASE c.to = "putchar" -> PRINTF_MAX_POSSIBLE_BUFFER_SIZE
                    [] c.to = "buffer" -> AtMost(c.size, PRINTF_MAX_POSSIBLE_BUFFER_SIZE)
                    [] c.to = "null" -> 0
  <2>1. GadgetOf(c) = [to |-> c.to, pos |-> 0, out |-> <<>>, max_chars |-> m]
    BY DEF GadgetOf
  <2> HIDE DEF m
  <2>2. GadgetOf(c).max_chars = m
    BY <2>1
  <2> QED BY <2>1, <2>2
<1>6. CASE c.to = "putchar"
  BY <1>2, <1>4, <1>5, <1>6
<1>7. CASE c.to = "buffer"
  BY <1>3, <1>4, <1>5, <1>7
<1>8. CASE c.to = "null"
  BY <1>4, <1>5, <1>8
<1> QED BY <1>1, <1>6, <1>7, <1>8

(* Writing a text keeps what a gadget holds.                               *)
LEMMA PutFills ==
  ASSUME NEW g, NEW to, NEW max \in Nat, Filled(g, to, max), NEW s \in Letters
  PROVE  Filled(putchar_via_gadget(g, s), to, max)
<1> DEFINE W == {p \in g.pos..(g.pos + Len(s) - 1) : p < g.max_chars}
           h == putchar_via_gadget(g, s)
<1>1. /\ g = [to |-> to, pos |-> g.pos, max_chars |-> max, out |-> g.out]
      /\ g.pos \in Nat /\ g.max_chars = max
      /\ DOMAIN g.out = {p \in 0..(g.pos - 1) : p < max}
      /\ g.out \in [DOMAIN g.out -> Letter]
  BY DEF Filled
<1>2. Len(s) \in Nat /\ \A i \in 1..Len(s) : s[i] \in Letter
  BY LettersType
<1> DEFINE o == [p \in DOMAIN g.out \cup W |-> IF p \in W THEN s[p - g.pos + 1] ELSE g.out[p]]
<1>3. h = [g EXCEPT !.pos = @ + Len(s), !.out = o]
  BY DEF putchar_via_gadget
<1>4. DOMAIN o = DOMAIN g.out \cup W /\ \A p \in DOMAIN g.out \cup W : o[p] = IF p \in W THEN s[p - g.pos + 1] ELSE g.out[p]
  OBVIOUS
<1>5. \A p \in W : s[p - g.pos + 1] \in Letter
  <2>1. \A p \in W : p - g.pos + 1 \in 1..Len(s)
    BY <1>1, <1>2
  <2> HIDE DEF W
  <2> QED BY <1>2, <2>1
<1> DEFINE S(n) == {p \in 0..(n - 1) : p < max}
<1>6. DOMAIN g.out \cup W = S(g.pos + Len(s))
  BY <1>1, <1>2
<1>a. (\A p \in DOMAIN o : o[p] \in Letter) => o \in [DOMAIN o -> Letter]
  <2> DEFINE X == DOMAIN g.out \cup W
             body(p) == IF p \in W THEN s[p - g.pos + 1] ELSE g.out[p]
  <2>1. o = [p \in X |-> body(p)]
    OBVIOUS
  <2> HIDE DEF o, X, body
  <2> QED BY <2>1
<1> HIDE DEF o
<1>7. h = [to |-> to, pos |-> g.pos + Len(s), max_chars |-> max, out |-> o]
  <2> DEFINE n == g.pos + Len(s)
             was == g.out
             at == g.pos
  <2>1. h = [g EXCEPT !.pos = n, !.out = o]
    BY <1>3
  <2>2. g = [to |-> to, pos |-> at, max_chars |-> max, out |-> was]
    BY <1>1
  <2> HIDE DEF n, h, was, at
  <2>3. h = [to |-> to, pos |-> n, max_chars |-> max, out |-> o]
    BY <2>1, <2>2
  <2> QED BY <2>3 DEF n
<1> HIDE DEF h
<1>8. h.pos = g.pos + Len(s) /\ h.out = o
  BY <1>7
<1>9. o \in [DOMAIN o -> Letter]
  <2>1. \A p \in DOMAIN g.out : g.out[p] \in Letter
    BY <1>1
  <2>2. \A p \in DOMAIN o : o[p] \in Letter
    <3> HIDE DEF W
    <3> QED BY <2>1, <1>4, <1>5
  <2> QED BY <1>a, <2>2
<1>10. h.pos \in Nat
  BY <1>1, <1>2, <1>8
<1>11. h = [to |-> to, pos |-> h.pos, max_chars |-> max, out |-> h.out]
  BY <1>7, <1>8
<1>12. DOMAIN h.out = {p \in 0..(h.pos - 1) : p < max}
  <2> DEFINE n == g.pos + Len(s)
             X == DOMAIN g.out \cup W
  <2>1. X = S(n)
    <3> HIDE DEF S, W
    <3> QED BY <1>6
  <2>2. DOMAIN o = X
    BY <1>4
  <2>3. h.pos = n /\ h.out = o
    BY <1>8
  <2> HIDE DEF n, S, X
  <2>4. DOMAIN h.out = S(h.pos)
    BY <2>1, <2>2, <2>3
  <2> QED BY <2>4 DEF S
<1> QED BY <1>8, <1>9, <1>10, <1>11, <1>12 DEF Filled, h

(* A step that writes a text, and one that writes none.                    *)
LEMMA Writes ==
  ASSUME ProperCalls, CallInv, Running, NEW s \in Letters, Emit(s),
         UNCHANGED << call, spec >>, format' \in Letters, phase' \notin {"idle", "returned"}
  PROVE  CallInv'
<1>1. call \in Calls /\ SpecOK /\ Filled(gadget, call.to, GadgetOf(call).max_chars)
  BY DEF CallInv, Running, Holds
<1>2. GadgetOf(call).max_chars \in Nat
  BY <1>1, MaxType
<1>3. gadget' = putchar_via_gadget(gadget, s)
  BY DEF Emit
<1> DEFINE max == GadgetOf(call).max_chars
           to == call.to
<1> HIDE DEF max, to, Letters
<1>4. Filled(gadget', to, max)
  BY <1>1, <1>2, <1>3, PutFills DEF max, to
<1>5. to' = to /\ max' = max
  BY DEF to, max, GadgetOf
<1>6. Holds'
  BY <1>4, <1>5 DEF Holds, Filled, to, max
<1>7. SpecOK'
  BY <1>1 DEF SpecOK
<1> QED BY <1>1, <1>6, <1>7 DEF CallInv, Running, Terminated

LEMMA Reads ==
  ASSUME CallInv, Running, SpecOK',
         UNCHANGED << call, gadget >>, format' \in Letters, phase' \notin {"idle", "returned"}
  PROVE  CallInv'
<1>1. call \in Calls /\ Holds
  BY DEF CallInv, Running
<1>2. Holds'
  BY <1>1 DEF Holds, Filled, GadgetOf
<1> QED BY <1>1, <1>2 DEF CallInv, Running, Terminated

LEMMA Ends ==
  ASSUME ProperCalls, Alphabet, CallInv, vsnprintf_impl
  PROVE  CallInv'
<1> DEFINE max == GadgetOf(call).max_chars
           to == call.to
           at == AtMost(gadget.pos, max - 1)
<1>1. Running
  BY DEF vsnprintf_impl, Running
<1>2. call \in Calls /\ Filled(gadget, to, max)
  BY <1>1 DEF CallInv, Running, Holds
<1>3. /\ max \in Nat
      /\ to = "null" => max = 0
      /\ to = "buffer" => max = AtMost(call.size, PRINTF_MAX_POSSIBLE_BUFFER_SIZE)
  BY <1>2, MaxType
<1>4. to \in {"putchar", "buffer", "null"} /\ call.size \in Nat
  BY <1>2 DEF ProperCalls
<1>5. /\ phase' = "returned" /\ UNCHANGED << call, format, args, spec, stored >>
      /\ gadget' = append_termination(gadget)
  BY DEF vsnprintf_impl
<1>6. PRINTF_MAX_POSSIBLE_BUFFER_SIZE \in Nat \ {0}
  BY FormatAssumption DEF FormatAssumption
<1>7. /\ gadget = [to |-> to, pos |-> gadget.pos, max_chars |-> max, out |-> gadget.out]
      /\ gadget.to = to /\ gadget.max_chars = max
      /\ gadget.pos \in Nat
      /\ DOMAIN gadget.out = {p \in 0..(gadget.pos - 1) : p < max}
      /\ gadget.out \in [DOMAIN gadget.out -> Letter]
  BY <1>2 DEF Filled
<1>8. Terminated'
  <2> SUFFICES ASSUME to # "putchar"
               PROVE  IF to = "null" \/ call.size = 0 THEN gadget'.out = << >>
                      ELSE /\ DOMAIN gadget'.out = 0..Kept'
                           /\ \A p \in 0..Kept' : (gadget'.out[p] = "NUL") <=> (p = Kept')
    BY <1>5 DEF Terminated
  <2>1. CASE max = 0
    <3>1. to = "null" \/ call.size = 0
      BY <1>3, <1>4, <1>6, <2>1 DEF AtMost
    <3>2. gadget' = gadget
      BY <1>5, <1>7, <2>1 DEF append_termination
    <3>3. DOMAIN gadget.out = {}
      BY <1>7, <2>1
    <3>4. gadget.out = << >>
      <4>1. gadget.out \in [{} -> Letter]
        BY <1>7, <3>3
      <4> HIDE DEF max, to
      <4> QED BY <4>1
    <3> QED BY <3>1, <3>2, <3>4
  <2>2. CASE max # 0
    <3>1. ~(to = "null" \/ call.size = 0) /\ to = "buffer" /\ call.size > 0
      BY <1>3, <1>4, <1>6, <2>2 DEF AtMost
    <3> DEFINE o == [p \in DOMAIN gadget.out \cup {at} |-> IF p = at THEN "NUL" ELSE gadget.out[p]]
    <3>2. gadget' = [gadget EXCEPT !.out = o]
      BY <1>5, <1>7, <2>2 DEF append_termination
    <3>3. at \in Nat /\ DOMAIN gadget.out \cup {at} = 0..at
      BY <1>3, <1>7, <2>2 DEF AtMost
    <3>4. DOMAIN o = 0..at /\ \A p \in 0..at : o[p] = IF p = at THEN "NUL" ELSE gadget.out[p]
      BY <3>3
    <3>5. \A p \in 0..at : p # at => gadget.out[p] # "NUL"
      <4>1. \A p \in 0..at : p # at => p \in DOMAIN gadget.out
        BY <3>3
      <4> QED BY <1>7, <4>1 DEF Alphabet
    <3> HIDE DEF o
    <3>6. gadget'.out = o /\ gadget'.pos = gadget.pos
      BY <1>7, <3>2
    <3>7. Kept' = at
      <4>1. Kept' = AtMost(gadget'.pos, AtMost(call'.size, PRINTF_MAX_POSSIBLE_BUFFER_SIZE) - 1)
        BY <1>5, <3>1 DEF Kept
      <4> QED BY <1>3, <1>5, <3>1, <3>6, <4>1
    <3> QED BY <3>1, <3>4, <3>5, <3>6, <3>7
  <2> QED BY <2>1, <2>2
<1> HIDE DEF max, to, at
<1> QED BY <1>2, <1>5, <1>8 DEF CallInv, Running

LEMMA Begins ==
  ASSUME ProperCalls, CallInv, NEW c \in Calls, Begin(c)
  PROVE  CallInv'
<1>1. /\ call' = c /\ phase' = "text" /\ format' = c.format
      /\ spec' = NoSpec /\ gadget' = GadgetOf(c)
  BY DEF Begin
<1> DEFINE max == GadgetOf(c).max_chars
<1>2. max \in Nat /\ GadgetOf(c) = [to |-> c.to, pos |-> 0, out |-> <<>>, max_chars |-> max]
  BY MaxType
<1> HIDE DEF max
<1>3. Filled(gadget', c.to, max)
  <2>1. gadget' = [to |-> c.to, pos |-> 0, max_chars |-> max, out |-> <<>>]
    BY <1>1, <1>2
  <2>2. gadget'.pos = 0 /\ gadget'.out = <<>>
    BY <2>1
  <2>3. DOMAIN <<>> = {p \in 0..(0 - 1) : p < max} /\ <<>> \in [DOMAIN <<>> -> Letter]
    BY <1>2
  <2>4. DOMAIN gadget'.out = {p \in 0..(gadget'.pos - 1) : p < max}
    BY <2>2, <2>3
  <2> QED BY <2>1, <2>2, <2>3, <2>4 DEF Filled
<1>4. Holds'
  BY <1>1, <1>3 DEF Holds, Filled, max
<1>5. SpecOK'
  <2>1. spec' = [flags |-> {}, width |-> 0, precision |-> 0]
    BY <1>1 DEF NoSpec
  <2> QED BY <2>1 DEF SpecOK
<1>6. c.format \in Letters
  BY DEF ProperCalls
<1> HIDE DEF Letters
<1> QED BY <1>1, <1>4, <1>5, <1>6 DEF CallInv, Running, Terminated

LEMMA PaddedLetters ==
  ASSUME Alphabet, SpecOK, NEW s \in Letters PROVE Padded(s) \in Letters
<1>1. " " \in Letter
  BY InAlphabet
<1>2. spec.width - Len(s) \in Int
  <2>1. Len(s) \in Nat
    BY LettersType
  <2> QED BY <2>1 DEF SpecOK
<1>3. Copies(spec.width - Len(s), " ") \in Letters
  BY <1>1, <1>2, CopiesLetters
<1> HIDE DEF Letters
<1> QED BY <1>3, Concat DEF Padded

(* What each part of a directive leaves.                                   *)
LEMMA Advanced ==
  ASSUME CallInv, Running, NEW p, NEW S, At(p, S), NEW to, to \notin {"idle", "returned"}, Advance(to)
  PROVE  format' \in Letters /\ phase' \notin {"idle", "returned"}
<1>1. format \in Letters /\ format # << >>
  BY DEF CallInv, At
<1>2. Tail(format) \in Letters
  BY <1>1, TailLetters
<1>3. format' = Tail(format) /\ (phase' = "end" \/ phase' = to)
  BY DEF Advance
<1> HIDE DEF Letters
<1> QED BY <1>2, <1>3

LEMMA StarInt ==
  ASSUME Head(args) \in Int
  PROVE  Star \in Int /\ Abs(Star) \in Nat
  BY Word DEF Star

LEMMA TextKeeps == ASSUME ProperCalls, CallInv, Text PROVE CallInv'
<1>1. Running
  BY DEF Text, Running
<1>2. format \in Letters /\ format # << >>
  BY <1>1 DEF CallInv, Text
<1>3. Tail(format) \in Letters /\ << Head(format) >> \in Letters
  BY <1>2, TailLetters, One
<1>4. /\ Emit(<< Head(format) >>) /\ format' = Tail(format)
      /\ UNCHANGED << call, spec >> /\ phase' \notin {"idle", "returned"}
  BY DEF Text, Emit
<1> HIDE DEF Letters
<1> QED BY <1>1, <1>3, <1>4, Writes

LEMMA PercentKeeps == ASSUME CallInv, Percent PROVE CallInv'
<1>1. Running /\ At("text", {"%"}) /\ Advance("flags") /\ UNCHANGED << call, gadget >>
  BY DEF Percent, Running, At
<1>2. format' \in Letters /\ phase' \notin {"idle", "returned"}
  BY <1>1, Advanced
<1>3. SpecOK'
  <2>1. spec' = [flags |-> {}, width |-> 0, precision |-> 0]
    BY DEF Percent, NoSpec
  <2> QED BY <2>1 DEF SpecOK
<1> QED BY <1>1, <1>2, <1>3, Reads

LEMMA FlagsKeep == ASSUME CallInv, parse_flags PROVE CallInv'
<1>1. Running /\ UNCHANGED << call, gadget >> /\ phase' \notin {"idle", "returned"}
  BY DEF parse_flags, Running
<1>2. format \in Letters /\ SpecOK
  BY <1>1 DEF CallInv
<1>3. format' \in Letters
  <2>1. format' = Drop(format, Leading(format, FlagChars))
    BY DEF parse_flags
  <2> QED BY <1>2, <2>1, DropLetters
<1>4. SpecOK'
  <2> DEFINE f == {format[i] : i \in 1..Leading(format, FlagChars)}
  <2>1. spec' = [spec EXCEPT !.flags = f]
    BY DEF parse_flags
  <2> HIDE DEF f
  <2> QED BY <1>2, <2>1 DEF SpecOK
<1> QED BY <1>1, <1>3, <1>4, Reads

LEMMA WidthKeeps == ASSUME CallInv, ArgumentsMatch, Width PROVE CallInv'
<1>1. Running /\ UNCHANGED << call, gadget >>
  BY DEF Width, Running
<1>2. format \in Letters /\ SpecOK
  BY <1>1 DEF CallInv
<1>3. CASE At("width", {"*"})
  <2> DEFINE w == Abs(Star)
             f == IF Star < 0 THEN spec.flags \cup {"-"} ELSE spec.flags
  <2>1. spec' = [spec EXCEPT !.width = w, !.flags = f] /\ Advance("precision")
    BY <1>3 DEF Width
  <2>2. w \in Nat
    BY <1>3, StarInt DEF ArgumentsMatch
  <2> HIDE DEF w, f
  <2>3. SpecOK'
    BY <1>2, <2>1, <2>2 DEF SpecOK
  <2>4. format' \in Letters /\ phase' \notin {"idle", "returned"}
    BY <1>1, <1>3, <2>1, Advanced
  <2> QED BY <1>1, <2>3, <2>4, Reads
<1>4. CASE ~At("width", {"*"})
  <2> DEFINE w == atou_(format)
  <2>1. /\ spec' = [spec EXCEPT !.width = w]
        /\ format' = Drop(format, Leading(format, Decimal)) /\ phase' = "precision"
    BY <1>4 DEF Width
  <2>2. w \in Nat
    BY <1>2, AtouNat
  <2> HIDE DEF w
  <2>3. SpecOK'
    BY <1>2, <2>1, <2>2 DEF SpecOK
  <2>4. format' \in Letters
    BY <1>2, <2>1, DropLetters
  <2> QED BY <1>1, <2>1, <2>3, <2>4, Reads
<1> QED BY <1>3, <1>4

LEMMA PointKeeps == ASSUME CallInv, Point PROVE CallInv'
<1>1. Running /\ UNCHANGED << call, gadget >>
  BY DEF Point, Running
<1>2. format \in Letters /\ SpecOK
  BY <1>1 DEF CallInv
<1>3. CASE At("precision", {"."})
  <2> DEFINE f == spec.flags \cup {"precision"}
  <2>1. spec' = [spec EXCEPT !.flags = f] /\ Advance("digits")
    BY <1>3 DEF Point
  <2> HIDE DEF f
  <2>2. SpecOK'
    BY <1>2, <2>1 DEF SpecOK
  <2>3. format' \in Letters /\ phase' \notin {"idle", "returned"}
    BY <1>1, <1>3, <2>1, Advanced
  <2> QED BY <1>1, <2>2, <2>3, Reads
<1>4. CASE ~At("precision", {"."})
  <2>1. phase' = "length" /\ UNCHANGED << format, spec >>
    BY <1>4 DEF Point
  <2>2. SpecOK'
    BY <1>2, <2>1 DEF SpecOK
  <2> HIDE DEF Letters
  <2> QED BY <1>1, <1>2, <2>1, <2>2, Reads
<1> QED BY <1>3, <1>4

LEMMA PrecisionKeeps == ASSUME CallInv, ArgumentsMatch, Precision PROVE CallInv'
<1>1. Running /\ UNCHANGED << call, gadget >>
  BY DEF Precision, Running
<1>2. format \in Letters /\ SpecOK
  BY <1>1 DEF CallInv
<1>3. CASE At("digits", {"*"})
  <2> DEFINE n == IF Star > 0 THEN Star ELSE 0
  <2>1. spec' = [spec EXCEPT !.precision = n] /\ Advance("length")
    BY <1>3 DEF Precision
  <2>2. n \in Nat
    BY <1>3, StarInt DEF ArgumentsMatch
  <2> HIDE DEF n
  <2>3. SpecOK'
    BY <1>2, <2>1, <2>2 DEF SpecOK
  <2>4. format' \in Letters /\ phase' \notin {"idle", "returned"}
    BY <1>1, <1>3, <2>1, Advanced
  <2> QED BY <1>1, <2>3, <2>4, Reads
<1>4. CASE ~At("digits", {"*"})
  <2> DEFINE n == atou_(format)
  <2>1. /\ spec' = [spec EXCEPT !.precision = n]
        /\ format' = Drop(format, Leading(format, Decimal)) /\ phase' = "length"
    BY <1>4 DEF Precision
  <2>2. n \in Nat
    BY <1>2, AtouNat
  <2> HIDE DEF n
  <2>3. SpecOK'
    BY <1>2, <2>1, <2>2 DEF SpecOK
  <2>4. format' \in Letters
    BY <1>2, <2>1, DropLetters
  <2> QED BY <1>1, <2>1, <2>3, <2>4, Reads
<1> QED BY <1>3, <1>4

LEMMA LengthKeeps == ASSUME CallInv, Length PROVE CallInv'
<1>1. Running /\ UNCHANGED << call, gadget >>
  BY DEF Length, Running
<1>2. format \in Letters /\ SpecOK
  BY <1>1 DEF CallInv
<1>3. CASE At("length", Lengths) \/ At("length l", {"l"}) \/ At("length h", {"h"})
  <2> DEFINE next == CASE Head(format) = "l" -> "length l" [] Head(format) = "h" -> "length h"
                       [] OTHER -> "specifier"
  <2>1. /\ next \in {"length l", "length h", "specifier"}
        /\ "specifier" \notin {"idle", "returned"}
    OBVIOUS
  <2>2. \/ /\ spec' = [spec EXCEPT !.flags = @ \cup {IF Head(format) = "h" THEN "short" ELSE "long"}]
           /\ At("length", Lengths) /\ Advance(next)
        \/ /\ spec' = [spec EXCEPT !.flags = @ \cup {IF Head(format) = "h" THEN "char" ELSE "long long"}]
           /\ At("length l", {"l"}) \/ At("length h", {"h"})
           /\ Advance("specifier")
    BY <1>3 DEF Length
  <2>3. next \notin {"idle", "returned"}
    BY <2>1
  <2> HIDE DEF next
  <2>4. SpecOK'
    <3>1. PICK f : spec' = [spec EXCEPT !.flags = f]
      BY <2>2
    <3> QED BY <1>2, <3>1 DEF SpecOK
  <2>5. format' \in Letters /\ phase' \notin {"idle", "returned"}
    BY <1>1, <2>1, <2>2, <2>3, Advanced
  <2> QED BY <1>1, <2>4, <2>5, Reads
<1>4. CASE ~At("length", Lengths) /\ ~At("length l", {"l"}) /\ ~At("length h", {"h"})
  <2>1. phase' = "specifier" /\ UNCHANGED << format, spec >>
    BY <1>4 DEF Length
  <2>2. SpecOK'
    BY <1>2, <2>1 DEF SpecOK
  <2> HIDE DEF Letters
  <2> QED BY <1>1, <1>2, <2>1, <2>2, Reads
<1> QED BY <1>3, <1>4

LEMMA Specified ==
  ASSUME CallInv, NEW S, Specifier(S)
  PROVE  Running /\ format' \in Letters /\ phase' \notin {"idle", "returned"} /\ SpecOK
<1>1. Running /\ format # << >> /\ format' = Tail(format) /\ phase' = "text"
  BY DEF Specifier, At, Running
<1>2. format \in Letters /\ SpecOK
  BY <1>1 DEF CallInv
<1>3. Tail(format) \in Letters
  BY <1>1, <1>2, TailLetters
<1> HIDE DEF Letters
<1> QED BY <1>1, <1>2, <1>3

LEMMA IntegerKeeps == ASSUME ProperCalls, Alphabet, CallInv, ArgumentsMatch, Integer PROVE CallInv'
<1> DEFINE conv == Head(format)
           base == Base(conv)
           signed == conv \in {"d", "i"}
           flags == (spec.flags \cup (IF conv = "X" THEN {"X"} ELSE {}))
                       \ ((IF base = 10 THEN {"#"} ELSE {})
                            \cup (IF "precision" \in spec.flags THEN {"0"} ELSE {})
                            \cup (IF signed THEN {} ELSE {"+", " "}))
           value == IF signed THEN Signed(Bits(flags), Argument) ELSE Unsigned(Bits(flags), Argument)
           text == print_integer(Abs(value), value < 0, base, spec.precision, spec.width, flags)
<1>1. Specifier({"d", "i", "u", "x", "X", "o", "b"}) /\ UNCHANGED << call, spec >> /\ Emit(text)
  BY DEF Integer
<1>2. Running /\ format' \in Letters /\ phase' \notin {"idle", "returned"} /\ SpecOK
  <2> HIDE DEF text, Letters
  <2> QED BY <1>1, Specified
<1>3. Argument \in Int
  BY <1>1 DEF ArgumentsMatch, Specifier, Argument
<1>4. base \in {2, 8, 10, 16}
  <2> HIDE DEF conv
  <2>1. /\ conv \in {"x", "X"} => Base(conv) = 16
        /\ conv = "o" => Base(conv) = 8
        /\ conv = "b" => Base(conv) = 2
        /\ conv \notin {"x", "X", "o", "b"} => Base(conv) = 10
    BY DEF Base
  <2> QED BY <2>1
<1> HIDE DEF base, flags, signed
<1>5. value \in Int
  <2>1. Bits(flags) \in {CharBits, ShortBits, IntBits, LongBits}
    BY BitsType
  <2>2. Unsigned(Bits(flags), Argument) \in Int /\ Signed(Bits(flags), Argument) \in Int
    <3> DEFINE bits == Bits(flags)
               word == Argument
    <3>1. bits \in {CharBits, ShortBits, IntBits, LongBits} /\ word \in Int
      BY <1>3, <2>1
    <3> HIDE DEF bits, word
    <3>2. Unsigned(bits, word) \in Nat /\ Signed(bits, word) \in Int
      BY <3>1, Word
    <3> QED BY <3>2 DEF bits, word
  <2> QED BY <2>2
<1> HIDE DEF value
<1>6. Abs(value) \in Nat /\ (value < 0) \in BOOLEAN
  BY <1>5 DEF Abs
<1>7. spec.precision \in Int /\ spec.width \in Int
  BY <1>2 DEF SpecOK
<1>8. text \in Letters
  <2> DEFINE a == Abs(value)
             negative == value < 0
  <2>1. a \in Nat /\ negative \in BOOLEAN
    BY <1>6
  <2> HIDE DEF a, negative
  <2>2. print_integer(a, negative, base, spec.precision, spec.width, flags) \in Letters
    BY <1>4, <1>7, <2>1, IntegerLetters
  <2> QED BY <2>2 DEF a, negative
<1> HIDE DEF text, Letters
<1> QED BY <1>1, <1>2, <1>8, Writes

LEMMA CharKeeps == ASSUME ProperCalls, Alphabet, CallInv, ArgumentsMatch, Char PROVE CallInv'
<1>1. Specifier({"c"}) /\ UNCHANGED << call, spec >> /\ Emit(Padded(<< Argument >>))
  BY DEF Char
<1>2. Running /\ format' \in Letters /\ phase' \notin {"idle", "returned"} /\ SpecOK
  <2> HIDE DEF Letters
  <2> QED BY <1>1, Specified
<1>3. Argument \in Letter
  BY <1>1 DEF ArgumentsMatch, Specifier, Argument
<1>4. Padded(<< Argument >>) \in Letters
  <2>1. << Argument >> \in Letters
    BY <1>3, One
  <2> HIDE DEF Letters
  <2> QED BY <1>2, <2>1, PaddedLetters
<1> HIDE DEF Letters
<1> QED BY <1>1, <1>2, <1>4, Writes

LEMMA StringKeeps == ASSUME ProperCalls, Alphabet, CallInv, ArgumentsMatch, String PROVE CallInv'
<1> DEFINE null == << ")", "l", "l", "u", "n", "(" >>
           cut == SubSeq(Argument, 1, AtMost(Len(Argument), Limit))
           text == IF Argument = NULL THEN out_rev_(null, spec.width, spec.flags) ELSE Padded(cut)
<1>1. Specifier({"s"}) /\ UNCHANGED << call, spec >> /\ Emit(text)
  BY DEF String
<1>2. Running /\ format' \in Letters /\ phase' \notin {"idle", "returned"} /\ SpecOK
  <2> HIDE DEF Letters, text
  <2> QED BY <1>1, Specified
<1>3. Argument = NULL \/ Argument \in Letters
  <2> HIDE DEF Letters
  <2> QED BY <1>1 DEF ArgumentsMatch, Specifier, Argument
<1>4. null \in Letters
  <2>1. {")", "l", "u", "n", "("} \subseteq Letter
    BY InAlphabet
  <2> QED BY <2>1 DEF Letters
<1>5. spec.width \in Int
  BY <1>2 DEF SpecOK
<1>6. Limit \in Nat
  BY <1>2, FormatAssumption DEF SpecOK, Limit, FormatAssumption
<1>7. Argument \in Letters => cut \in Letters
  <2> SUFFICES ASSUME Argument \in Letters PROVE cut \in Letters
    OBVIOUS
  <2> DEFINE t == Argument
  <2> HIDE DEF t
  <2>1. SubSeq(t, 1, AtMost(Len(t), Limit)) \in Letters
    <3>1. t \in Letters /\ Limit \in Int /\ Limit >= 0
      BY <1>6 DEF t
    <3> HIDE DEF Letters
    <3> QED BY <3>1, Cut
  <2> QED BY <2>1 DEF t
<1> HIDE DEF null, cut, Letters
<1>8. text \in Letters
  <2>1. out_rev_(null, spec.width, spec.flags) \in Letters
    BY <1>4, <1>5, OutLetters
  <2>2. Argument \in Letters => Padded(cut) \in Letters
    BY <1>2, <1>7, PaddedLetters
  <2> QED BY <1>3, <2>1, <2>2
<1> HIDE DEF text
<1> QED BY <1>1, <1>2, <1>8, Writes

LEMMA PointerKeeps == ASSUME ProperCalls, Alphabet, CallInv, ArgumentsMatch, Pointer PROVE CallInv'
<1> DEFINE flags == spec.flags \cup {"0", "pointer"}
           width == LongBits \div 4 + 2
           nil == << ")", "l", "i", "n", "(" >>
           text == IF Argument = 0 THEN out_rev_(nil, width, flags)
                   ELSE print_integer(Argument, FALSE, 16, spec.precision, width, flags)
<1>1. Specifier({"p"}) /\ UNCHANGED << call, spec >> /\ Emit(text)
  BY DEF Pointer
<1>2. Running /\ format' \in Letters /\ phase' \notin {"idle", "returned"} /\ SpecOK
  <2> HIDE DEF Letters, text
  <2> QED BY <1>1, Specified
<1>3. Argument \in Nat
  BY <1>1 DEF ArgumentsMatch, Specifier, Argument
<1>4. nil \in Letters
  <2>1. {")", "l", "i", "n", "("} \subseteq Letter
    BY InAlphabet
  <2> QED BY <2>1 DEF Letters
<1>5. width \in Int /\ spec.precision \in Int
  BY <1>2, FormatAssumption DEF SpecOK, FormatAssumption
<1> HIDE DEF flags, width, nil, Letters
<1>6. text \in Letters
  <2>1. out_rev_(nil, width, flags) \in Letters
    BY <1>4, <1>5, OutLetters
  <2>2. print_integer(Argument, FALSE, 16, spec.precision, width, flags) \in Letters
    BY <1>3, <1>5, IntegerLetters
  <2> QED BY <2>1, <2>2
<1> HIDE DEF text
<1> QED BY <1>1, <1>2, <1>6, Writes

LEMMA WriteBackKeeps == ASSUME CallInv, WriteBack PROVE CallInv'
<1>1. Specifier({"n"}) /\ UNCHANGED << call, spec, gadget >>
  BY DEF WriteBack
<1> HIDE DEF Letters
<1>2. Running /\ format' \in Letters /\ phase' \notin {"idle", "returned"} /\ SpecOK
  BY <1>1, Specified
<1>3. SpecOK'
  BY <1>1, <1>2 DEF SpecOK
<1> QED BY <1>1, <1>2, <1>3, Reads

LEMMA LiteralKeeps == ASSUME ProperCalls, CallInv, Literal PROVE CallInv'
<1>1. /\ Running /\ format # << >> /\ Emit(<< Head(format) >>) /\ UNCHANGED << call, spec >>
      /\ format' = Tail(format) /\ phase' \notin {"idle", "returned"}
  BY DEF Literal, Running
<1>2. format \in Letters
  BY <1>1 DEF CallInv
<1>3. Tail(format) \in Letters /\ << Head(format) >> \in Letters
  BY <1>1, <1>2, TailLetters, One
<1> HIDE DEF Letters
<1> QED BY <1>1, <1>3, Writes

LEMMA PastKeeps == ASSUME CallInv, PastTheEnd PROVE CallInv'
<1>1. phase = "specifier" /\ phase' = "past" /\ call' = call
  BY DEF PastTheEnd
<1> QED BY <1>1 DEF CallInv, Running, Terminated

LEMMA FormatInitial == FormatInit => CallInv
  BY DEF FormatInit, CallInv, Running, Terminated

LEMMA CallStep ==
  ASSUME ProperCalls, Alphabet, CallInv, ArgumentsMatch, [Formatting \/ Calling]_formatVars
  PROVE  CallInv'
<1>1. CASE Formatting
  BY <1>1, TextKeeps, PercentKeeps, FlagsKeep, WidthKeeps, PointKeeps, PrecisionKeeps, LengthKeeps,
     IntegerKeeps, CharKeeps, StringKeeps, PointerKeeps, WriteBackKeeps, LiteralKeeps, PastKeeps, Ends
     DEF Formatting
<1>2. CASE Calling
  BY <1>2, Begins DEF Calling
<1>3. CASE UNCHANGED formatVars
  <2>1. UNCHANGED << call, phase, format, spec, gadget >>
    BY <1>3 DEF formatVars
  <2>2. Holds' <=> Holds
    BY <2>1 DEF Holds, Filled, GadgetOf
  <2>3. Terminated' <=> Terminated
    BY <2>1 DEF Terminated, Kept
  <2>4. (SpecOK' <=> SpecOK) /\ (Running' <=> Running)
    BY <2>1 DEF SpecOK, Running
  <2> HIDE DEF Letters
  <2> QED BY <2>1, <2>2, <2>3, <2>4 DEF CallInv
<1> QED BY <1>1, <1>2, <1>3

(* Whatever is called, one call after another, as long as every directive  *)
(* finds an argument of its type: snprintf keeps to the first n characters *)
(* of its buffer, fills it without a gap and ends it with the only NUL     *)
(* (printf.c:341-352, 373-381).                                 *)
THEOREM PrintfTerminates ==
  ASSUME ProperCalls, Alphabet
  PROVE  FormatSpec /\ []ArgumentsMatch => []Terminated
<1>1. CallInv /\ ArgumentsMatch /\ [Formatting \/ Calling]_formatVars => CallInv'
  BY CallStep
<1>2. CallInv => Terminated
  BY DEF CallInv
<1> QED BY <1>1, <1>2, FormatInitial, PTL DEF FormatSpec

-----------------------------------------------------------------------------
(* The programs.  Their texts are compared with the reference's, digit by  *)
(* digit: numbers first, then a call of printf, then a dump.               *)

(* The law of powers, a fact of arithmetic the provers have no theory of.  *)
Powers == \A b \in {2, 16}, k \in Nat : b^k \in Nat \ {0} /\ b^(k + 1) = b * b^k

LEMMA PowerStep ==
  ASSUME Powers
  PROVE  \A k \in Nat : /\ 16^k \in Nat \ {0} /\ 16^(k + 1) = 16 * 16^k
                        /\ 2^k \in Nat \ {0} /\ 2^(k + 1) = 2 * 2^k
<1> DEFINE Law(b, k) == b^k \in Nat \ {0} /\ b^(k + 1) = b * b^k
<1>1. \A b \in {2, 16}, k \in Nat : Law(b, k)
  BY DEF Powers
<1> HIDE DEF Law
<1>2. \A k \in Nat : Law(2, k) /\ Law(16, k)
  BY <1>1
<1> QED BY <1>2, Zenon DEF Law

LEMMA PowerOrder ==
  ASSUME Powers, NEW b \in {2, 16}, NEW m \in Nat, NEW n \in Nat, m <= n PROVE b^m <= b^n
<1> DEFINE p == [k \in Nat |-> b^k]
           T == {k \in Nat : p[m] <= p[m + k]}
<1>1. \A k \in Nat : p[k] \in Nat \ {0} /\ p[k + 1] = b * p[k]
  BY DEF Powers
<1>2. \A k \in Nat : p[k] = b^k
  OBVIOUS
<1> HIDE DEF p
<1>3. 0 \in T
  BY <1>1
<1>4. ASSUME NEW k \in T PROVE k + 1 \in T
  <2>1. k \in Nat /\ p[m] <= p[m + k]
    OBVIOUS
  <2>2. m + k \in Nat /\ m + (k + 1) = (m + k) + 1
    BY <2>1
  <2>3. p[m] \in Nat /\ p[m + k] \in Nat /\ p[(m + k) + 1] = b * p[m + k] /\ p[(m + k) + 1] \in Nat
    BY <1>1, <2>2
  <2>4. p[m + k] <= p[(m + k) + 1]
    BY <2>3
  <2>5. p[m] <= p[m + (k + 1)]
    BY <2>1, <2>2, <2>3, <2>4
  <2> QED BY <2>1, <2>5
<1>5. T = Nat
  <2>1. T \subseteq Nat
    OBVIOUS
  <2> HIDE DEF T
  <2> QED BY <1>3, <1>4, <2>1, SetInduction
<1>6. n - m \in Nat /\ m + (n - m) = n
  OBVIOUS
<1>7. n - m \in T
  <2> HIDE DEF T
  <2> QED BY <1>5, <1>6
<1>8. p[m] <= p[n]
  BY <1>6, <1>7
<1> QED BY <1>2, <1>8

LEMMA SixteenPower ==
  ASSUME Powers, NEW n \in Nat PROVE 16^n = 2^(4 * n)
<1> DEFINE p == [k \in Nat |-> 16^k]
           q == [k \in Nat |-> 2^k]
           T == {k \in Nat : p[k] = q[4 * k]}
<1>1. \A k \in Nat : p[k] \in Nat /\ p[k + 1] = 16 * p[k] /\ q[k] \in Nat /\ q[k + 1] = 2 * q[k]
  <2>1. \A k \in Nat : p[k] = 16^k /\ p[k + 1] = 16^(k + 1) /\ q[k] = 2^k /\ q[k + 1] = 2^(k + 1)
    OBVIOUS
  <2> HIDE DEF p, q
  <2> QED BY <2>1, PowerStep, Zenon
<1>2. \A k \in Nat : p[k] = 16^k /\ q[k] = 2^k
  OBVIOUS
<1>3. 16^0 = 1 /\ 2^0 = 1
  OBVIOUS
<1>4. p[0] = q[0]
  BY <1>3
<1> HIDE DEF p, q
<1>5. 0 \in T
  BY <1>4
<1>6. ASSUME NEW k \in T PROVE k + 1 \in T
  <2>1. k \in Nat /\ p[k] = q[4 * k]
    OBVIOUS
  <2> DEFINE m == 4 * k
  <2>2. m \in Nat /\ 4 * (k + 1) = ((((m + 1) + 1) + 1) + 1)
    BY <2>1
  <2> HIDE DEF m
  <2>3. /\ q[m] \in Nat /\ q[m + 1] = 2 * q[m] /\ q[(m + 1) + 1] = 2 * q[m + 1]
        /\ q[((m + 1) + 1) + 1] = 2 * q[(m + 1) + 1]
        /\ q[(((m + 1) + 1) + 1) + 1] = 2 * q[((m + 1) + 1) + 1]
    BY <1>1, <2>2
  <2>4. q[(((m + 1) + 1) + 1) + 1] = 16 * q[m]
    BY <2>3
  <2>5. p[k + 1] = 16 * p[k] /\ p[k] = q[m]
    BY <1>1, <2>1 DEF m
  <2>6. p[k + 1] = q[4 * (k + 1)]
    BY <2>2, <2>4, <2>5
  <2> QED BY <2>1, <2>6
<1>7. T = Nat
  <2>1. T \subseteq Nat
    OBVIOUS
  <2> HIDE DEF T
  <2> QED BY <1>5, <1>6, <2>1, SetInduction
<1>8. p[n] = q[4 * n] /\ 4 * n \in Nat
  BY <1>7
<1> QED BY <1>2, <1>8

(* An int has a value below every bound the digits need.                   *)
LEMMA IntRange ==
  ASSUME Powers
  PROVE  /\ 2^IntBits \in Nat \ {0} /\ 2^CharBits <= 2^IntBits
         /\ 2^IntBits <= 16^LongBits /\ 2^IntBits <= 16^PRINTF_INTEGER_BUFFER_SIZE
<1> DEFINE size == PRINTF_INTEGER_BUFFER_SIZE
<1>1. /\ CharBits \in Nat /\ IntBits \in Nat /\ LongBits \in Nat /\ size \in Nat
      /\ CharBits <= IntBits /\ IntBits <= LongBits /\ IntBits <= 4 * size
  BY FormatAssumption, PrintedAssumption, SMTT(30) DEF FormatAssumption, PrintedAssumption
<1>2. 4 * LongBits \in Nat /\ 4 * size \in Nat /\ IntBits <= 4 * LongBits
  BY <1>1
<1> HIDE DEF size
<1>3. 2^CharBits <= 2^IntBits /\ 2^IntBits <= 2^(4 * LongBits) /\ 2^IntBits <= 2^(4 * size)
  BY <1>1, <1>2, PowerOrder
<1>4. 16^LongBits = 2^(4 * LongBits) /\ 16^size = 2^(4 * size)
  BY <1>1, SixteenPower
<1>5. 2^IntBits \in Nat \ {0}
  BY <1>1 DEF Powers
<1> QED BY <1>3, <1>4, <1>5 DEF size

(* Both ways of taking a number's hexadecimal digits.                      *)
LEMMA HexDigits ==
  ASSUME Powers, NEW v \in Nat \ {0}, v < 2^IntBits
  PROVE  \E k \in 1..PRINTF_INTEGER_BUFFER_SIZE :
            /\ Digits(v, 16, Numeral) = [i \in 1..k |-> Numeral[((v \div 16^(i - 1)) % 16) + 1]]
            /\ Std!Digits(v, 16, Numeral) = [i \in 1..k |-> Numeral[((v \div 16^(k - i)) % 16) + 1]]
<1> DEFINE N == LongBits
           size == PRINTF_INTEGER_BUFFER_SIZE
           p == [k \in Nat |-> 16^k]
<1>1. N \in Nat \ {0} /\ size \in Nat \ {0}
  BY FormatAssumption DEF FormatAssumption
<1>2. \A k \in Nat : p[k] \in Nat \ {0} /\ p[k + 1] = 16 * p[k]
  <2>1. \A k \in Nat : p[k] = 16^k /\ p[k + 1] = 16^(k + 1)
    OBVIOUS
  <2> HIDE DEF p
  <2> QED BY <2>1, PowerStep, Zenon
<1>3. \A k \in Nat : p[k] = 16^k
  OBVIOUS
<1>4. \A m, n \in Nat : m <= n => p[m] <= p[n]
  BY PowerOrder
<1>5. p[0] = 1
  <2>1. 16^0 = 1
    OBVIOUS
  <2> QED BY <2>1
<1>6. v < p[N] /\ v < p[size]
  <2>1. 2^IntBits \in Nat /\ 2^IntBits <= 16^N /\ 2^IntBits <= 16^size
    BY IntRange
  <2>2. p[N] = 16^N /\ p[size] = 16^size
    BY <1>1, <1>3
  <2>3. p[N] \in Nat /\ p[size] \in Nat
    BY <1>1, <1>2
  <2> HIDE DEF p, N, size
  <2> QED BY <2>1, <2>2, <2>3
<1> HIDE DEF p
<1>7. PICK k \in Nat : v < p[k] /\ \A n \in Nat : v < p[n] => k <= n
  <2> DEFINE T == {n \in Nat : v < p[n]}
  <2>1. N \in T /\ T \subseteq Nat
    BY <1>1, <1>6
  <2>2. PICK n \in T : \A m \in T : n <= m
    <3> HIDE DEF T
    <3> QED BY <2>1, Least
  <2> QED BY <2>2
<1>8. k \in 1..size /\ k \in 1..N /\ k - 1 \in Nat /\ p[k - 1] <= v
  <2>1. k <= N /\ k <= size
    BY <1>1, <1>6, <1>7
  <2>2. k # 0
    BY <1>5, <1>7
  <2>3. k - 1 \in Nat /\ ~(v < p[k - 1]) /\ p[k - 1] \in Nat
    BY <1>2, <1>7, <2>2
  <2> QED BY <1>1, <2>1, <2>2, <2>3
<1>9. Digits(v, 16, Numeral) = [i \in 1..k |-> Numeral[((v \div p[i - 1]) % 16) + 1]]
  <2>1. PICK rest : Quotients(rest, v, 16, Numeral)
    BY DigitsRest
  <2> DEFINE K == {n \in 1..N : n = 1 \/ rest[n - 1] # 0}
  <2>2. /\ rest[0] = v /\ \A n \in 1..N : rest[n] = rest[n - 1] \div 16
        /\ Digits(v, 16, Numeral) = [n \in 1..Cardinality(K) |-> Numeral[(rest[n - 1] % 16) + 1]]
    BY <2>1 DEF Quotients
  <2> HIDE DEF N
  <2>3. \A n \in 0..N : rest[n] = v \div p[n]
    <3> DEFINE T == {n \in Nat : n <= N => rest[n] = v \div p[n]}
    <3>1. 0 \in T
      BY <1>5, <2>2
    <3>2. ASSUME NEW n \in T PROVE n + 1 \in T
      <4> SUFFICES ASSUME n + 1 <= N PROVE rest[n + 1] = v \div p[n + 1]
        OBVIOUS
      <4>1. n \in Nat /\ rest[n] = v \div p[n] /\ n + 1 \in 1..N /\ n + 1 - 1 = n
        BY <1>1
      <4> HIDE DEF T
      <4>2. rest[n + 1] = rest[n] \div 16
        <5>1. rest[n + 1] = rest[n + 1 - 1] \div 16
          BY <2>2, <4>1
        <5> QED BY <4>1, <5>1
      <4> DEFINE m == p[n]
      <4>3. m \in Nat \ {0} /\ p[n + 1] = 16 * m
        BY <1>2, <4>1
      <4>4. rest[n] = v \div m
        BY <4>1
      <4> HIDE DEF m
      <4>5. (v \div m) \div 16 = v \div (m * 16)
        BY <4>3
      <4>6. m * 16 = 16 * m
        BY <4>3
      <4> QED BY <4>2, <4>3, <4>4, <4>5, <4>6
    <3>3. T = Nat
      <4>1. T \subseteq Nat
        OBVIOUS
      <4> HIDE DEF T
      <4> QED BY <3>1, <3>2, <4>1, SetInduction
    <3> QED BY <1>1, <3>3
  <2>4. K = 1..k
    <3>1. ASSUME NEW n \in 1..N, n <= k PROVE n = 1 \/ rest[n - 1] # 0
      <4>1. n - 1 \in Nat /\ n - 1 <= k - 1 /\ n - 1 \in 0..N
        BY <1>1, <1>7, <3>1
      <4> DEFINE m == p[n - 1]
      <4>2. m \in Nat \ {0} /\ m <= p[k - 1] /\ p[k - 1] \in Nat
        BY <1>2, <1>4, <1>8, <4>1
      <4>3. rest[n - 1] = v \div m
        BY <2>3, <4>1
      <4> HIDE DEF m
      <4>4. m <= v
        BY <1>8, <4>2
      <4>5. v \div m # 0
        BY <4>2, <4>4
      <4> QED BY <4>3, <4>5
    <3>2. ASSUME NEW n \in 1..N, n > k PROVE ~(n = 1 \/ rest[n - 1] # 0)
      <4>1. n - 1 \in Nat /\ k <= n - 1 /\ n - 1 \in 0..N /\ n # 1
        <5>1. k \in Nat /\ k # 0
          BY <1>5, <1>7
        <5> QED BY <1>1, <3>2, <5>1
      <4> DEFINE m == p[n - 1]
      <4>2. m \in Nat \ {0} /\ p[k] <= m /\ p[k] \in Nat
        BY <1>2, <1>4, <1>7, <4>1
      <4>3. rest[n - 1] = v \div m
        BY <2>3, <4>1
      <4> HIDE DEF m
      <4>4. v < m
        BY <1>7, <4>2
      <4>5. v \div m = 0
        BY <4>2, <4>4
      <4> QED BY <4>1, <4>3, <4>5
    <3> QED BY <1>1, <1>8, <3>1, <3>2
  <2>5. Cardinality(K) = k
    <3>1. Cardinality(1..k) = k
      <4>1. 1 \in Int /\ k \in Int
        BY <1>7
      <4> QED BY <1>8, <4>1, FS_Interval
    <3> HIDE DEF K
    <3> QED BY <2>4, <3>1
  <2> HIDE DEF K
  <2>6. \A n \in 1..k : rest[n - 1] = v \div p[n - 1]
    <3>1. \A n \in 1..k : n - 1 \in 0..N
      BY <1>1, <1>8
    <3> QED BY <2>3, <3>1
  <2> DEFINE body(x) == Numeral[(x % 16) + 1]
  <2>7. Digits(v, 16, Numeral) = [n \in 1..k |-> body(rest[n - 1])]
    BY <2>2, <2>5
  <2> HIDE DEF body
  <2>8. Digits(v, 16, Numeral) = [n \in 1..k |-> body(v \div p[n - 1])]
    BY <2>6, <2>7
  <2> QED BY <2>8 DEF body
<1>10. Std!Digits(v, 16, Numeral) = [i \in 1..k |-> Numeral[((v \div p[k - i]) % 16) + 1]]
  <2> DEFINE Is(m) == p[m] > v /\ (m > 0 => p[m - 1] <= v)
             chosen == CHOOSE m \in 0..N : Is(m)
             Is_(m) == 16^m > v /\ (m > 0 => 16^(m - 1) <= v)
  <2>1. \A m \in 0..N : Is(m) <=> Is_(m)
    <3>1. \A m \in 0..N : p[m] = 16^m /\ (m > 0 => p[m - 1] = 16^(m - 1))
      <4>1. \A m \in 0..N : m \in Nat /\ (m > 0 => m - 1 \in Nat)
        BY <1>1
      <4> QED BY <1>3, <4>1
    <3> QED BY <3>1
  <2> DEFINE ch == CHOOSE m \in 0..N : Is_(m)
  <2>9. Std!Digits(v, 16, Numeral) = [i \in 1..ch |-> Numeral[((v \div 16^(ch - i)) % 16) + 1]]
    BY Zenon DEF Std!Digits
  <2>2. chosen = ch
    <3> HIDE DEF Is, Is_
    <3> QED BY <2>1
  <2>3. Is(k) /\ k \in 0..N
    BY <1>7, <1>8, <1>2
  <2>4. Is(chosen) /\ chosen \in 0..N
    <3> HIDE DEF Is
    <3> QED BY <2>3
  <2> HIDE DEF chosen, ch, N
  <2>5. chosen \in Nat /\ p[chosen] \in Nat
    BY <1>1, <1>2, <2>4
  <2>6. k <= chosen
    BY <1>7, <2>4, <2>5
  <2>7. ~(k < chosen)
    <3> SUFFICES ASSUME k < chosen PROVE FALSE
      OBVIOUS
    <3>1. chosen - 1 \in Nat /\ k <= chosen - 1 /\ chosen > 0
      BY <1>7, <2>5
    <3>2. p[k] <= p[chosen - 1] /\ p[chosen - 1] <= v /\ p[k] \in Nat /\ p[chosen - 1] \in Nat
      BY <1>2, <1>4, <1>7, <2>4, <3>1
    <3> QED BY <1>7, <3>2
  <2>8. chosen = k
    BY <1>7, <2>5, <2>6, <2>7
  <2>10. \A i \in 1..k : p[k - i] = 16^(k - i)
    <3>1. \A i \in 1..k : k - i \in Nat
      BY <1>7
    <3> QED BY <1>3, <3>1
  <2> DEFINE body(x) == Numeral[((v \div x) % 16) + 1]
  <2>11. Std!Digits(v, 16, Numeral) = [i \in 1..k |-> body(16^(k - i))]
    BY <2>2, <2>8, <2>9
  <2> HIDE DEF body
  <2>12. Std!Digits(v, 16, Numeral) = [i \in 1..k |-> body(p[k - i])]
    BY <2>10, <2>11
  <2> QED BY <2>12 DEF body
<1>11. \A i \in 1..k : p[i - 1] = 16^(i - 1) /\ p[k - i] = 16^(k - i)
  <2>1. \A i \in 1..k : i - 1 \in Nat /\ k - i \in Nat
    BY <1>7
  <2> QED BY <1>3, <2>1
<1> DEFINE body(x) == Numeral[((v \div x) % 16) + 1]
<1>12. /\ Digits(v, 16, Numeral) = [i \in 1..k |-> body(p[i - 1])]
       /\ Std!Digits(v, 16, Numeral) = [i \in 1..k |-> body(p[k - i])]
  BY <1>9, <1>10
<1> HIDE DEF body
<1>13. /\ Digits(v, 16, Numeral) = [i \in 1..k |-> body(16^(i - 1))]
       /\ Std!Digits(v, 16, Numeral) = [i \in 1..k |-> body(16^(k - i))]
  BY <1>11, <1>12
<1> QED BY <1>8, <1>13 DEF body

-----------------------------------------------------------------------------
(* Texts that fit where they are made.                                     *)
LEMMA SameSeq ==
  ASSUME NEW s \in Letters, NEW t \in Letters, Len(s) = Len(t), \A i \in 1..Len(s) : s[i] = t[i]
  PROVE  s = t
  BY DEF Letters

LEMMA EmptyLetters == << >> \in Letters /\ Len(<< >>) = 0
  BY EmptySeq DEF Letters

LEMMA NoLetters == ASSUME NEW s \in Letters, Len(s) = 0 PROVE s = << >>
  BY EmptySeq DEF Letters

LEMMA ConcatLetters ==
  ASSUME NEW s \in Letters, NEW t \in Letters
  PROVE  /\ s \o t \in Letters /\ Len(s \o t) = Len(s) + Len(t)
         /\ \A i \in 1..(Len(s) + Len(t)) : (s \o t)[i] = IF i <= Len(s) THEN s[i] ELSE t[i - Len(s)]
  BY ConcatProperties DEF Letters

LEMMA ConcatEmpty == ASSUME NEW s \in Letters PROVE s \o << >> = s /\ << >> \o s = s
  BY ConcatEmptySeq DEF Letters

LEMMA Assoc ==
  ASSUME NEW s \in Letters, NEW t \in Letters, NEW u \in Letters PROVE (s \o t) \o u = s \o (t \o u)
  BY ConcatAssociative DEF Letters

LEMMA WholePiece == ASSUME NEW s \in Letters PROVE SubSeq(s, 1, Len(s)) = s
<1>1. Len(s) \in Nat
  BY LettersType
<1>2. 1 \in 1..(Len(s) + 1) /\ Len(s) \in 0..Len(s)
  BY <1>1
<1>3. SubSeq(s, 1, Len(s)) \in Letters /\ Len(SubSeq(s, 1, Len(s))) = IF 1 <= Len(s) THEN Len(s) - 1 + 1 ELSE 0
  BY <1>2, Piece
<1>4. Len(SubSeq(s, 1, Len(s))) = Len(s)
  BY <1>1, <1>3
<1>5. \A i \in 1..Len(s) : SubSeq(s, 1, Len(s))[i] = s[i]
  <2>1. s \in Seq(Letter) /\ \A i \in 1..Len(s) : s[i] \in Letter
    BY LettersType DEF Letters
  <2>2. 1 \in Int /\ Len(s) \in Int /\ \A i \in 1..Len(s) : s[i] \in Letter
    BY <1>1, <2>1
  <2>3. \A i \in 1..(Len(s) - 1 + 1) : SubSeq(s, 1, Len(s))[i] = s[1 + i - 1]
    BY <1>1, <2>1, <2>2, SubSeqProperties
  <2>4. \A i \in 1..Len(s) : i \in 1..(Len(s) - 1 + 1) /\ 1 + i - 1 = i
    BY <1>1
  <2> QED BY <2>3, <2>4
<1> QED BY <1>3, <1>4, <1>5, SameSeq

LEMMA RoomFits ==
  ASSUME NEW s \in Letters, NEW t \in Letters, Len(s) + Len(t) <= PRINTF_INTEGER_BUFFER_SIZE
  PROVE  Room(s, t) = s \o t
<1>1. s \o t \in Letters /\ Len(s \o t) = Len(s) + Len(t)
  BY ConcatLetters
<1>2. Len(s) \in Nat /\ Len(t) \in Nat
  BY LettersType
<1>3. PRINTF_INTEGER_BUFFER_SIZE \in Nat
  BY FormatAssumption DEF FormatAssumption
<1>4. AtMost(Len(s \o t), PRINTF_INTEGER_BUFFER_SIZE) = Len(s \o t)
  BY <1>1, <1>2, <1>3 DEF AtMost
<1>5. Room(s, t) = SubSeq(s \o t, 1, Len(s \o t))
  BY <1>4 DEF Room
<1> QED BY <1>1, <1>5, WholePiece

LEMMA CopiesFacts ==
  ASSUME NEW n \in Int, NEW c \in Letter
  PROVE  /\ Copies(n, c) \in Letters /\ Len(Copies(n, c)) = (IF n < 0 THEN 0 ELSE n)
         /\ \A i \in 1..n : Copies(n, c)[i] = c
         /\ n <= 0 => Copies(n, c) = << >>
<1> DEFINE m == IF n < 0 THEN 0 ELSE n
<1>1. m \in Nat
  OBVIOUS
<1>2. Copies(n, c) = [i \in 1..m |-> c]
  BY DEF Copies
<1>3. Copies(n, c) \in Letters
  BY CopiesLetters
<1>4. Len(Copies(n, c)) = m
  <2> HIDE DEF m
  <2> QED BY <1>1, <1>2, LenProperties
<1>5. \A i \in 1..n : i \in 1..m
  OBVIOUS
<1>6. \A i \in 1..n : Copies(n, c)[i] = c
  <2> HIDE DEF m
  <2> QED BY <1>2, <1>5
<1>7. n <= 0 => Len(Copies(n, c)) = 0
  BY <1>4
<1> QED BY <1>3, <1>4, <1>6, <1>7, NoLetters

LEMMA ZeroPadFits ==
  ASSUME Alphabet, NEW s \in Letters, NEW n \in Int, Len(s) <= PRINTF_INTEGER_BUFFER_SIZE,
         n <= PRINTF_INTEGER_BUFFER_SIZE
  PROVE  ZeroPad(s, n) = s \o Copies(n - Len(s), "0")
<1>1. "0" \in Letter
  BY InAlphabet
<1>2. Len(s) \in Nat
  BY LettersType
<1> DEFINE m == n - Len(s)
           t == Copies(m, "0")
<1>3. m \in Int
  BY <1>2
<1>4. t \in Letters /\ Len(t) = (IF m < 0 THEN 0 ELSE m)
  <2> HIDE DEF m
  <2> QED BY <1>1, <1>3, CopiesFacts
<1>5. PRINTF_INTEGER_BUFFER_SIZE \in Nat
  BY FormatAssumption DEF FormatAssumption
<1> HIDE DEF t
<1>6. Len(s) + Len(t) <= PRINTF_INTEGER_BUFFER_SIZE
  BY <1>2, <1>4, <1>5
<1>7. Room(s, t) = s \o t
  BY <1>4, <1>6, RoomFits
<1> QED BY <1>7 DEF ZeroPad, t

LEMMA ReverseFacts ==
  ASSUME NEW s \in Letters
  PROVE  /\ Reverse(s) \in Letters /\ Len(Reverse(s)) = Len(s)
         /\ \A i \in 1..Len(s) : Reverse(s)[i] = s[(Len(s) - i) + 1]
<1>1. Len(s) \in Nat
  BY LettersType
<1>2. Reverse(s) = [i \in 1..Len(s) |-> s[(Len(s) - i) + 1]]
  BY DEF Reverse
<1>3. Len(Reverse(s)) = Len(s)
  BY <1>1, <1>2, LenProperties
<1> QED BY <1>2, <1>3, ReverseLetters

(* Zeros behind the reversed digits are zeros in front of the digits.      *)
LEMMA ReverseZeros ==
  ASSUME Alphabet, NEW s \in Letters, NEW n \in Int
  PROVE  Reverse(s \o Copies(n, "0")) = Copies(n, "0") \o Reverse(s)
<1> DEFINE z == Copies(n, "0")
           m == IF n < 0 THEN 0 ELSE n
<1>1. "0" \in Letter
  BY InAlphabet
<1>2. z \in Letters /\ Len(z) = m /\ \A i \in 1..m : z[i] = "0"
  <2>1. \A i \in 1..m : i \in 1..n
    OBVIOUS
  <2> QED BY <1>1, <2>1, CopiesFacts
<1>3. Len(s) \in Nat /\ m \in Nat
  BY LettersType
<1> HIDE DEF z, m
<1>4. /\ s \o z \in Letters /\ Len(s \o z) = Len(s) + m
      /\ \A i \in 1..(Len(s) + m) : (s \o z)[i] = IF i <= Len(s) THEN s[i] ELSE z[i - Len(s)]
  BY <1>2, ConcatLetters
<1>5. /\ Reverse(s) \in Letters /\ Len(Reverse(s)) = Len(s)
      /\ \A i \in 1..Len(s) : Reverse(s)[i] = s[(Len(s) - i) + 1]
  BY ReverseFacts
<1> DEFINE r == Reverse(s)
           a == Reverse(s \o z)
           b == z \o r
<1>6. /\ a \in Letters /\ Len(a) = Len(s) + m
      /\ \A i \in 1..(Len(s) + m) : a[i] = (s \o z)[(Len(s) + m - i) + 1]
  <2> DEFINE u == s \o z
  <2>1. u \in Letters /\ Len(u) = Len(s) + m
    BY <1>4
  <2> HIDE DEF u
  <2>2. /\ Reverse(u) \in Letters /\ Len(Reverse(u)) = Len(u)
        /\ \A i \in 1..Len(u) : Reverse(u)[i] = u[(Len(u) - i) + 1]
    BY <2>1, ReverseFacts
  <2>3. /\ Reverse(u) \in Letters /\ Len(Reverse(u)) = Len(s) + m
        /\ \A i \in 1..(Len(s) + m) : Reverse(u)[i] = u[(Len(s) + m - i) + 1]
    <3>1. Len(Reverse(u)) = Len(s) + m
      BY <2>1, <2>2
    <3>2. ASSUME NEW i \in 1..(Len(s) + m) PROVE Reverse(u)[i] = u[(Len(s) + m - i) + 1]
      <4>1. i \in 1..Len(u)
        BY <2>1
      <4>2. Reverse(u)[i] = u[(Len(u) - i) + 1]
        BY <2>2, <4>1
      <4>3. (Len(u) - i) + 1 = (Len(s) + m - i) + 1
        BY <1>3, <2>1
      <4> QED BY <4>2, <4>3
    <3> QED BY <2>2, <3>1, <3>2
  <2> QED BY <2>3 DEF u
<1> HIDE DEF r
<1>7. /\ b \in Letters /\ Len(b) = m + Len(s)
      /\ \A i \in 1..(m + Len(s)) : b[i] = IF i <= m THEN z[i] ELSE r[i - m]
  <2>1. r \in Letters /\ Len(r) = Len(s)
    BY <1>5 DEF r
  <2>2. /\ z \o r \in Letters /\ Len(z \o r) = Len(z) + Len(r)
        /\ \A i \in 1..(Len(z) + Len(r)) : (z \o r)[i] = IF i <= Len(z) THEN z[i] ELSE r[i - Len(z)]
    BY <1>2, <2>1, ConcatLetters, Zenon
  <2> QED BY <1>2, <2>1, <2>2
<1> HIDE DEF a, b
<1>8. ASSUME NEW i \in 1..(Len(s) + m) PROVE a[i] = b[i]
  <2>1. CASE i <= m
    <3>1. (Len(s) + m - i) + 1 \in 1..(Len(s) + m) /\ (Len(s) + m - i) + 1 > Len(s)
      BY <1>3, <2>1
    <3> DEFINE k == (Len(s) + m - i) + 1
               w == s \o z
    <3>6. /\ a[i] = w[k]
          /\ \A h \in 1..(Len(s) + m) : w[h] = IF h <= Len(s) THEN s[h] ELSE z[h - Len(s)]
      BY <1>4, <1>6
    <3>7. k \in Int /\ k \in 1..(Len(s) + m) /\ k > Len(s)
      BY <1>3, <3>1
    <3> HIDE DEF k, w
    <3>8. a[i] = z[k - Len(s)]
      BY <1>3, <3>6, <3>7
    <3>3. k - Len(s) \in 1..m /\ i \in 1..m
      BY <1>3, <2>1 DEF k
    <3>4. a[i] = "0" /\ z[i] = "0"
      BY <1>2, <3>8, <3>3
    <3>5. b[i] = z[i]
      BY <1>3, <1>7, <2>1
    <3> QED BY <3>4, <3>5
  <2>2. CASE i > m
    <3>1. (Len(s) + m - i) + 1 \in 1..Len(s) /\ i - m \in 1..Len(s)
          /\ (Len(s) - (i - m)) + 1 = (Len(s) + m - i) + 1
      BY <1>3, <2>2
    <3>2. (Len(s) + m - i) + 1 \in 1..(Len(s) + m) /\ (Len(s) + m - i) + 1 <= Len(s)
      BY <1>3, <3>1
    <3>3. a[i] = s[(Len(s) + m - i) + 1]
      BY <1>4, <1>6, <3>2
    <3>4. r[i - m] = s[(Len(s) - (i - m)) + 1]
      BY <1>5, <3>1 DEF r
    <3>5. b[i] = r[i - m]
      BY <1>3, <1>7, <2>2
    <3> QED BY <3>1, <3>3, <3>4, <3>5
  <2> QED BY <1>3, <2>1, <2>2
<1>9. Len(a) = Len(b)
  BY <1>3, <1>6, <1>7
<1>10. a = b
  BY <1>6, <1>7, <1>8, <1>9, SameSeq
<1> QED BY <1>10 DEF a, b, r, z

-----------------------------------------------------------------------------
LEMMA StdZeros == ASSUME NEW n \in Int PROVE Std!Zeros(n) = Copies(n, "0")
<1>1. Std!Longer(n, 0) = IF n < 0 THEN 0 ELSE n
  BY DEF Std!Longer
<1> QED BY <1>1, Zenon DEF Std!Zeros, Copies

LEMMA AtLeastIs ==
  ASSUME NEW s \in Letters, NEW n \in Int PROVE Std!AtLeast(n, s) = Copies(n - Len(s), "0") \o s
<1>1. n - Len(s) \in Int
  BY LettersType
<1> QED BY <1>1, StdZeros DEF Std!AtLeast

(* A number without sign or prefix is the reversed buffer, behind zeros.   *)
LEMMA FinalPlain ==
  ASSUME Alphabet, NEW buf \in Letters, Len(buf) \in 1..PRINTF_INTEGER_BUFFER_SIZE
  PROVE  /\ print_integer_finalization(buf, FALSE, 16, 0, 0, {}) = Reverse(buf)
         /\ print_integer_finalization(buf, FALSE, 16, 0, 8, {"0"}) =
              Copies(8 - Len(buf), "0") \o Reverse(buf)
<1>1. /\ PRINTF_INTEGER_BUFFER_SIZE \in Nat /\ 8 <= PRINTF_INTEGER_BUFFER_SIZE
      /\ 0 <= PRINTF_INTEGER_BUFFER_SIZE
  BY FormatAssumption, PrintedAssumption DEF FormatAssumption, PrintedAssumption
<1>2. "0" \in Letter /\ " " \in Letter
  BY InAlphabet
<1>3. ASSUME NEW s \in Letters, 0 < Len(s), Len(s) <= PRINTF_INTEGER_BUFFER_SIZE
      PROVE  ZeroPad(s, 0) = s /\ Room(s, << >>) = s
  <2>1. Len(s) \in Nat
    BY LettersType
  <2>2. 0 - Len(s) \in Int /\ 0 - Len(s) <= 0
    BY <2>1
  <2>3. Copies(0 - Len(s), "0") = << >>
    BY <1>2, <2>2, CopiesFacts
  <2>4. ZeroPad(s, 0) = s \o Copies(0 - Len(s), "0")
    <3>1. 0 \in Int /\ s \in Letters
      BY <1>3
    <3> QED BY <1>1, <1>3, <3>1, ZeroPadFits
  <2>5. Room(s, << >>) = s \o << >>
    <3>1. << >> \in Letters /\ Len(s) + Len(<< >>) <= PRINTF_INTEGER_BUFFER_SIZE
      BY <1>3, <2>1, EmptyLetters
    <3> QED BY <1>3, <3>1, RoomFits
  <2> QED BY <2>3, <2>4, <2>5, ConcatEmpty
<1> DEFINE z == ZeroPad(buf, 8)
           n == 8 - Len(buf)
<1>4. /\ z = buf \o Copies(n, "0") /\ z \in Letters /\ Len(z) <= PRINTF_INTEGER_BUFFER_SIZE
      /\ 0 < Len(z) /\ n \in Int
  <2>1. z = buf \o Copies(n, "0")
    <3>1. 8 \in Int /\ Len(buf) <= PRINTF_INTEGER_BUFFER_SIZE
      BY <1>1
    <3> QED BY <1>1, <3>1, ZeroPadFits
  <2>2. n \in Int
    OBVIOUS
  <2>3. /\ z \in Letters /\ Len(z) \in Nat /\ Len(z) <= PRINTF_INTEGER_BUFFER_SIZE
        /\ Len(buf) <= Len(z)
    <3>1. 8 \in Int /\ Len(buf) <= PRINTF_INTEGER_BUFFER_SIZE
      BY <1>1
    <3> QED BY <3>1, ZeroPadLength, ZeroPadLetters
  <2> QED BY <2>1, <2>2, <2>3
<1>5. SignOf(FALSE, {}) = << >> /\ SignOf(FALSE, {"0"}) = << >>
  BY DEF SignOf
<1>6. print_integer_finalization(buf, FALSE, 16, 0, 0, {}) = out_rev_(buf, 0, {})
  <2>1. ZeroPad(buf, 0) = buf /\ Room(buf, << >>) = buf
    BY <1>3
  <2> QED BY <1>5, <2>1 DEF print_integer_finalization
<1>7. print_integer_finalization(buf, FALSE, 16, 0, 8, {"0"}) = out_rev_(z, 8, {"0"})
  <2>1. ZeroPad(z, 0) = z /\ Room(z, << >>) = z
    BY <1>3, <1>4
  <2> HIDE DEF z
  <2>2. ZeroPad(buf, 8) = z
    BY DEF z
  <2> QED BY <1>5, <2>1, <2>2 DEF print_integer_finalization
<1>8. out_rev_(buf, 0, {}) = Reverse(buf)
  <2>1. 0 - Len(buf) \in Int /\ 0 - Len(buf) <= 0
    OBVIOUS
  <2>2. Copies(0 - Len(buf), " ") = << >>
    BY <1>2, <2>1, CopiesFacts
  <2>3. out_rev_(buf, 0, {}) = Copies(0 - Len(buf), " ") \o Reverse(buf)
    BY DEF out_rev_
  <2> QED BY <2>2, <2>3, ReverseLetters, ConcatEmpty
<1>9. out_rev_(z, 8, {"0"}) = Reverse(z)
  <2> HIDE DEF z
  <2> QED BY DEF out_rev_
<1>10. Reverse(z) = Copies(n, "0") \o Reverse(buf)
  <2> HIDE DEF n, z
  <2> QED BY <1>4, ReverseZeros
<1> QED BY <1>6, <1>7, <1>8, <1>9, <1>10

LEMMA NoDigits == ASSUME Powers PROVE Hex(0) = << >>
<1> DEFINE N == LongBits
           Is(m) == 16^m > 0 /\ (m > 0 => 16^(m - 1) <= 0)
           chosen == CHOOSE m \in 0..N : Is(m)
<1>1. N \in Nat
  BY FormatAssumption DEF FormatAssumption
<1>2. \A m \in Nat : 16^m \in Nat \ {0}
  BY PowerStep
<1>3. Is(0)
  BY <1>2
<1>4. ASSUME NEW m \in 0..N, Is(m) PROVE m = 0
  <2> SUFFICES ASSUME m > 0 PROVE FALSE
    BY <1>1
  <2>1. m - 1 \in Nat
    BY <1>1
  <2>2. 16^(m - 1) <= 0
    BY <1>4
  <2> QED BY <1>2, <2>1, <2>2
<1>5. chosen = 0
  <2> HIDE DEF Is, N
  <2>1. 0 \in 0..N
    BY <1>1
  <2> QED BY <1>3, <1>4, <2>1
<1> DEFINE body(ch, i) == Numeral[((0 \div 16^(ch - i)) % 16) + 1]
<1>6. Hex(0) = [i \in 1..chosen |-> body(chosen, i)]
  BY Zenon DEF Hex, Std!Digits
<1> HIDE DEF chosen, body
<1> QED BY <1>5, <1>6

(* printf's %x and %08x of an int are its hexadecimal digits.              *)
HexArgs(zero) == IF zero THEN {"0"} ELSE {}
HexWidth(zero) == IF zero THEN 8 ELSE 0
HexText(v, zero) == Std!AtLeast(IF zero THEN 8 ELSE 1, Hex(v))

LEMMA HexIsText ==
  ASSUME Powers, Alphabet, NEW v \in 0..(2^IntBits - 1), NEW zero \in BOOLEAN
  PROVE  /\ print_integer(v, FALSE, 16, 0, HexWidth(zero), HexArgs(zero)) = HexText(v, zero)
         /\ HexText(v, zero) \in Letters /\ Len(HexText(v, zero)) <= PRINTF_INTEGER_BUFFER_SIZE
<1> DEFINE size == PRINTF_INTEGER_BUFFER_SIZE
           count == IF zero THEN 8 ELSE 1
<1>1. size \in Nat /\ 8 <= size
  BY FormatAssumption, PrintedAssumption DEF FormatAssumption, PrintedAssumption
<1>2. "0" \in Letter
  BY InAlphabet
<1>3. 2^IntBits \in Nat /\ v \in Nat /\ v < 2^IntBits
  BY IntRange
<1>4. count \in Int /\ count <= size
  BY <1>1
<1>5. CASE v = 0
  <2> DEFINE c == Copies(count, "0")
  <2>1. c \in Letters /\ Len(c) = count /\ \A i \in 1..count : c[i] = "0"
    <3>1. count \in Int /\ ~(count < 0)
      OBVIOUS
    <3> HIDE DEF count
    <3> QED BY <1>2, <3>1, CopiesFacts
  <2>2. HexText(v, zero) = c
    <3>1. Hex(v) = << >>
      BY <1>5, NoDigits
    <3>2. HexText(v, zero) = Copies(count - 0, "0") \o << >>
      BY <1>4, <3>1, EmptyLetters, AtLeastIs DEF HexText
    <3>3. count - 0 = count
      BY <1>4
    <3> HIDE DEF count
    <3> QED BY <2>1, <3>2, <3>3, ConcatEmpty
  <2> DEFINE o == << "0" >>
  <2>3. o \in Letters /\ Len(o) = 1 /\ o[1] = "0"
    BY <1>2, One
  <2>4. Reverse(o) = o
    <3> HIDE DEF o
    <3>1. /\ Reverse(o) \in Letters /\ Len(Reverse(o)) = Len(o)
          /\ \A i \in 1..Len(o) : Reverse(o)[i] = o[(Len(o) - i) + 1]
      BY <2>3, ReverseFacts
    <3>2. \A i \in 1..Len(o) : i = 1
      BY <2>3
    <3>3. \A i \in 1..Len(o) : Reverse(o)[i] = o[i]
      BY <2>3, <3>1, <3>2
    <3> QED BY <2>3, <3>1, <3>3, SameSeq
  <2>5. print_integer(v, FALSE, 16, 0, HexWidth(zero), HexArgs(zero)) =
          print_integer_finalization(o, FALSE, 16, 0, HexWidth(zero), HexArgs(zero))
    <3>1. HexArgs(zero) \ {"#"} = HexArgs(zero) /\ "precision" \notin HexArgs(zero)
      BY DEF HexArgs
    <3> QED BY <1>5, <3>1 DEF print_integer
  <2>6. /\ print_integer_finalization(o, FALSE, 16, 0, 0, {}) = Reverse(o)
        /\ print_integer_finalization(o, FALSE, 16, 0, 8, {"0"}) = Copies(8 - Len(o), "0") \o Reverse(o)
    <3> HIDE DEF o
    <3>1. Len(o) \in 1..size
      BY <1>1, <2>3
    <3> QED BY <2>3, <3>1, FinalPlain
  <2>7. CASE zero
    <3> DEFINE s == Copies(7, "0")
               t == s \o o
    <3>1. s \in Letters /\ Len(s) = 7 /\ \A i \in 1..7 : s[i] = "0"
      <4>1. 7 \in Int /\ ~(7 < 0)
        OBVIOUS
      <4> QED BY <1>2, <4>1, CopiesFacts
    <3> HIDE DEF s, o
    <3>2. t \in Letters /\ Len(t) = 8 /\ \A i \in 1..8 : t[i] = IF i <= 7 THEN s[i] ELSE o[i - 7]
      <4>1. /\ t \in Letters /\ Len(t) = Len(s) + Len(o)
            /\ \A i \in 1..(Len(s) + Len(o)) : t[i] = IF i <= Len(s) THEN s[i] ELSE o[i - Len(s)]
        BY <2>3, <3>1, ConcatLetters
      <4> HIDE DEF t
      <4>2. Len(s) + Len(o) = 8 /\ Len(s) = 7
        BY <2>3, <3>1
      <4> QED BY <4>1, <4>2
    <3>3. \A i \in 1..8 : t[i] = "0"
      BY <2>3, <3>1, <3>2
    <3> HIDE DEF t, c
    <3>4. t = c
      BY <2>1, <2>7, <3>2, <3>3, SameSeq
    <3>5. print_integer(v, FALSE, 16, 0, HexWidth(zero), HexArgs(zero)) = Copies(8 - Len(o), "0") \o o
      BY <2>4, <2>5, <2>6, <2>7 DEF HexWidth, HexArgs
    <3>6. 8 - Len(o) = 7
      BY <2>3
    <3> QED BY <1>4, <2>1, <2>2, <3>4, <3>5, <3>6 DEF s, t
  <2>8. CASE ~zero
    <3> HIDE DEF o, c
    <3>1. o = c
      BY <2>1, <2>3, <2>8, SameSeq
    <3>2. print_integer(v, FALSE, 16, 0, HexWidth(zero), HexArgs(zero)) = o
      BY <2>4, <2>5, <2>6, <2>8 DEF HexWidth, HexArgs
    <3> QED BY <1>4, <2>1, <2>2, <3>1, <3>2
  <2> QED BY <2>7, <2>8
<1>6. CASE v # 0
  <2> DEFINE d == Digits(v, 16, Numeral)
             h == Hex(v)
  <2>1. PICK k \in 1..size :
          /\ d = [i \in 1..k |-> Numeral[((v \div 16^(i - 1)) % 16) + 1]]
          /\ h = [i \in 1..k |-> Numeral[((v \div 16^(k - i)) % 16) + 1]]
    BY <1>3, <1>6, HexDigits DEF Hex
  <2>2. d \in Letters
    <3>1. Numeral \in Nums
      BY DEF Nums
    <3> QED BY <1>3, <3>1, DigitsLetters
  <2>3. k \in Nat /\ 1 <= k /\ k <= size
    BY <1>1
  <2> DEFINE letter(m) == Numeral[((v \div 16^m) % 16) + 1]
  <2>4. d = [i \in 1..k |-> letter(i - 1)] /\ h = [i \in 1..k |-> letter(k - i)]
    BY <2>1
  <2> HIDE DEF d, h, letter
  <2>5. Len(d) = k /\ Len(h) = k
    BY <2>3, <2>4, LenProperties
  <2>6. h = Reverse(d)
    <3>1. Reverse(d) = [i \in 1..k |-> d[(k - i) + 1]]
      BY <2>5 DEF Reverse
    <3>2. \A i \in 1..k : d[(k - i) + 1] = letter(k - i)
      <4>1. \A i \in 1..k : (k - i) + 1 \in 1..k /\ ((k - i) + 1) - 1 = k - i
        BY <2>3
      <4> QED BY <2>4, <4>1
    <3> QED BY <2>4, <3>1, <3>2
  <2>7. h \in Letters
    BY <2>2, <2>6, ReverseLetters
  <2>8. print_integer(v, FALSE, 16, 0, HexWidth(zero), HexArgs(zero)) =
          print_integer_finalization(d, FALSE, 16, 0, HexWidth(zero), HexArgs(zero))
    <3>1. Room(<< >>, d) = d
      <4>1. Len(<< >>) + Len(d) <= size /\ Len(d) \in Nat
        BY <1>1, <2>3, <2>5, EmptyLetters
      <4>2. Room(<< >>, d) = << >> \o d
        BY <2>2, <4>1, EmptyLetters, RoomFits
      <4> QED BY <2>2, <4>2, ConcatEmpty
    <3>2. "X" \notin HexArgs(zero)
      BY DEF HexArgs
    <3>3. Digits(v, 16, Numeral) = d
      BY DEF d
    <3> QED BY <1>6, <3>1, <3>2, <3>3 DEF print_integer
  <2>9. /\ print_integer_finalization(d, FALSE, 16, 0, 0, {}) = h
        /\ print_integer_finalization(d, FALSE, 16, 0, 8, {"0"}) = Copies(8 - Len(d), "0") \o h
    BY <2>2, <2>5, <2>6, FinalPlain
  <2>10. HexText(v, zero) = Copies(count - k, "0") \o h
    <3>1. Hex(v) = h
      BY DEF h
    <3> QED BY <1>4, <2>5, <2>7, <3>1, AtLeastIs DEF HexText
  <2> DEFINE z == Copies(count - k, "0")
  <2>11. z \in Letters /\ Len(z) + k <= size
    <3>1. count - k \in Int
      BY <1>4, <2>3
    <3>2. z \in Letters /\ Len(z) = IF count - k < 0 THEN 0 ELSE count - k
      BY <1>2, <3>1, CopiesFacts
    <3> QED BY <1>4, <2>3, <3>2
  <2>12. z \o h \in Letters /\ Len(z \o h) <= size
    <3> HIDE DEF z
    <3>1. z \o h \in Letters /\ Len(z \o h) = Len(z) + Len(h)
      BY <2>7, <2>11, ConcatLetters
    <3> QED BY <2>5, <2>11, <3>1
  <2>13. print_integer(v, FALSE, 16, 0, HexWidth(zero), HexArgs(zero)) = z \o h
    <3>1. CASE zero
      BY <2>5, <2>8, <2>9, <3>1 DEF HexWidth, HexArgs
    <3>2. CASE ~zero
      <4>1. 1 - k \in Int /\ 1 - k <= 0
        BY <2>3
      <4>2. Copies(1 - k, "0") = << >>
        BY <1>2, <4>1, CopiesFacts
      <4>3. z = << >>
        BY <3>2, <4>2
      <4> HIDE DEF z
      <4> QED BY <2>7, <2>8, <2>9, <3>2, <4>3, ConcatEmpty DEF HexWidth, HexArgs
    <3> QED BY <3>1, <3>2
  <2> QED BY <2>10, <2>12, <2>13
<1> QED BY <1>5, <1>6

-----------------------------------------------------------------------------
(* A call of printf with one directive, from its beginning to its end.     *)
Kinds == {"s", "c", "x", "08x"}
Conv(kind) == IF kind = "08x" THEN "x" ELSE kind
Zero(kind) == kind = "08x"
Fits(kind, a) == \/ kind = "s" /\ a \in Letters
                 \/ kind = "c" /\ a \in Letter
                 \/ kind \in {"x", "08x"} /\ a \in 0..(2^IntBits - 1)
ValueText(kind, a) == IF kind = "s" THEN a ELSE IF kind = "c" THEN << a >> ELSE HexText(a, Zero(kind))

(* What the programs print is in Letter, and no string is NULL.            *)
Texts ==
    /\ {"%", "s", "c", "x", "0", "8", "LF", " ", ":", "|", ".", "'", "hexdump", " <filename>",
        "Not enough arguments! Usage: ", "Couldn't find file '"} \subseteq Letter
    /\ Names \subseteq Letter /\ DOMAIN Code \ {"NUL"} \subseteq Letter
    /\ NULL \notin Letters
Plain == {s \in Letters : \A i \in 1..Len(s) : s[i] # "%"}

With(T) == [to |-> "putchar", pos |-> Len(T), max_chars |-> PRINTF_MAX_POSSIBLE_BUFFER_SIZE,
            out |-> [p \in 0..(Len(T) - 1) |-> T[p + 1]]]

(* The format after the %, after its flags and after its width.            *)
AfterWidth(kind, post) == << Conv(kind) >> \o post
AfterFlags(kind, post) == IF Zero(kind) THEN << "8" >> \o AfterWidth(kind, post) ELSE AfterWidth(kind, post)
AfterPercent(kind, post) == IF Zero(kind) THEN << "0" >> \o AfterFlags(kind, post) ELSE AfterFlags(kind, post)
SpecOf(kind, width) == [flags |-> HexArgs(Zero(kind)), width |-> width, precision |-> 0]

Trailing(text, T, post) == phase = "text" /\ format = post /\ text = T \o post
LeadingIn(text, T, post, kind, a) ==
    /\ phase = "text"
    /\ \E pre \in Plain : /\ format = pre \o (<< "%" >> \o AfterPercent(kind, post))
                          /\ text = T \o (pre \o (ValueText(kind, a) \o post))
Within(text, T, post, kind, a) ==
    /\ text = T \o (ValueText(kind, a) \o post)
    /\ \/ phase = "flags" /\ spec = NoSpec /\ format = AfterPercent(kind, post)
       \/ phase = "width" /\ spec = SpecOf(kind, 0) /\ format = AfterFlags(kind, post)
       \/ /\ phase \in {"precision", "length", "specifier"} /\ spec = SpecOf(kind, HexWidth(Zero(kind)))
          /\ format = AfterWidth(kind, post)
Sending(text, T, post) ==
    /\ T \in Letters /\ post \in Plain
    /\ call.to = "putchar" /\ gadget = With(T)
    /\ text \in Letters /\ Len(text) <= PRINTF_MAX_POSSIBLE_BUFFER_SIZE
Midway(text, T, post, kind, a) ==
    /\ kind \in Kinds /\ Fits(kind, a) /\ args = << a >>
    /\ LeadingIn(text, T, post, kind, a) \/ Within(text, T, post, kind, a)
Pending(text) ==
    \E T, post : /\ Sending(text, T, post)
                 /\ Trailing(text, T, post) \/ \E kind, a : Midway(text, T, post, kind, a)

-----------------------------------------------------------------------------
LEMMA Refill ==
  ASSUME NEW to, NEW max, NEW at, NEW was, NEW n, NEW o, NEW g, NEW h,
         g = [to |-> to, pos |-> at, max_chars |-> max, out |-> was],
         h = [g EXCEPT !.pos = n, !.out = o]
  PROVE  h = [to |-> to, pos |-> n, max_chars |-> max, out |-> o]
  OBVIOUS

LEMMA PutText ==
  ASSUME NEW T \in Letters, NEW s \in Letters, Len(T) + Len(s) <= PRINTF_MAX_POSSIBLE_BUFFER_SIZE
  PROVE  putchar_via_gadget(With(T), s) = With(T \o s)
<1> DEFINE max == PRINTF_MAX_POSSIBLE_BUFFER_SIZE
           m == Len(T)
           n == Len(s)
           u == T \o s
           W == {p \in m..(m + n - 1) : p < max}
           body(p) == IF p \in W THEN s[p - m + 1] ELSE T[p + 1]
           out == [p \in 0..(m - 1) |-> T[p + 1]]
           F(o) == [p \in DOMAIN o \cup W |-> IF p \in W THEN s[p - m + 1] ELSE o[p]]
<1>1. m \in Nat /\ n \in Nat /\ max \in Nat
  BY LettersType, FormatAssumption DEF FormatAssumption
<1>2. u \in Letters /\ Len(u) = m + n /\ \A i \in 1..(m + n) : u[i] = IF i <= m THEN T[i] ELSE s[i - m]
  BY ConcatLetters
<1>3. putchar_via_gadget(With(T), s) = [With(T) EXCEPT !.pos = @ + n, !.out = F(@)]
  BY DEF putchar_via_gadget, With
<1>4. With(T) = [to |-> "putchar", pos |-> m, max_chars |-> max, out |-> out]
  BY DEF With
<1> HIDE DEF u, W, out, F
<1>12. putchar_via_gadget(With(T), s) = [to |-> "putchar", pos |-> m + n, max_chars |-> max, out |-> F(out)]
  <2> DEFINE r == With(T)
  <2>1. r = [to |-> "putchar", pos |-> m, max_chars |-> max, out |-> out]
    BY <1>4
  <2>2. putchar_via_gadget(With(T), s) = [r EXCEPT !.pos = r.pos + n, !.out = F(r.out)]
    BY <1>3
  <2> HIDE DEF r
  <2>3. r.pos = m /\ r.out = out
    BY <2>1
  <2> DEFINE o == F(out)
             k == m + n
  <2>4. putchar_via_gadget(With(T), s) = [r EXCEPT !.pos = k, !.out = o]
    BY <2>2, <2>3
  <2> HIDE DEF o, k, m, max
  <2>5. putchar_via_gadget(With(T), s) = [to |-> "putchar", pos |-> k, max_chars |-> max, out |-> o]
    BY <2>1, <2>4, Refill
  <2> QED BY <2>5 DEF o, k
<1>5. putchar_via_gadget(With(T), s) =
        [to |-> "putchar", pos |-> m + n, max_chars |-> max,
         out |-> [p \in DOMAIN out \cup W |-> IF p \in W THEN s[p - m + 1] ELSE out[p]]]
  BY <1>12 DEF F
<1>6. DOMAIN out = 0..(m - 1) /\ \A p \in 0..(m - 1) : out[p] = T[p + 1]
  BY DEF out
<1>7. W = m..(m + n - 1)
  BY <1>1 DEF W
<1>8. DOMAIN out \cup W = 0..(m + n - 1)
  BY <1>1, <1>6, <1>7
<1>9. \A p \in 0..(m + n - 1) : (IF p \in W THEN s[p - m + 1] ELSE out[p]) = u[p + 1]
  <2> TAKE p \in 0..(m + n - 1)
  <2>1. p + 1 \in 1..(m + n)
    BY <1>1
  <2>2. u[p + 1] = IF p + 1 <= m THEN T[p + 1] ELSE s[p + 1 - m]
    BY <1>2, <2>1
  <2>3. CASE p \in W
    <3>1. ~(p + 1 <= m) /\ p + 1 - m = p - m + 1
      BY <1>1, <1>7, <2>3
    <3> QED BY <2>2, <2>3, <3>1
  <2>4. CASE p \notin W
    <3>1. p + 1 <= m /\ p \in 0..(m - 1)
      BY <1>1, <1>7, <2>4
    <3> QED BY <1>6, <2>2, <2>4, <3>1
  <2> QED BY <2>3, <2>4
<1>10. [p \in DOMAIN out \cup W |-> IF p \in W THEN s[p - m + 1] ELSE out[p]] = [p \in 0..(m + n - 1) |-> u[p + 1]]
  BY <1>8, <1>9
<1>11. With(u) = [to |-> "putchar", pos |-> m + n, max_chars |-> max, out |-> [p \in 0..(m + n - 1) |-> u[p + 1]]]
  BY <1>2 DEF With
<1> QED BY <1>5, <1>10, <1>11 DEF u

(* A symbol in front of a text. *)
LEMMA Prepended ==
  ASSUME NEW c \in Letter, NEW s \in Letters
  PROVE  LET t == << c >> \o s
         IN /\ t \in Letters /\ Len(t) = Len(s) + 1 /\ t # << >> /\ Head(t) = c /\ Tail(t) = s
            /\ t[1] = c /\ \A i \in 1..Len(s) : t[i + 1] = s[i]
<1> DEFINE o == << c >>
           t == o \o s
<1>1. o \in Letters /\ Len(o) = 1 /\ o[1] = c
  BY One
<1>2. Len(s) \in Nat
  BY LettersType
<1> HIDE DEF o
<1>3. t \in Letters /\ Len(t) = 1 + Len(s) /\ \A i \in 1..(1 + Len(s)) : t[i] = IF i <= 1 THEN o[i] ELSE s[i - 1]
  <2>1. /\ t \in Letters /\ Len(t) = Len(o) + Len(s)
        /\ \A i \in 1..(Len(o) + Len(s)) : t[i] = IF i <= Len(o) THEN o[i] ELSE s[i - Len(o)]
    BY <1>1, ConcatLetters
  <2> HIDE DEF t
  <2> QED BY <1>1, <2>1
<1> HIDE DEF t
<1>4. t[1] = c
  <2>1. 1 \in 1..(1 + Len(s))
    BY <1>2
  <2> QED BY <1>1, <1>3, <2>1
<1>5. ASSUME NEW i \in 1..Len(s) PROVE t[i + 1] = s[i]
  <2>1. i + 1 \in 1..(1 + Len(s)) /\ ~(i + 1 <= 1) /\ (i + 1) - 1 = i
    BY <1>2
  <2> QED BY <1>3, <2>1
<1>6. t # << >> /\ Len(t) = Len(s) + 1
  BY <1>2, <1>3, EmptyLetters
<1>7. Head(t) = c /\ Tail(t) \in Letters /\ Len(Tail(t)) = Len(s) /\ \A i \in 1..Len(s) : Tail(t)[i] = t[i + 1]
  <2>1. t \in Seq(Letter) /\ t # << >>
    BY <1>3, <1>6 DEF Letters
  <2>2. /\ Head(t) = t[1] /\ Tail(t) \in Seq(Letter) /\ Len(Tail(t)) = Len(t) - 1
        /\ \A i \in 1..Len(Tail(t)) : Tail(t)[i] = t[i + 1]
    BY <2>1, HeadTailProperties
  <2> QED BY <1>2, <1>4, <1>6, <2>2 DEF Letters
<1>8. Tail(t) = s
  BY <1>5, <1>7, SameSeq
<1> QED BY <1>3, <1>4, <1>5, <1>6, <1>7, <1>8 DEF o, t

LEMMA EmptyPlain == << >> \in Plain
<1>1. \A i \in 1..0 : FALSE
  OBVIOUS
<1> QED BY <1>1, EmptyLetters DEF Plain

(* A text that is not empty, taken apart. *)
LEMMA Split ==
  ASSUME NEW s \in Letters, s # << >>
  PROVE  /\ Head(s) \in Letter /\ Tail(s) \in Letters /\ s = << Head(s) >> \o Tail(s)
         /\ s \in Plain => Tail(s) \in Plain /\ Head(s) # "%"
<1>1. s \in Seq(Letter) /\ Len(s) \in Nat
  BY LettersType DEF Letters
<1>2. /\ Head(s) = s[1] /\ Tail(s) \in Seq(Letter) /\ Len(Tail(s)) = Len(s) - 1
      /\ \A i \in 1..Len(Tail(s)) : Tail(s)[i] = s[i + 1]
  BY <1>1, HeadTailProperties
<1>3. Len(s) # 0 /\ 1 \in 1..Len(s) /\ Len(s) \in Nat
  <2>1. Len(s) # 0
    BY NoLetters
  <2> QED BY <1>1, <2>1
<1>4. Head(s) \in Letter /\ Tail(s) \in Letters
  BY <1>1, <1>2, <1>3 DEF Letters
<1> DEFINE t == << Head(s) >> \o Tail(s)
<1>5. t \in Letters /\ Len(t) = Len(Tail(s)) + 1 /\ t[1] = Head(s) /\ \A i \in 1..Len(Tail(s)) : t[i + 1] = Tail(s)[i]
  BY <1>4, Prepended
<1> HIDE DEF t
<1>6. ASSUME NEW i \in 1..Len(s) PROVE t[i] = s[i]
  <2>1. CASE i = 1
    BY <1>2, <1>5, <2>1
  <2>2. CASE i # 1
    <3>1. i - 1 \in 1..Len(Tail(s)) /\ (i - 1) + 1 = i
      BY <1>2, <1>3, <2>2
    <3>2. t[(i - 1) + 1] = Tail(s)[i - 1] /\ Tail(s)[i - 1] = s[(i - 1) + 1]
      BY <1>2, <1>5, <3>1
    <3> QED BY <3>1, <3>2
  <2> QED BY <2>1, <2>2
<1>7. Len(t) = Len(s)
  BY <1>2, <1>3, <1>5
<1>8. t = s
  BY <1>5, <1>6, <1>7, SameSeq
<1>9. ASSUME s \in Plain PROVE Tail(s) \in Plain /\ Head(s) # "%"
  <2>1. \A i \in 1..Len(s) : s[i] # "%"
    BY <1>9 DEF Plain
  <2>2. \A i \in 1..Len(Tail(s)) : i + 1 \in 1..Len(s)
    BY <1>2, <1>3
  <2> QED BY <1>2, <1>3, <1>4, <2>1, <2>2 DEF Plain
<1> QED BY <1>4, <1>8, <1>9 DEF t

(* How many of the first characters are in S, when one or none is.         *)
LEMMA LeadingIs ==
  ASSUME NEW s \in Letters, NEW S, NEW n \in 0..Len(s), \A i \in 1..n : s[i] \in S,
         n < Len(s) => s[n + 1] \notin S
  PROVE  Leading(s, S) = n
<1> DEFINE Is(k) == /\ \A i \in 1..k : s[i] \in S
                    /\ k < Len(s) => s[k + 1] \notin S
<1>1. Len(s) \in Nat
  BY LettersType
<1>2. Is(n)
  OBVIOUS
<1>3. ASSUME NEW k \in 0..Len(s), Is(k) PROVE k = n
  <2>1. ~(k < n)
    <3> SUFFICES ASSUME k < n PROVE FALSE
      OBVIOUS
    <3>1. k + 1 \in 1..n /\ k < Len(s)
      BY <1>1
    <3> QED BY <1>3, <3>1
  <2>2. ~(n < k)
    <3> SUFFICES ASSUME n < k PROVE FALSE
      OBVIOUS
    <3>1. n + 1 \in 1..k /\ n < Len(s)
      BY <1>1
    <3> QED BY <1>3, <3>1
  <2> QED BY <1>1, <2>1, <2>2
<1>4. Leading(s, S) = CHOOSE k \in 0..Len(s) : Is(k)
  BY Zenon DEF Leading
<1> HIDE DEF Is
<1> QED BY <1>2, <1>3, <1>4

LEMMA DropOne ==
  ASSUME NEW c \in Letter, NEW s \in Letters, NEW S
  PROVE  LET t == << c >> \o s
         IN /\ c \notin S => Leading(t, S) = 0
            /\ c \in S /\ (s = << >> \/ Head(s) \notin S) => Leading(t, S) = 1
            /\ Drop(t, 0) = t /\ Drop(t, 1) = s
<1> DEFINE t == << c >> \o s
<1>1. /\ t \in Letters /\ Len(t) = Len(s) + 1 /\ t # << >> /\ Tail(t) = s
      /\ t[1] = c /\ \A i \in 1..Len(s) : t[i + 1] = s[i]
  BY Prepended
<1>2. Len(s) \in Nat
  BY LettersType
<1> HIDE DEF t
<1>3. ASSUME c \notin S PROVE Leading(t, S) = 0
  <2>1. 0 \in 0..Len(t) /\ t[0 + 1] \notin S /\ \A i \in 1..0 : t[i] \in S
    BY <1>1, <1>2, <1>3
  <2> QED BY <1>1, <2>1, LeadingIs
<1>4. ASSUME c \in S, s = << >> \/ Head(s) \notin S PROVE Leading(t, S) = 1
  <2>1. 1 \in 0..Len(t) /\ \A i \in 1..1 : t[i] \in S
    BY <1>1, <1>2, <1>4
  <2>2. ASSUME 1 < Len(t) PROVE t[1 + 1] \notin S
    <3>1. s # << >> /\ 1 \in 1..Len(s)
      BY <1>1, <1>2, <2>2, EmptyLetters
    <3>2. Head(s) = s[1]
      BY <3>1, HeadTailProperties DEF Letters
    <3> QED BY <1>1, <1>4, <3>1, <3>2
  <2> QED BY <1>1, <2>1, <2>2, LeadingIs
<1>5. Drop(t, 0) = t
  <2>1. Drop(t, 0) = SubSeq(t, 1, Len(t))
    BY DEF Drop
  <2> QED BY <1>1, <2>1, WholePiece
<1>6. Drop(t, 1) = s
  <2>1. Drop(t, 1) = SubSeq(t, 2, Len(t))
    BY DEF Drop
  <2> QED BY <1>1, <2>1 DEF Tail
<1> QED BY <1>3, <1>4, <1>5, <1>6 DEF t

-----------------------------------------------------------------------------
LEMMA PhaseActions ==
  ASSUME Formatting
  PROVE  /\ phase = "text" => Text \/ Percent \/ vsnprintf_impl
         /\ phase = "flags" => parse_flags
         /\ phase = "width" => Width
         /\ phase = "precision" => Point
         /\ phase = "length" => Length
         /\ phase = "specifier" =>
              Integer \/ Char \/ String \/ Pointer \/ WriteBack \/ Literal \/ PastTheEnd
<1> DEFINE Guard(A, S) == A => phase \in S
<1>1. /\ Guard(Text, {"text"}) /\ Guard(Percent, {"text"}) /\ Guard(parse_flags, {"flags"})
      /\ Guard(Width, {"width"}) /\ Guard(Point, {"precision"}) /\ Guard(Precision, {"digits"})
      /\ Guard(Length, {"length", "length l", "length h"}) /\ Guard(vsnprintf_impl, {"end", "text"})
  BY DEF Text, Percent, At, parse_flags, Width, Point, Precision, Length, vsnprintf_impl
<1>2. /\ Guard(Integer, {"specifier"}) /\ Guard(Char, {"specifier"}) /\ Guard(String, {"specifier"})
      /\ Guard(Pointer, {"specifier"}) /\ Guard(WriteBack, {"specifier"}) /\ Guard(Literal, {"specifier"})
      /\ Guard(PastTheEnd, {"specifier"})
  BY DEF Integer, Char, String, Pointer, WriteBack, Literal, PastTheEnd, Specifier, At
<1> QED BY <1>1, <1>2 DEF Formatting

LEMMA ConvFacts ==
  ASSUME Texts, NEW kind \in Kinds
  PROVE  /\ Conv(kind) \in Letter /\ Conv(kind) \in {"s", "c", "x"} /\ Zero(kind) \in BOOLEAN
         /\ Zero(kind) => kind = "08x"
         /\ {"%", "0", "8", "s", "c", "x"} \subseteq Letter
  BY DEF Texts, Kinds, Conv, Zero

LEMMA FormatFacts ==
  ASSUME Texts, NEW kind \in Kinds, NEW post \in Letters
  PROVE  /\ AfterWidth(kind, post) \in Letters /\ AfterWidth(kind, post) # << >>
         /\ Head(AfterWidth(kind, post)) = Conv(kind) /\ Tail(AfterWidth(kind, post)) = post
         /\ AfterFlags(kind, post) \in Letters /\ AfterFlags(kind, post) # << >>
         /\ Head(AfterFlags(kind, post)) = IF Zero(kind) THEN "8" ELSE Conv(kind)
         /\ AfterPercent(kind, post) \in Letters /\ AfterPercent(kind, post) # << >>
<1>1. Conv(kind) \in Letter /\ "8" \in Letter /\ "0" \in Letter
  BY ConvFacts
<1> DEFINE w == AfterWidth(kind, post)
           f == AfterFlags(kind, post)
<1>2. w \in Letters /\ w # << >> /\ Head(w) = Conv(kind) /\ Tail(w) = post
  <2> DEFINE c == Conv(kind)
  <2> HIDE DEF c
  <2>1. << c >> \o post \in Letters /\ << c >> \o post # << >> /\ Head(<< c >> \o post) = c /\ Tail(<< c >> \o post) = post
    BY <1>1, Prepended DEF c
  <2> QED BY <2>1 DEF AfterWidth, c
<1> HIDE DEF w
<1>3. f \in Letters /\ f # << >> /\ Head(f) = IF Zero(kind) THEN "8" ELSE Conv(kind)
  <2>1. << "8" >> \o w \in Letters /\ << "8" >> \o w # << >> /\ Head(<< "8" >> \o w) = "8"
    BY <1>1, <1>2, Prepended
  <2> QED BY <1>2, <2>1, Zenon DEF AfterFlags, w
<1> HIDE DEF f
<1>4. AfterPercent(kind, post) \in Letters /\ AfterPercent(kind, post) # << >>
  <2>1. << "0" >> \o f \in Letters /\ << "0" >> \o f # << >>
    BY <1>1, <1>3, Prepended
  <2> QED BY <1>3, <2>1, Zenon DEF AfterPercent, f
<1> QED BY <1>2, <1>3, <1>4 DEF w, f

LEMMA ValueLetters ==
  ASSUME Powers, Alphabet, NEW kind \in Kinds, NEW a, Fits(kind, a)
  PROVE  ValueText(kind, a) \in Letters
<1>1. CASE kind = "s"
  BY <1>1 DEF Fits, ValueText
<1>2. CASE kind = "c"
  BY <1>2, One DEF Fits, ValueText
<1>3. CASE kind \in {"x", "08x"}
  <2>1. a \in 0..(2^IntBits - 1) /\ Zero(kind) \in BOOLEAN
    BY <1>3 DEF Fits, Zero
  <2>2. HexText(a, Zero(kind)) \in Letters
    BY <2>1, HexIsText
  <2> QED BY <1>3, <2>2 DEF ValueText
<1> QED BY <1>1, <1>2, <1>3 DEF Kinds

(* A character more of what is left. *)
LEMMA OneMore ==
  ASSUME NEW T \in Letters, NEW s \in Letters, NEW u \in Letters, s # << >>,
         Len(T \o (s \o u)) <= PRINTF_MAX_POSSIBLE_BUFFER_SIZE
  PROVE  /\ T \o << Head(s) >> \in Letters
         /\ putchar_via_gadget(With(T), << Head(s) >>) = With(T \o << Head(s) >>)
         /\ T \o (s \o u) = (T \o << Head(s) >>) \o (Tail(s) \o u)
         /\ Head(s \o u) = Head(s) /\ Tail(s \o u) = Tail(s) \o u /\ s \o u # << >>
<1> DEFINE h == << Head(s) >>
           t == Tail(s)
<1>1. h \in Letters /\ Len(h) = 1 /\ t \in Letters /\ s = h \o t /\ Head(s) \in Letter
  <2>1. Head(s) \in Letter /\ Tail(s) \in Letters /\ s = << Head(s) >> \o Tail(s)
    BY Split
  <2> QED BY <2>1, One
<1>2. t \o u \in Letters
  BY <1>1, ConcatLetters
<1>3. /\ << Head(s) >> \o (t \o u) # << >>
      /\ Head(<< Head(s) >> \o (t \o u)) = Head(s) /\ Tail(<< Head(s) >> \o (t \o u)) = t \o u
  <2> HIDE DEF t
  <2> QED BY <1>1, <1>2, Prepended
<1> HIDE DEF h, t
<1>4. s \o u = h \o (t \o u)
  BY <1>1, Assoc, SMTT(30)
<1>5. T \o h \in Letters /\ Len(T \o h) = Len(T) + 1
  <2>1. T \o h \in Letters /\ Len(T \o h) = Len(T) + Len(h)
    BY <1>1, ConcatLetters
  <2> QED BY <1>1, <2>1
<1> DEFINE tu == t \o u
<1>6. T \o (h \o tu) = (T \o h) \o tu
  <2>1. tu \in Letters
    BY <1>2
  <2> HIDE DEF tu
  <2>2. \A x \in Letters : (T \o h) \o x = T \o (h \o x)
    BY <1>1, Assoc
  <2> QED BY <2>1, <2>2
<1>7. Len(T) + Len(h) <= PRINTF_MAX_POSSIBLE_BUFFER_SIZE
  <2>1. tu \in Letters /\ Len(tu) \in Nat /\ Len(T \o h) \in Nat /\ Len(T) \in Nat
    BY <1>2, <1>5, LettersType
  <2>2. Len((T \o h) \o tu) = Len(T \o h) + Len(tu)
    <3> HIDE DEF tu
    <3> QED BY <1>5, <2>1, ConcatLetters
  <2>3. Len((T \o h) \o tu) <= PRINTF_MAX_POSSIBLE_BUFFER_SIZE
    BY <1>4, <1>6
  <2>4. PRINTF_MAX_POSSIBLE_BUFFER_SIZE \in Nat
    BY FormatAssumption DEF FormatAssumption
  <2> HIDE DEF tu
  <2> QED BY <1>1, <1>5, <2>1, <2>2, <2>3, <2>4
<1>8. putchar_via_gadget(With(T), h) = With(T \o h)
  BY <1>1, <1>7, PutText
<1>9. T \o (s \o u) = (T \o h) \o (t \o u)
  BY <1>4, <1>6
<1> QED BY <1>3, <1>4, <1>5, <1>8, <1>9 DEF h, t

-----------------------------------------------------------------------------
(* The parts of the format. *)
LEMMA TextTrailing ==
  ASSUME NEW text, NEW T, NEW post, Sending(text, T, post), Trailing(text, T, post), Text
  PROVE  Pending(text)'
<1>1. /\ T \in Letters /\ post \in Plain /\ post \in Letters /\ post # << >> /\ format = post
      /\ text = T \o post /\ text \in Letters /\ Len(text) <= PRINTF_MAX_POSSIBLE_BUFFER_SIZE
  BY DEF Sending, Trailing, Text, Plain
<1> DEFINE U == T \o << Head(post) >>
           rest == Tail(post)
<1>2. post \o << >> = post /\ rest \in Letters /\ rest \in Plain /\ rest \o << >> = rest
  BY <1>1, Split, ConcatEmpty
<1>3. /\ U \in Letters /\ putchar_via_gadget(With(T), << Head(post) >>) = With(U)
      /\ T \o (post \o << >>) = U \o (rest \o << >>)
  <2>1. Len(T \o (post \o << >>)) <= PRINTF_MAX_POSSIBLE_BUFFER_SIZE
    BY <1>1, <1>2
  <2> DEFINE e == << >>
  <2>2. e \in Letters
    BY EmptyLetters
  <2> HIDE DEF e
  <2>3. T \in Letters /\ post \in Letters /\ post # << >>
    BY <1>1
  <2>4. Len(T \o (post \o e)) <= PRINTF_MAX_POSSIBLE_BUFFER_SIZE
    BY <2>1 DEF e
  <2>5. /\ T \o << Head(post) >> \in Letters
        /\ putchar_via_gadget(With(T), << Head(post) >>) = With(T \o << Head(post) >>)
        /\ T \o (post \o e) = (T \o << Head(post) >>) \o (Tail(post) \o e)
    BY <2>2, <2>3, <2>4, OneMore
  <2> QED BY <2>5 DEF e
<1>4. /\ gadget' = putchar_via_gadget(gadget, << Head(post) >>) /\ format' = rest
      /\ gadget = With(T) /\ call' = call /\ phase' = "text" /\ call.to = "putchar"
  BY <1>1 DEF Text, Sending, Trailing
<1> HIDE DEF U, rest
<1>5. text = U \o rest
  BY <1>1, <1>2, <1>3
<1>6. Sending(text, U, rest)' /\ Trailing(text, U, rest)'
  BY <1>1, <1>2, <1>3, <1>4, <1>5 DEF Sending, Trailing
<1> QED BY <1>6 DEF Pending

LEMMA TrailingEnds ==
  ASSUME NEW text, NEW T, NEW post, Sending(text, T, post), Trailing(text, T, post), vsnprintf_impl
  PROVE  phase' = "returned" /\ call' = call /\ call.to = "putchar" /\ gadget' = With(text)
<1>1. /\ T \in Letters /\ text = T \o post /\ phase = "text" /\ format = post
      /\ call.to = "putchar" /\ gadget = With(T)
  BY DEF Sending, Trailing
<1>2. post = << >> /\ phase' = "returned" /\ call' = call /\ gadget' = append_termination(gadget)
  BY <1>1 DEF vsnprintf_impl
<1>3. text = T
  BY <1>1, <1>2, ConcatEmpty
<1>4. gadget.to = "putchar"
  BY <1>1 DEF With
<1>5. gadget' = gadget
  BY <1>2, <1>4 DEF append_termination
<1> QED BY <1>1, <1>2, <1>3, <1>5

LEMMA TextLeading ==
  ASSUME Powers, Alphabet, Texts, NEW text, NEW T, NEW post, NEW kind, NEW a, Sending(text, T, post),
         kind \in Kinds, Fits(kind, a), args = << a >>, LeadingIn(text, T, post, kind, a), Text
  PROVE  Pending(text)'
<1> DEFINE dir == << "%" >> \o AfterPercent(kind, post)
           after == ValueText(kind, a) \o post
<1>1. PICK pre \in Plain : format = pre \o dir /\ text = T \o (pre \o after)
  BY DEF LeadingIn
<1>2. /\ T \in Letters /\ post \in Plain /\ post \in Letters /\ pre \in Letters
      /\ text \in Letters /\ Len(text) <= PRINTF_MAX_POSSIBLE_BUFFER_SIZE
  BY DEF Sending, Plain
<1>3. dir \in Letters /\ dir # << >> /\ Head(dir) = "%"
  <2>1. "%" \in Letter /\ AfterPercent(kind, post) \in Letters
    BY <1>2, FormatFacts DEF Texts
  <2> QED BY <2>1, Prepended
<1>4. after \in Letters
  BY <1>2, ValueLetters, ConcatLetters
<1> HIDE DEF dir, after
<1>5. pre # << >>
  <2> SUFFICES ASSUME pre = << >> PROVE FALSE
    OBVIOUS
  <2>1. format = dir
    BY <1>1, <1>3, ConcatEmpty
  <2> QED BY <1>3, <2>1 DEF Text
<1> DEFINE U == T \o << Head(pre) >>
           rest == Tail(pre)
<1>6. rest \in Letters /\ rest \in Plain
  BY <1>2, <1>5, Split
<1>7. /\ U \in Letters /\ putchar_via_gadget(With(T), << Head(pre) >>) = With(U)
      /\ T \o (pre \o after) = U \o (rest \o after)
  BY <1>1, <1>2, <1>4, <1>5, OneMore, SMTT(30)
<1>8. Head(format) = Head(pre) /\ Tail(format) = rest \o dir
  <2>1. << Head(pre) >> \o rest = pre /\ Head(pre) \in Letter
    BY <1>2, <1>5, Split
  <2>2. format = << Head(pre) >> \o (rest \o dir)
    <3>1. << Head(pre) >> \in Letters
      BY <2>1, One
    <3>2. (<< Head(pre) >> \o rest) \o dir = << Head(pre) >> \o (rest \o dir)
      BY <1>3, <1>6, <3>1, Assoc
    <3> QED BY <1>1, <2>1, <3>2
  <2>3. rest \o dir \in Letters
    BY <1>3, <1>6, ConcatLetters
  <2> HIDE DEF rest
  <2> QED BY <2>1, <2>2, <2>3, Prepended
<1>9. /\ gadget' = putchar_via_gadget(gadget, << Head(pre) >>) /\ format' = rest \o dir
      /\ gadget = With(T) /\ call' = call /\ phase' = "text" /\ call.to = "putchar" /\ args' = args
  BY <1>8 DEF Text, Sending
<1> HIDE DEF U, rest
<1>10. Sending(text, U, post)'
  BY <1>2, <1>7, <1>9 DEF Sending
<1>11. LeadingIn(text, U, post, kind, a)'
  <2>1. phase' = "text" /\ rest \in Plain /\ format' = rest \o dir /\ text = U \o (rest \o after)
    BY <1>1, <1>6, <1>7, <1>9
  <2> QED BY <2>1, Zenon DEF LeadingIn, dir, after
<1>12. Midway(text, U, post, kind, a)'
  BY <1>9, <1>11 DEF Midway
<1> QED BY <1>10, <1>12 DEF Pending

LEMMA PercentLeading ==
  ASSUME Powers, Alphabet, Texts, NEW text, NEW T, NEW post, NEW kind, NEW a, Sending(text, T, post),
         kind \in Kinds, Fits(kind, a), args = << a >>, LeadingIn(text, T, post, kind, a), Percent
  PROVE  Pending(text)'
<1> DEFINE next == AfterPercent(kind, post)
           dir == << "%" >> \o next
           after == ValueText(kind, a) \o post
<1>1. PICK pre \in Plain : format = pre \o dir /\ text = T \o (pre \o after)
  BY DEF LeadingIn
<1>2. T \in Letters /\ post \in Letters /\ pre \in Letters
  BY DEF Sending, Plain
<1>3. next \in Letters /\ next # << >> /\ dir \in Letters /\ Head(dir) = "%" /\ Tail(dir) = next
  <2>1. "%" \in Letter /\ next \in Letters /\ next # << >>
    BY <1>2, FormatFacts DEF Texts
  <2> HIDE DEF next
  <2> QED BY <2>1, Prepended
<1>4. after \in Letters
  BY <1>2, ValueLetters, ConcatLetters
<1> HIDE DEF dir, after, next
<1>5. pre = << >>
  <2> SUFFICES ASSUME pre # << >> PROVE FALSE
    OBVIOUS
  <2>1. /\ Head(pre) # "%" /\ Head(pre) \in Letter /\ Tail(pre) \in Letters
        /\ pre = << Head(pre) >> \o Tail(pre)
    BY <1>2, Split
  <2>2. << Head(pre) >> \in Letters /\ Tail(pre) \o dir \in Letters
    BY <1>3, <2>1, One, ConcatLetters
  <2>3. format = << Head(pre) >> \o (Tail(pre) \o dir)
    BY <1>1, <1>3, <2>1, <2>2, Assoc
  <2>4. Head(format) = Head(pre)
    BY <2>1, <2>2, <2>3, Prepended
  <2> QED BY <2>1, <2>4 DEF Percent, At
<1>6. format = dir /\ text = T \o after
  BY <1>1, <1>3, <1>4, <1>5, ConcatEmpty
<1>7. /\ phase' = "flags" /\ format' = next /\ spec' = NoSpec
      /\ call' = call /\ args' = args /\ gadget' = gadget
  BY <1>3, <1>6 DEF Percent, Advance
<1>8. Within(text, T, post, kind, a)'
  BY <1>6, <1>7 DEF Within, next, after
<1>9. Sending(text, T, post)' /\ Midway(text, T, post, kind, a)'
  BY <1>7, <1>8 DEF Midway, Sending
<1> QED BY <1>9 DEF Pending

-----------------------------------------------------------------------------
LEMMA PrependedAt ==
  ASSUME NEW c \in Letter, NEW s \in Letters PROVE (<< c >> \o s)[1] = c /\ << c >> \o s \in Letters
  BY Prepended

(* Where the directive's parts are read. *)
LEMMA FlagsWithin ==
  ASSUME Texts, NEW text, NEW T, NEW post, NEW kind, NEW a, Sending(text, T, post),
         kind \in Kinds, Fits(kind, a), args = << a >>, Within(text, T, post, kind, a), phase = "flags",
         parse_flags
  PROVE  Pending(text)'
<1> DEFINE f == AfterFlags(kind, post)
           n == Leading(format, FlagChars)
<1>1. post \in Letters
  BY DEF Sending, Plain
<1>2. /\ text = T \o (ValueText(kind, a) \o post) /\ spec = NoSpec /\ format = AfterPercent(kind, post)
  BY DEF Within
<1>3. f \in Letters /\ f # << >> /\ Head(f) = IF Zero(kind) THEN "8" ELSE Conv(kind)
  BY <1>1, FormatFacts
<1>4. /\ phase' = "width" /\ call' = call /\ args' = args /\ gadget' = gadget
      /\ spec' = [spec EXCEPT !.flags = {format[i] : i \in 1..n}] /\ format' = Drop(format, n)
  BY DEF parse_flags
<1>5. format' = f /\ {format[i] : i \in 1..n} = HexArgs(Zero(kind))
  <2>1. CASE Zero(kind)
    <3> HIDE DEF f, n
    <3>1. "0" \in Letter
      BY ConvFacts
    <3>2. "0" \in FlagChars /\ Head(f) \notin FlagChars
      BY <1>3, <2>1 DEF FlagChars
    <3>3. format = << "0" >> \o f
      BY <1>2, <2>1 DEF AfterPercent, f
    <3>4. n = 1 /\ Drop(format, 1) = f
      BY <1>3, <3>1, <3>2, <3>3, DropOne DEF n
    <3>5. format[1] = "0"
      BY <1>3, <3>1, <3>3, PrependedAt
    <3>6. {format[i] : i \in 1..1} = {"0"}
      BY <3>5
    <3>7. format' = Drop(format, n)
      BY <1>4 DEF n
    <3> QED BY <2>1, <3>4, <3>6, <3>7 DEF HexArgs
  <2>2. CASE ~Zero(kind)
    <3> DEFINE c == Conv(kind)
    <3>1. c \in Letter /\ c \notin FlagChars
      <4>1. c \in {"s", "c", "x"} /\ c \in Letter
        BY ConvFacts
      <4> QED BY <4>1 DEF FlagChars
    <3>2. format = f /\ f = << c >> \o post
      BY <1>2, <2>2 DEF AfterPercent, AfterFlags, AfterWidth
    <3> HIDE DEF c, f, n
    <3>3. n = 0 /\ Drop(format, 0) = f
      BY <1>1, <3>1, <3>2, DropOne DEF n
    <3>4. {format[i] : i \in 1..0} = {}
      OBVIOUS
    <3>5. format' = Drop(format, n)
      BY <1>4 DEF n
    <3> QED BY <2>2, <3>3, <3>4, <3>5 DEF HexArgs
  <2> QED BY <2>1, <2>2
<1>6. spec' = SpecOf(kind, 0)
  <2> DEFINE S == {format[i] : i \in 1..n}
  <2>1. spec' = [NoSpec EXCEPT !.flags = S] /\ S = HexArgs(Zero(kind))
    BY <1>2, <1>4, <1>5
  <2> HIDE DEF S
  <2> QED BY <2>1 DEF NoSpec, SpecOf
<1>7. Within(text, T, post, kind, a)'
  BY <1>2, <1>4, <1>5, <1>6 DEF Within
<1>8. Sending(text, T, post)' /\ Midway(text, T, post, kind, a)'
  BY <1>4, <1>7 DEF Midway, Sending
<1> QED BY <1>8 DEF Pending

(* The value of no digit and of the digit 8. *)
LEMMA AtouIs ==
  ASSUME NEW s \in Letters
  PROVE  /\ Leading(s, Decimal) = 0 => atou_(s) = 0
         /\ Leading(s, Decimal) = 1 /\ s[1] = "8" => atou_(s) = 8
<1>1. PICK value : Values(value, s)
  BY AtouRun
<1>2. DigitValue("8") = 8
  <2>1. /\ 9 \in 1..10 /\ Numeral[9] = "8"
        /\ \A i \in 1..10 : Numeral[i] = "8" => i = 9
    BY DEF Numeral
  <2>2. (CHOOSE i \in 1..10 : Numeral[i] = "8") = 9
    BY <2>1
  <2> QED BY <2>2 DEF DigitValue
<1>3. ASSUME Leading(s, Decimal) = 0 PROVE atou_(s) = 0
  BY <1>1, <1>3 DEF Values
<1>4. ASSUME Leading(s, Decimal) = 1, s[1] = "8" PROVE atou_(s) = 8
  <2>1. 1 \in 1..1 /\ 1 - 1 = 0
    OBVIOUS
  <2>2. value[1] = value[1 - 1] * 10 + DigitValue(s[1])
    BY <1>1, <1>4, <2>1 DEF Values
  <2>3. value[0] = 0 /\ atou_(s) = value[1]
    BY <1>1, <1>4 DEF Values
  <2> QED BY <1>2, <1>4, <2>1, <2>2, <2>3
<1> QED BY <1>3, <1>4

LEMMA WidthWithin ==
  ASSUME Texts, NEW text, NEW T, NEW post, NEW kind, NEW a, Sending(text, T, post),
         kind \in Kinds, Fits(kind, a), args = << a >>, Within(text, T, post, kind, a), phase = "width",
         Width
  PROVE  Pending(text)'
<1> DEFINE w == AfterWidth(kind, post)
           n == Leading(format, Decimal)
<1>1. post \in Letters
  BY DEF Sending, Plain
<1>2. /\ text = T \o (ValueText(kind, a) \o post) /\ spec = SpecOf(kind, 0) /\ format = AfterFlags(kind, post)
  BY DEF Within
<1>3. /\ w \in Letters /\ w # << >> /\ Head(w) = Conv(kind)
      /\ Head(format) = IF Zero(kind) THEN "8" ELSE Conv(kind)
  BY <1>1, <1>2, FormatFacts
<1>4. Conv(kind) \in {"s", "c", "x"} /\ Conv(kind) \in Letter
  BY ConvFacts
<1>5. ~At("width", {"*"})
  BY <1>3, <1>4 DEF At
<1>6. /\ phase' = "precision" /\ call' = call /\ args' = args /\ gadget' = gadget
      /\ spec' = [spec EXCEPT !.width = atou_(format)] /\ format' = Drop(format, n)
  BY <1>5 DEF Width
<1>7. Decimal = {"0", "1", "2", "3", "4", "5", "6", "7", "8", "9"}
  BY DEF Decimal, Numeral
<1>8. format' = w /\ atou_(format) = HexWidth(Zero(kind))
  <2>1. CASE Zero(kind)
    <3> HIDE DEF w, n
    <3>1. "8" \in Letter
      BY ConvFacts
    <3>2. "8" \in Decimal /\ Head(w) \notin Decimal
      BY <1>3, <1>4, <1>7
    <3>3. format = << "8" >> \o w
      BY <1>2, <2>1 DEF AfterFlags, w
    <3>4. n = 1 /\ Drop(format, 1) = w
      BY <1>3, <3>1, <3>2, <3>3, DropOne DEF n
    <3>5. format[1] = "8" /\ format \in Letters
      BY <1>3, <3>1, <3>3, PrependedAt
    <3>6. atou_(format) = 8
      BY <3>4, <3>5, AtouIs DEF n
    <3>7. format' = Drop(format, n)
      BY <1>6 DEF n
    <3> QED BY <2>1, <3>4, <3>6, <3>7 DEF HexWidth
  <2>2. CASE ~Zero(kind)
    <3> DEFINE c == Conv(kind)
    <3>1. c \in Letter /\ c \notin Decimal
      BY <1>4, <1>7
    <3>2. format = w /\ w = << c >> \o post
      BY <1>2, <2>2 DEF AfterFlags, AfterWidth
    <3> HIDE DEF c, w, n
    <3>3. n = 0 /\ Drop(format, 0) = w
      BY <1>1, <3>1, <3>2, DropOne DEF n
    <3>4. atou_(format) = 0
      BY <1>3, <3>2, <3>3, AtouIs DEF n
    <3>5. format' = Drop(format, n)
      BY <1>6 DEF n
    <3> QED BY <2>2, <3>3, <3>4, <3>5 DEF HexWidth
  <2> QED BY <2>1, <2>2
<1>9. spec' = SpecOf(kind, HexWidth(Zero(kind)))
  BY <1>2, <1>6, <1>8 DEF SpecOf
<1>10. Within(text, T, post, kind, a)'
  BY <1>2, <1>6, <1>8, <1>9 DEF Within
<1>11. Sending(text, T, post)' /\ Midway(text, T, post, kind, a)'
  BY <1>6, <1>10 DEF Midway, Sending
<1> QED BY <1>11 DEF Pending

LEMMA RestWithin ==
  ASSUME Texts, NEW text, NEW T, NEW post, NEW kind, NEW a, Sending(text, T, post),
         kind \in Kinds, Fits(kind, a), args = << a >>, Within(text, T, post, kind, a),
         (phase = "precision" /\ Point) \/ (phase = "length" /\ Length)
  PROVE  Pending(text)'
<1>1. post \in Letters
  BY DEF Sending, Plain
<1>2. /\ text = T \o (ValueText(kind, a) \o post) /\ spec = SpecOf(kind, HexWidth(Zero(kind)))
      /\ format = AfterWidth(kind, post)
  BY DEF Within
<1>3. Head(format) \in {"s", "c", "x"}
  <2>1. Head(format) = Conv(kind)
    BY <1>1, <1>2, FormatFacts
  <2> QED BY <2>1, ConvFacts
<1>4. /\ phase' \in {"length", "specifier"} /\ format' = format /\ spec' = spec
      /\ call' = call /\ args' = args /\ gadget' = gadget
  <2>1. CASE phase = "precision" /\ Point
    <3>1. ~At("precision", {"."})
      BY <1>3 DEF At
    <3> QED BY <2>1, <3>1 DEF Point
  <2>2. CASE phase = "length" /\ Length
    <3>1. ~At("length", Lengths) /\ ~At("length l", {"l"}) /\ ~At("length h", {"h"})
      BY <1>3, <2>2 DEF At, Lengths
    <3> QED BY <2>2, <3>1 DEF Length
  <2> QED BY <2>1, <2>2
<1>5. Within(text, T, post, kind, a)'
  BY <1>2, <1>4 DEF Within
<1>6. Sending(text, T, post)' /\ Midway(text, T, post, kind, a)'
  BY <1>4, <1>5 DEF Midway, Sending
<1> QED BY <1>6 DEF Pending

(* The specifier puts out the value. *)
LEMMA IntegerEmits ==
  ASSUME Powers, Alphabet, Texts, NEW kind \in {"x", "08x"}, NEW a \in 0..(2^IntBits - 1), args = << a >>,
         spec = SpecOf(kind, HexWidth(Zero(kind))), format # << >>, Head(format) = "x", Integer
  PROVE  gadget' = putchar_via_gadget(gadget, HexText(a, Zero(kind)))
<1> DEFINE zero == Zero(kind)
           flags == HexArgs(zero)
           m == 2^IntBits
<1>1. spec.flags = flags /\ spec.width = HexWidth(zero) /\ spec.precision = 0
  BY DEF SpecOf
<1>2. Head(args) = a
  OBVIOUS
<1>3. flags \in {{}, {"0"}}
  BY DEF HexArgs
<1>4. (flags \cup {}) \ ({} \cup {} \cup {"+", " "}) = flags
  BY <1>3
<1>5. Bits(flags) = IntBits
  BY <1>3 DEF Bits
<1>6. Unsigned(Bits(flags), a) = a /\ Abs(a) = a /\ ~(a < 0)
  <2>1. m \in Nat \ {0}
    BY IntRange
  <2>2. a \in 0..(m - 1)
    OBVIOUS
  <2> HIDE DEF m
  <2>3. a % m = a /\ a \in Nat
    BY <2>1, <2>2
  <2>4. a % 2^IntBits = a
    BY <2>3 DEF m
  <2> QED BY <1>5, <2>3, <2>4 DEF Unsigned, Abs
<1> HIDE DEF flags, zero
<1>7. gadget' = putchar_via_gadget(gadget, print_integer(a, FALSE, 16, 0, HexWidth(zero), flags))
  <2>1. "precision" \notin flags
    BY <1>3
  <2>2. Base("x") = 16
    BY DEF Base
  <2>3. gadget' = putchar_via_gadget(gadget, print_integer(Abs(a), a < 0, 16, spec.precision, spec.width, flags))
    <3> DEFINE fl == (spec.flags \cup (IF "x" = "X" THEN {"X"} ELSE {}))
                       \ ((IF Base("x") = 10 THEN {"#"} ELSE {})
                            \cup (IF "precision" \in spec.flags THEN {"0"} ELSE {})
                            \cup (IF "x" \in {"d", "i"} THEN {} ELSE {"+", " "}))
               v == IF "x" \in {"d", "i"} THEN Signed(Bits(fl), Argument) ELSE Unsigned(Bits(fl), Argument)
    <3>1. fl = flags
      BY <1>1, <1>3, <2>1, <2>2
    <3>2. gadget' = putchar_via_gadget(gadget,
                      print_integer(Abs(v), v < 0, Base("x"), spec.precision, spec.width, fl))
      BY Zenon DEF Integer, Emit
    <3>3. Argument = a
      BY <1>2 DEF Argument
    <3> HIDE DEF fl
    <3>4. v = a
      BY <1>6, <3>1, <3>3
    <3> HIDE DEF v
    <3> QED BY <1>6, <2>2, <3>1, <3>2, <3>4
  <2>4. (a < 0) = FALSE
    BY <1>6
  <2> QED BY <1>1, <1>6, <2>3, <2>4
<1>8. print_integer(a, FALSE, 16, 0, HexWidth(zero), HexArgs(zero)) = HexText(a, zero)
  <2>1. zero \in BOOLEAN
    BY DEF zero, Zero
  <2> QED BY <2>1, HexIsText
<1> QED BY <1>7, <1>8 DEF flags, zero

LEMMA SpecifierEmits ==
  ASSUME Powers, Alphabet, Texts, NEW kind \in Kinds, NEW a, Fits(kind, a), args = << a >>,
         Len(ValueText(kind, a)) <= PRINTF_MAX_POSSIBLE_BUFFER_SIZE,
         spec = SpecOf(kind, HexWidth(Zero(kind))), phase = "specifier", format # << >>,
         Head(format) = Conv(kind), Formatting
  PROVE  /\ gadget' = putchar_via_gadget(gadget, ValueText(kind, a))
         /\ phase' = "text" /\ format' = Tail(format) /\ call' = call
<1>1. Integer \/ Char \/ String \/ Pointer \/ WriteBack \/ Literal \/ PastTheEnd
  BY PhaseActions
<1>2. Head(format) \in {"s", "c", "x"}
  BY ConvFacts
<1>3. /\ ~Pointer /\ ~WriteBack /\ ~Literal /\ ~PastTheEnd
      /\ Integer => Head(format) = "x"
      /\ Char => Head(format) = "c"
      /\ String => Head(format) = "s"
  BY <1>2 DEF Integer, Char, String, Pointer, WriteBack, Literal, Known, PastTheEnd, Specifier, At
<1>4. phase' = "text" /\ format' = Tail(format) /\ call' = call
  BY <1>1, <1>3 DEF Integer, Char, String, Specifier
<1>5. Head(args) = a
  OBVIOUS
<1>6. \A s \in Letters : kind # "08x" => Padded(s) = s
  <2> SUFFICES ASSUME NEW s \in Letters, kind # "08x" PROVE Padded(s) = s
    OBVIOUS
  <2>1. spec.flags = {} /\ spec.width = 0
    BY DEF SpecOf, HexArgs, HexWidth, Zero
  <2>2. " " \in Letter /\ 0 - Len(s) \in Int /\ 0 - Len(s) <= 0
    <3>1. Len(s) \in Nat
      BY LettersType
    <3>2. " " \in Letter
      BY InAlphabet
    <3> DEFINE n == Len(s)
    <3> HIDE DEF n
    <3>3. 0 - n \in Int /\ 0 - n <= 0
      BY <3>1 DEF n
    <3> QED BY <3>2, <3>3 DEF n
  <2>3. Copies(0 - Len(s), " ") = << >>
    BY <2>2, CopiesFacts
  <2> QED BY <2>1, <2>3, ConcatEmpty DEF Padded
<1>7. CASE kind = "s"
  <2>1. String /\ a \in Letters /\ a # NULL
    BY <1>1, <1>3, <1>7 DEF Conv, Fits, Texts
  <2>2. AtMost(Len(a), Limit) = Len(a)
    <3>1. Limit = PRINTF_MAX_POSSIBLE_BUFFER_SIZE
      BY <1>7 DEF Limit, SpecOf, HexArgs, Zero
    <3>2. Len(a) <= PRINTF_MAX_POSSIBLE_BUFFER_SIZE /\ Len(a) \in Nat /\ PRINTF_MAX_POSSIBLE_BUFFER_SIZE \in Nat
      BY <1>7, <2>1, LettersType, FormatAssumption DEF ValueText, FormatAssumption
    <3> QED BY <3>1, <3>2 DEF AtMost
  <2>3. SubSeq(a, 1, AtMost(Len(a), Limit)) = a
    BY <2>1, <2>2, WholePiece
  <2>4. gadget' = putchar_via_gadget(gadget, Padded(a))
    BY <1>5, <2>1, <2>3 DEF String, Emit, Argument
  <2> QED BY <1>4, <1>6, <1>7, <2>1, <2>4 DEF ValueText
<1>8. CASE kind = "c"
  <2>1. Char /\ a \in Letter /\ << a >> \in Letters
    BY <1>1, <1>3, <1>8, One DEF Conv, Fits
  <2>2. gadget' = putchar_via_gadget(gadget, Padded(<< a >>))
    BY <1>5, <2>1 DEF Char, Emit, Argument
  <2> QED BY <1>4, <1>6, <1>8, <2>1, <2>2 DEF ValueText
<1>9. CASE kind \in {"x", "08x"}
  <2>1. Integer /\ Head(format) = "x" /\ a \in 0..(2^IntBits - 1)
    BY <1>1, <1>3, <1>9 DEF Conv, Fits
  <2>2. gadget' = putchar_via_gadget(gadget, HexText(a, Zero(kind)))
    BY <1>9, <2>1, IntegerEmits
  <2> QED BY <1>4, <1>9, <2>2 DEF ValueText
<1> QED BY <1>7, <1>8, <1>9 DEF Kinds

LEMMA SpecifierWithin ==
  ASSUME Powers, Alphabet, Texts, NEW text, NEW T, NEW post, NEW kind, NEW a, Sending(text, T, post),
         kind \in Kinds, Fits(kind, a), args = << a >>, Within(text, T, post, kind, a),
         phase = "specifier", Formatting
  PROVE  Pending(text)'
<1> DEFINE value == ValueText(kind, a)
<1>1. /\ T \in Letters /\ post \in Plain /\ post \in Letters /\ gadget = With(T) /\ call.to = "putchar"
      /\ text \in Letters /\ Len(text) <= PRINTF_MAX_POSSIBLE_BUFFER_SIZE
  BY DEF Sending, Plain
<1>2. /\ text = T \o (value \o post) /\ spec = SpecOf(kind, HexWidth(Zero(kind)))
      /\ format = AfterWidth(kind, post)
  BY DEF Within
<1>3. format # << >> /\ Head(format) = Conv(kind) /\ Tail(format) = post
  BY <1>1, <1>2, FormatFacts
<1>4. value \in Letters
  BY ValueLetters
<1>5. /\ Len(T) + Len(value) <= PRINTF_MAX_POSSIBLE_BUFFER_SIZE
      /\ Len(value) <= PRINTF_MAX_POSSIBLE_BUFFER_SIZE
  <2> HIDE DEF value
  <2>1. value \o post \in Letters /\ Len(value \o post) = Len(value) + Len(post)
    BY <1>1, <1>4, ConcatLetters
  <2>2. Len(T \o (value \o post)) = Len(T) + Len(value \o post)
    BY <1>1, <2>1, ConcatLetters
  <2>3. Len(T) \in Nat /\ Len(value) \in Nat /\ Len(post) \in Nat /\ PRINTF_MAX_POSSIBLE_BUFFER_SIZE \in Nat
    BY <1>1, <1>4, LettersType, FormatAssumption DEF FormatAssumption
  <2> QED BY <1>1, <1>2, <2>1, <2>2, <2>3
<1>6. /\ gadget' = putchar_via_gadget(gadget, value)
      /\ phase' = "text" /\ format' = post /\ call' = call
  BY <1>2, <1>3, <1>5, SpecifierEmits
<1> HIDE DEF value
<1>7. gadget' = With(T \o value) /\ T \o value \in Letters
  BY <1>1, <1>4, <1>5, <1>6, PutText, ConcatLetters
<1>8. text = (T \o value) \o post
  BY <1>1, <1>2, <1>4, Assoc
<1>9. Sending(text, T \o value, post)' /\ Trailing(text, T \o value, post)'
  BY <1>1, <1>6, <1>7, <1>8 DEF Sending, Trailing
<1> QED BY <1>9 DEF Pending

(* A call prints its text, whatever step it takes. *)
LEMMA PendingStep ==
  ASSUME Powers, Alphabet, Texts, NEW text, Pending(text), Formatting
  PROVE  \/ phase' \notin {"idle", "returned"} /\ Pending(text)'
         \/ phase' = "returned" /\ call' = call /\ call.to = "putchar" /\ gadget' = With(text)
<1>1. PICK T, post : /\ Sending(text, T, post)
                     /\ Trailing(text, T, post) \/ \E kind, a : Midway(text, T, post, kind, a)
  BY DEF Pending
<1>2. Pending(text)' => phase' \notin {"idle", "returned"}
  BY DEF Pending, Trailing, Midway, LeadingIn, Within
<1>3. CASE Trailing(text, T, post)
  <2>1. Text \/ Percent \/ vsnprintf_impl
    <3>1. phase = "text"
      BY <1>3 DEF Trailing
    <3> QED BY <3>1, PhaseActions
  <2>2. ~Percent
    <3>1. post \in Letters /\ post \in Plain /\ format = post
      BY <1>1, <1>3 DEF Sending, Trailing, Plain
    <3>2. format # << >> => Head(format) # "%"
      BY <3>1, Split
    <3> QED BY <3>2 DEF Percent, At
  <2> QED BY <1>1, <1>2, <1>3, <2>1, <2>2, TextTrailing, TrailingEnds
<1>4. ASSUME NEW kind, NEW a, Midway(text, T, post, kind, a)
      PROVE  Pending(text)'
  <2>1. /\ kind \in Kinds /\ Fits(kind, a) /\ args = << a >>
        /\ LeadingIn(text, T, post, kind, a) \/ Within(text, T, post, kind, a)
    BY <1>4 DEF Midway
  <2>2. CASE LeadingIn(text, T, post, kind, a)
    <3>1. phase = "text"
      BY <2>2 DEF LeadingIn
    <3>2. Text \/ Percent
      <4>1. format # << >>
        <5>1. PICK pre \in Plain : format = pre \o (<< "%" >> \o AfterPercent(kind, post))
          BY <2>2 DEF LeadingIn
        <5> DEFINE dir == << "%" >> \o AfterPercent(kind, post)
        <5>2. pre \in Letters /\ post \in Letters
          BY <1>1 DEF Sending, Plain
        <5>3. dir \in Letters /\ dir # << >>
          <6>1. "%" \in Letter /\ AfterPercent(kind, post) \in Letters
            BY <2>1, <5>2, FormatFacts DEF Texts
          <6> QED BY <6>1, Prepended
        <5> HIDE DEF dir
        <5>4. Len(pre \o dir) = Len(pre) + Len(dir) /\ Len(pre) \in Nat /\ Len(dir) \in Nat
          BY <5>2, <5>3, ConcatLetters, LettersType
        <5>5. Len(dir) # 0
          BY <5>3, NoLetters
        <5>6. Len(pre \o dir) # 0 /\ format = pre \o dir
          BY <5>1, <5>4, <5>5 DEF dir
        <5> QED BY <5>6, EmptyLetters
      <4>2. ~vsnprintf_impl
        BY <3>1, <4>1 DEF vsnprintf_impl
      <4> QED BY <3>1, <4>2, PhaseActions
    <3> QED BY <1>1, <2>1, <2>2, <3>2, TextLeading, PercentLeading
  <2>3. CASE Within(text, T, post, kind, a)
    <3>1. phase \in {"flags", "width", "precision", "length", "specifier"}
      BY <2>3 DEF Within
    <3>2. CASE phase = "flags"
      BY <1>1, <2>1, <2>3, <3>2, PhaseActions, FlagsWithin
    <3>3. CASE phase = "width"
      BY <1>1, <2>1, <2>3, <3>3, PhaseActions, WidthWithin
    <3>4. CASE phase \in {"precision", "length"}
      <4>1. (phase = "precision" /\ Point) \/ (phase = "length" /\ Length)
        BY <3>4, PhaseActions
      <4> QED BY <1>1, <2>1, <2>3, <4>1, RestWithin
    <3>5. CASE phase = "specifier"
      BY <1>1, <2>1, <2>3, <3>5, SpecifierWithin
    <3> QED BY <3>1, <3>2, <3>3, <3>4, <3>5
  <2> QED BY <2>1, <2>2, <2>3
<1> QED BY <1>1, <1>2, <1>3, <1>4

-----------------------------------------------------------------------------
(* A symbol in front of a tuple. *)
LEMMA Pair == ASSUME NEW a, NEW b PROVE << a, b >> = << a >> \o << b >>
<1> DEFINE s == << a >>
           t == << b >>
           u == << a, b >>
<1>1. s \in Seq({a, b}) /\ t \in Seq({a, b}) /\ Len(s) = 1 /\ Len(t) = 1 /\ s[1] = a /\ t[1] = b
  OBVIOUS
<1>2. u \in Seq({a, b}) /\ Len(u) = 2 /\ u[1] = a /\ u[2] = b
  OBVIOUS
<1> HIDE DEF s, t, u
<1>3. /\ s \o t \in Seq({a, b}) /\ Len(s \o t) = 2
      /\ \A i \in 1..2 : (s \o t)[i] = IF i <= 1 THEN s[i] ELSE t[i - 1]
  BY <1>1, ConcatProperties, SMTT(30)
<1>4. 1 \in 1..2 /\ 2 \in 1..2 /\ 2 - 1 = 1 /\ \A i \in 1..2 : i = 1 \/ i = 2
  OBVIOUS
<1>5. (s \o t)[1] = a /\ (s \o t)[2] = b
  BY <1>1, <1>3, <1>4
<1>6. \A i \in 1..2 : (s \o t)[i] = u[i]
  BY <1>2, <1>4, <1>5
<1>7. s \o t = u
  BY <1>2, <1>3, <1>6
<1> QED BY <1>7 DEF s, t, u

LEMMA Triple == ASSUME NEW a, NEW b, NEW c PROVE << a, b, c >> = << a >> \o << b, c >>
  OBVIOUS
LEMMA Four == ASSUME NEW a, NEW b, NEW c, NEW d PROVE << a, b, c, d >> = << a >> \o << b, c, d >>
  OBVIOUS
LEMMA Five ==
  ASSUME NEW a, NEW b, NEW c, NEW d, NEW e PROVE << a, b, c, d, e >> = << a >> \o << b, c, d, e >>
  OBVIOUS
LEMMA Six ==
  ASSUME NEW a, NEW b, NEW c, NEW d, NEW e, NEW f
  PROVE  << a, b, c, d, e, f >> = << a >> \o << b, c, d, e, f >>
  OBVIOUS
LEMMA Seven ==
  ASSUME NEW a, NEW b, NEW c, NEW d, NEW e, NEW f, NEW g
  PROVE  << a, b, c, d, e, f, g >> = << a >> \o << b, c, d, e, f, g >>
  OBVIOUS

(* The formats the programs use. *)
LEMMA Formats ==
  ASSUME Texts
  PROVE  /\ << "%", "s" >> = << >> \o (<< "%" >> \o AfterPercent("s", << >>))
         /\ << "%", "c" >> = << >> \o (<< "%" >> \o AfterPercent("c", << >>))
         /\ << "%", "s", "LF" >> = << >> \o (<< "%" >> \o AfterPercent("s", << "LF" >>))
         /\ << "%", "s", " " >> = << >> \o (<< "%" >> \o AfterPercent("s", << " " >>))
         /\ << "Not enough arguments! Usage: ", "%", "s", " <filename>", "LF" >> =
              << "Not enough arguments! Usage: " >> \o (<< "%" >> \o AfterPercent("s", << " <filename>", "LF" >>))
         /\ NotFound = << "Couldn't find file '" >> \o (<< "%" >> \o AfterPercent("s", << "'", "LF" >>))
         /\ << "LF", "%", "0", "8", "x", ":", " " >> = << "LF" >> \o (<< "%" >> \o AfterPercent("08x", << ":", " " >>))
         /\ << "0", "x", "%", "x", " " >> = << "0", "x" >> \o (<< "%" >> \o AfterPercent("x", << " " >>))
<1>1. \A post : \A kind \in {"s", "c", "x"} : AfterPercent(kind, post) = << kind >> \o post
  BY DEF AfterPercent, AfterFlags, AfterWidth, Zero, Conv
<1>2. \A post : AfterPercent("08x", post) = << "0" >> \o (<< "8" >> \o (<< "x" >> \o post))
  BY DEF AfterPercent, AfterFlags, AfterWidth, Zero, Conv
<1>3. \A c \in Letter : << c >> \o << >> = << c >>
  BY One, ConcatEmpty
<1>4. \A a, b \in Letter : << >> \o << a, b >> = << a, b >>
  BY ConcatEmpty DEF Letters
<1>5. \A a, b, c \in Letter : << >> \o << a, b, c >> = << a, b, c >>
  BY ConcatEmpty DEF Letters
<1>6. {"%", "s", "c", "LF", " "} \subseteq Letter
  BY DEF Texts
<1>7. /\ << "%", "s" >> = << >> \o (<< "%" >> \o AfterPercent("s", << >>))
      /\ << "%", "c" >> = << >> \o (<< "%" >> \o AfterPercent("c", << >>))
  <2>1. ASSUME NEW k \in {"s", "c"} PROVE << "%", k >> = << >> \o (<< "%" >> \o AfterPercent(k, << >>))
    <3>1. AfterPercent(k, << >>) = << k >>
      BY <1>1, <1>3, <1>6
    <3>2. << "%" >> \o << k >> = << "%", k >>
      BY Pair
    <3>3. << >> \o << "%", k >> = << "%", k >>
      BY <1>4, <1>6
    <3> QED BY <3>1, <3>2, <3>3
  <2> QED BY <2>1
<1>8. /\ << "%", "s", "LF" >> = << >> \o (<< "%" >> \o AfterPercent("s", << "LF" >>))
      /\ << "%", "s", " " >> = << >> \o (<< "%" >> \o AfterPercent("s", << " " >>))
  <2>1. ASSUME NEW c \in {"LF", " "} PROVE << "%", "s", c >> = << >> \o (<< "%" >> \o AfterPercent("s", << c >>))
    <3>1. AfterPercent("s", << c >>) = << "s", c >>
      <4>1. AfterPercent("s", << c >>) = << "s" >> \o << c >>
        BY <1>1
      <4> QED BY <4>1, Pair, Zenon
    <3>2. << "%", "s", c >> = << "%" >> \o << "s", c >>
      BY Triple
    <3>3. << >> \o << "%", "s", c >> = << "%", "s", c >>
      BY <1>5, <1>6
    <3> QED BY <3>1, <3>2, <3>3
  <2> QED BY <2>1
<1>9. ASSUME NEW a, NEW b, NEW c
      PROVE  << a, "%", "s", b, c >> = << a >> \o (<< "%" >> \o AfterPercent("s", << b, c >>))
  <2>1. AfterPercent("s", << b, c >>) = << "s", b, c >>
    <3>1. << "s", b, c >> = << "s" >> \o << b, c >>
      BY Triple
    <3> QED BY <1>1, <3>1
  <2>2. << "%", "s", b, c >> = << "%" >> \o << "s", b, c >>
    BY Four
  <2>3. << a, "%", "s", b, c >> = << a >> \o << "%", "s", b, c >>
    BY Five
  <2> QED BY <2>1, <2>2, <2>3
<1>10. << "LF", "%", "0", "8", "x", ":", " " >> = << "LF" >> \o (<< "%" >> \o AfterPercent("08x", << ":", " " >>))
  <2>1. << "x", ":", " " >> = << "x" >> \o << ":", " " >>
    BY Triple
  <2>2. << "8", "x", ":", " " >> = << "8" >> \o << "x", ":", " " >>
    BY Four
  <2>3. << "0", "8", "x", ":", " " >> = << "0" >> \o << "8", "x", ":", " " >>
    BY Five
  <2>4. << "%", "0", "8", "x", ":", " " >> = << "%" >> \o << "0", "8", "x", ":", " " >>
    BY Six
  <2>5. << "LF", "%", "0", "8", "x", ":", " " >> = << "LF" >> \o << "%", "0", "8", "x", ":", " " >>
    BY Seven
  <2> QED BY <1>2, <2>1, <2>2, <2>3, <2>4, <2>5
<1>11. << "0", "x", "%", "x", " " >> = << "0", "x" >> \o (<< "%" >> \o AfterPercent("x", << " " >>))
  <2>1. AfterPercent("x", << " " >>) = << "x", " " >>
    <3>1. AfterPercent("x", << " " >>) = << "x" >> \o << " " >>
      BY <1>1
    <3> QED BY <3>1, Pair, Zenon
  <2>2. << "%", "x", " " >> = << "%" >> \o << "x", " " >>
    BY Triple
  <2>3. << "0", "x", "%", "x", " " >> = << "0", "x" >> \o << "%", "x", " " >>
    <3> DEFINE t == << "%", "x", " " >>
    <3>1. << "x", "%", "x", " " >> = << "x" >> \o t
      BY Four
    <3>2. << "0", "x", "%", "x", " " >> = << "0" >> \o << "x", "%", "x", " " >>
      BY Five
    <3>3. << "0", "x" >> = << "0" >> \o << "x" >>
      BY Pair
    <3>4. t \in Letters /\ << "0" >> \in Letters /\ << "x" >> \in Letters
      <4>1. "0" \in Letter /\ "x" \in Letter /\ "%" \in Letter /\ " " \in Letter
        BY DEF Texts
      <4>2. \A a, b, c \in Letter : << a, b, c >> \in Letters
        BY DEF Letters
      <4> QED BY <4>1, <4>2, One
    <3> DEFINE o == << "0" >>
               x == << "x" >>
    <3> HIDE DEF t, o, x
    <3>5. (o \o x) \o t = o \o (x \o t)
      BY <3>4, Assoc DEF o, x
    <3> QED BY <3>1, <3>2, <3>3, <3>5 DEF o, x, t
  <2> QED BY <2>1, <2>2, <2>3
<1> QED BY <1>7, <1>8, <1>9, <1>10, <1>11, ZenonT(30) DEF NotFound

LEMMA OutputStep ==
  ASSUME Powers, Alphabet, Texts, NEW text, Pending(text), Output
  PROVE  \/ phase' \notin {"idle", "returned"} /\ Pending(text)' /\ printed' = printed
         \/ phase' = "returned" /\ printed' = printed \o text
<1>1. text \in Letters
  BY DEF Pending, Sending
<1>2. CASE phase' \notin {"idle", "returned"} /\ Pending(text)'
  BY <1>2 DEF Output
<1>3. CASE phase' = "returned" /\ call' = call /\ call.to = "putchar" /\ gadget' = With(text)
  <2> DEFINE n == Len(text)
             o == [p \in 0..(n - 1) |-> text[p + 1]]
  <2>1. n \in Nat
    BY <1>1, LettersType
  <2>2. gadget'.pos = n /\ gadget'.out = o
    BY <1>3 DEF With
  <2>3. [i \in 1..n |-> o[i - 1]] = [i \in 1..n |-> text[i]]
    <3>1. \A i \in 1..n : i - 1 \in 0..(n - 1) /\ (i - 1) + 1 = i
      BY <2>1
    <3>2. \A i \in 1..n : o[i - 1] = text[i]
      BY <3>1
    <3> QED BY <3>2
  <2>4. text = [i \in 1..n |-> text[i]]
    BY <1>1 DEF Letters
  <2>5. printed' = printed \o [i \in 1..n |-> o[i - 1]]
    <3> HIDE DEF n, o
    <3> QED BY <1>3, <2>2 DEF Output
  <2> QED BY <1>3, <2>3, <2>4, <2>5
<1>4. Formatting
  BY DEF Output
<1> QED BY <1>2, <1>3, <1>4, PendingStep

LEMMA CallBegins ==
  ASSUME Powers, Alphabet, Texts, NEW pre \in Plain, NEW post \in Plain, NEW kind \in Kinds, NEW a, Fits(kind, a),
         NEW text, text = pre \o (ValueText(kind, a) \o post), Len(text) <= PRINTF_MAX_POSSIBLE_BUFFER_SIZE,
         Printing(pre \o (<< "%" >> \o AfterPercent(kind, post)), << a >>)
  PROVE  Pending(text)' /\ phase' = "text" /\ printed' = printed /\ UNCHANGED ramdiskVars
<1> DEFINE f == pre \o (<< "%" >> \o AfterPercent(kind, post))
           c == [to |-> "putchar", size |-> 0, items |-> NULL, format |-> f, args |-> << a >>]
<1>1. /\ call' = c /\ phase' = "text" /\ format' = f /\ args' = << a >>
      /\ gadget' = GadgetOf(c) /\ printed' = printed /\ UNCHANGED ramdiskVars
  BY DEF Printing, Begin
<1>2. text \in Letters
  BY ValueLetters, ConcatLetters DEF Plain
<1>3. GadgetOf(c) = With(<< >>)
  <2>1. [p \in 0..(0 - 1) |-> << >>[p + 1]] = << >>
    OBVIOUS
  <2>2. With(<< >>) = [to |-> "putchar", pos |-> 0, max_chars |-> PRINTF_MAX_POSSIBLE_BUFFER_SIZE, out |-> << >>]
    BY <2>1, EmptyLetters DEF With
  <2>3. c.to = "putchar"
    OBVIOUS
  <2> HIDE DEF c
  <2>4. GadgetOf(c) = [to |-> "putchar", pos |-> 0, max_chars |-> PRINTF_MAX_POSSIBLE_BUFFER_SIZE, out |-> << >>]
    BY <2>3 DEF GadgetOf
  <2> QED BY <2>2, <2>4
<1>4. Sending(text, << >>, post)'
  BY <1>1, <1>2, <1>3, EmptyLetters DEF Sending
<1>5. LeadingIn(text, << >>, post, kind, a)'
  <2>1. text = << >> \o (pre \o (ValueText(kind, a) \o post))
    BY <1>2, ConcatEmpty
  <2>2. format' = pre \o (<< "%" >> \o AfterPercent(kind, post)) /\ phase' = "text"
    BY <1>1
  <2> QED BY <2>1, <2>2, Zenon DEF LeadingIn
<1>6. Midway(text, << >>, post, kind, a)'
  BY <1>1, <1>5 DEF Midway
<1> QED BY <1>1, <1>4, <1>6 DEF Pending

-----------------------------------------------------------------------------
(* What the programs call printf for. *)
Started(text) == Pending(text)' /\ phase' = "text" /\ printed' = printed /\ UNCHANGED ramdiskVars

LEMMA MaxRoom ==
  /\ PRINTF_MAX_POSSIBLE_BUFFER_SIZE \in Nat /\ PRINTF_INTEGER_BUFFER_SIZE \in Nat
  /\ 8 <= PRINTF_INTEGER_BUFFER_SIZE
  /\ PRINTF_INTEGER_BUFFER_SIZE + 10 <= PRINTF_MAX_POSSIBLE_BUFFER_SIZE
BY FormatAssumption, PrintedAssumption DEF FormatAssumption, PrintedAssumption

(* Three pieces of known lengths. *)
LEMMA ThreePieces ==
  ASSUME NEW s \in Letters, NEW t \in Letters, NEW u \in Letters
  PROVE  s \o (t \o u) \in Letters /\ Len(s \o (t \o u)) = Len(s) + (Len(t) + Len(u))
<1> DEFINE tu == t \o u
<1>1. tu \in Letters /\ Len(tu) = Len(t) + Len(u)
  BY ConcatLetters
<1> HIDE DEF tu
<1>2. s \o tu \in Letters /\ Len(s \o tu) = Len(s) + Len(tu)
  BY <1>1, ConcatLetters
<1> QED BY <1>1, <1>2 DEF tu

LEMMA OneMoreFits ==
  ASSUME NEW n \in Nat, n < PRINTF_MAX_POSSIBLE_BUFFER_SIZE, NEW m, m = n + 1
  PROVE  m <= PRINTF_MAX_POSSIBLE_BUFFER_SIZE
BY MaxRoom

(* A number with two to four letters besides its digits fits. *)
LEMMA NumberFits ==
  ASSUME NEW s \in Letters, NEW t \in Letters, NEW u \in Letters,
         Len(t) <= PRINTF_INTEGER_BUFFER_SIZE, Len(s) \in {1, 2}, Len(u) \in {1, 2}
  PROVE  Len(s \o (t \o u)) <= PRINTF_MAX_POSSIBLE_BUFFER_SIZE
<1>1. Len(s) \in Nat /\ Len(t) \in Nat /\ Len(u) \in Nat
  BY LettersType
<1>2. Len(s \o (t \o u)) = Len(s) + (Len(t) + Len(u))
  BY ThreePieces
<1> DEFINE a == Len(s)
           b == Len(t)
           c == Len(u)
           all == Len(s \o (t \o u))
<1>3. a \in Nat /\ b \in Nat /\ c \in Nat /\ b <= PRINTF_INTEGER_BUFFER_SIZE /\ a \in {1, 2} /\ c \in {1, 2}
      /\ all = a + (b + c)
  BY <1>1, <1>2
<1> HIDE DEF a, b, c, all
<1>4. all <= PRINTF_MAX_POSSIBLE_BUFFER_SIZE
  BY <1>3, MaxRoom
<1> QED BY <1>4 DEF all

LEMMA PlainPieces ==
  ASSUME Texts
  PROVE  /\ << >> \in Plain /\ << "LF" >> \in Plain /\ << " " >> \in Plain /\ << "0", "x" >> \in Plain
         /\ << ":", " " >> \in Plain /\ << "'", "LF" >> \in Plain /\ << " <filename>", "LF" >> \in Plain
         /\ << "Not enough arguments! Usage: " >> \in Plain /\ << "Couldn't find file '" >> \in Plain
<1>1. ASSUME NEW c \in Letter, c # "%" PROVE << c >> \in Plain
  <2>1. << c >> \in Letters /\ Len(<< c >>) = 1 /\ << c >>[1] = c
    BY One
  <2>2. \A i \in 1..1 : i = 1
    OBVIOUS
  <2> QED BY <1>1, <2>1, <2>2 DEF Plain
<1>2. ASSUME NEW c \in Letter, NEW d \in Letter, c # "%", d # "%" PROVE << c, d >> \in Plain
  <2>1. << c, d >> \in Letters /\ Len(<< c, d >>) = 2 /\ << c, d >>[1] = c /\ << c, d >>[2] = d
    BY DEF Letters
  <2>2. \A i \in 1..2 : i = 1 \/ i = 2
    OBVIOUS
  <2> QED BY <1>2, <2>1, <2>2 DEF Plain
<1>3. /\ "LF" \in Letter /\ " " \in Letter /\ "0" \in Letter /\ "x" \in Letter /\ ":" \in Letter
      /\ "'" \in Letter /\ " <filename>" \in Letter /\ "Not enough arguments! Usage: " \in Letter
      /\ "Couldn't find file '" \in Letter
  BY DEF Texts
<1>4. /\ << "LF" >> \in Plain /\ << " " >> \in Plain
      /\ << "Not enough arguments! Usage: " >> \in Plain /\ << "Couldn't find file '" >> \in Plain
  BY <1>1, <1>3
<1>5. << "0", "x" >> \in Plain /\ << ":", " " >> \in Plain
  BY <1>2, <1>3
<1>6. << "'", "LF" >> \in Plain /\ << " <filename>", "LF" >> \in Plain
  BY <1>2, <1>3
<1> QED BY <1>4, <1>5, <1>6, EmptyPlain

LEMMA Puts ==
  ASSUME Powers, Alphabet, Texts, NEW s \in Letters, Len(s) <= PRINTF_MAX_POSSIBLE_BUFFER_SIZE, puts(s)
  PROVE  Started(s)
<1>1. Fits("s", s) /\ "s" \in Kinds /\ ValueText("s", s) = s
  BY DEF Fits, Kinds, ValueText
<1>2. s = << >> \o (ValueText("s", s) \o << >>)
  BY <1>1, ConcatEmpty
<1>3. Printing(<< >> \o (<< "%" >> \o AfterPercent("s", << >>)), << s >>)
  BY Formats DEF puts
<1> QED BY <1>1, <1>2, <1>3, PlainPieces, CallBegins DEF Started

LEMMA PutLine ==
  ASSUME Powers, Alphabet, Texts, NEW s \in Letters, NEW c \in {"LF", " "},
         Len(s) < PRINTF_MAX_POSSIBLE_BUFFER_SIZE, putf(<< "%", "s", c >>, s)
  PROVE  Started(s \o << c >>)
<1> DEFINE text == s \o << c >>
<1>1. Fits("s", s) /\ "s" \in Kinds /\ ValueText("s", s) = s
  BY DEF Fits, Kinds, ValueText
<1>2. << c >> \in Plain /\ << c >> \in Letters /\ Len(<< c >>) = 1
  BY PlainPieces DEF Plain
<1>3. text \in Letters /\ Len(text) = Len(s) + 1
  <2>1. text \in Letters /\ Len(text) = Len(s) + Len(<< c >>)
    BY <1>2, ConcatLetters
  <2> QED BY <1>2, <2>1
<1>4. Len(text) <= PRINTF_MAX_POSSIBLE_BUFFER_SIZE
  <2>1. Len(s) \in Nat
    BY LettersType
  <2> HIDE DEF text
  <2> QED BY <1>3, <2>1, OneMoreFits
<1> HIDE DEF text
<1>5. text = << >> \o (ValueText("s", s) \o << c >>)
  <2>1. << >> \o text = text
    BY <1>3, ConcatEmpty
  <2> QED BY <1>1, <2>1 DEF text
<1>6. Printing(<< >> \o (<< "%" >> \o AfterPercent("s", << c >>)), << s >>)
  <2>1. << "%", "s", c >> = << >> \o (<< "%" >> \o AfterPercent("s", << c >>))
    BY Formats
  <2> QED BY <2>1 DEF putf
<1>7. Started(text)
  BY <1>1, <1>2, <1>4, <1>5, <1>6, EmptyPlain, CallBegins DEF Started
<1> QED BY <1>7 DEF text

LEMMA PutChar ==
  ASSUME Powers, Alphabet, Texts, NEW c \in Letter, putf(<< "%", "c" >>, c)
  PROVE  Started(<< c >>)
<1>1. Fits("c", c) /\ "c" \in Kinds /\ ValueText("c", c) = << c >>
  BY DEF Fits, Kinds, ValueText
<1>2. << c >> \in Letters /\ Len(<< c >>) = 1
  BY One
<1>3. << c >> = << >> \o (ValueText("c", c) \o << >>)
  BY <1>1, <1>2, ConcatEmpty
<1>4. Printing(<< >> \o (<< "%" >> \o AfterPercent("c", << >>)), << c >>)
  BY Formats DEF putf
<1>5. Len(<< c >>) <= PRINTF_MAX_POSSIBLE_BUFFER_SIZE
  BY <1>2, FormatAssumption DEF FormatAssumption
<1> QED BY <1>1, <1>3, <1>4, <1>5, EmptyPlain, CallBegins DEF Started

LEMMA PutHex ==
  ASSUME Powers, Alphabet, Texts, NEW v \in 0..(2^IntBits - 1), putf(<<"0", "x", "%", "x", " ">>, v)
  PROVE  Started(<< "0", "x" >> \o (HexText(v, FALSE) \o << " " >>))
<1> DEFINE text == << "0", "x" >> \o (HexText(v, FALSE) \o << " " >>)
<1>1. Fits("x", v) /\ "x" \in Kinds /\ ValueText("x", v) = HexText(v, FALSE)
  <2>1. Zero("x") = FALSE
    BY DEF Zero
  <2> QED BY <2>1 DEF Fits, Kinds, ValueText
<1>2. << "0", "x" >> \in Plain /\ << " " >> \in Plain
  BY PlainPieces
<1>3. text = << "0", "x" >> \o (ValueText("x", v) \o << " " >>)
  BY <1>1
<1>4. Len(text) <= PRINTF_MAX_POSSIBLE_BUFFER_SIZE
  <2> DEFINE t == HexText(v, FALSE)
             s == << "0", "x" >>
             u == << " " >>
  <2>1. t \in Letters /\ Len(t) <= PRINTF_INTEGER_BUFFER_SIZE /\ Len(t) \in Nat
    BY HexIsText, LettersType
  <2>2. s \in Letters /\ u \in Letters /\ Len(s) = 2 /\ Len(u) = 1
    BY <1>2 DEF Plain
  <2>3. Len(s) \in {1, 2} /\ Len(u) \in {1, 2}
    BY <2>2, Zenon
  <2> HIDE DEF s, t, u
  <2>4. Len(s \o (t \o u)) <= PRINTF_MAX_POSSIBLE_BUFFER_SIZE
    BY <2>1, <2>2, <2>3, NumberFits
  <2> QED BY <2>4 DEF s, t, u
<1>5. Printing(<< "0", "x" >> \o (<< "%" >> \o AfterPercent("x", << " " >>)), << v >>)
  BY Formats DEF putf
<1> HIDE DEF text
<1>6. Started(text)
  BY <1>1, <1>2, <1>3, <1>4, <1>5, CallBegins DEF Started
<1> QED BY <1>6 DEF text

LEMMA PutOffset ==
  ASSUME Powers, Alphabet, Texts, NEW v \in 0..(2^IntBits - 1),
         putf(<<"LF", "%", "0", "8", "x", ":", " ">>, v)
  PROVE  Started(<< "LF" >> \o (HexText(v, TRUE) \o << ":", " " >>))
<1> DEFINE text == << "LF" >> \o (HexText(v, TRUE) \o << ":", " " >>)
<1>1. Fits("08x", v) /\ "08x" \in Kinds /\ ValueText("08x", v) = HexText(v, TRUE)
  <2>1. Zero("08x") = TRUE
    BY DEF Zero
  <2> QED BY <2>1 DEF Fits, Kinds, ValueText
<1>2. << "LF" >> \in Plain /\ << ":", " " >> \in Plain
  BY PlainPieces
<1>3. text = << "LF" >> \o (ValueText("08x", v) \o << ":", " " >>)
  BY <1>1
<1>4. Len(text) <= PRINTF_MAX_POSSIBLE_BUFFER_SIZE
  <2> DEFINE t == HexText(v, TRUE)
             s == << "LF" >>
             u == << ":", " " >>
  <2>1. t \in Letters /\ Len(t) <= PRINTF_INTEGER_BUFFER_SIZE /\ Len(t) \in Nat
    BY HexIsText, LettersType
  <2>2. s \in Letters /\ u \in Letters /\ Len(s) = 1 /\ Len(u) = 2
    BY <1>2 DEF Plain
  <2>3. Len(s) \in {1, 2} /\ Len(u) \in {1, 2}
    BY <2>2, Zenon
  <2> HIDE DEF s, t, u
  <2>4. Len(s \o (t \o u)) <= PRINTF_MAX_POSSIBLE_BUFFER_SIZE
    BY <2>1, <2>2, <2>3, NumberFits
  <2> QED BY <2>4 DEF s, t, u
<1>5. Printing(<< "LF" >> \o (<< "%" >> \o AfterPercent("08x", << ":", " " >>)), << v >>)
  BY Formats DEF putf
<1> HIDE DEF text
<1>6. Started(text)
  BY <1>1, <1>2, <1>3, <1>4, <1>5, CallBegins DEF Started
<1> QED BY <1>6 DEF text

LEMMA PutNotice ==
  ASSUME Powers, Alphabet, Texts, NEW name \in Letter
  PROVE  /\ putf(<<"Not enough arguments! Usage: ", "%", "s", " <filename>", "LF">>, << name >>) =>
              Started(<< "Not enough arguments! Usage: ", name, " <filename>", "LF" >>)
         /\ putf(NotFound, << name >>) => Started(MissingText(name))
<1>1. Fits("s", << name >>) /\ "s" \in Kinds /\ ValueText("s", << name >>) = << name >>
  BY One DEF Fits, Kinds, ValueText
<1>2. ASSUME NEW a, NEW b, NEW c, << a >> \in Plain, << b, c >> \in Plain,
             Printing(<< a >> \o (<< "%" >> \o AfterPercent("s", << b, c >>)), << << name >> >>)
      PROVE  Started(<< a, name, b, c >>)
  <2> DEFINE text == << a, name, b, c >>
             s == << a >>
             t == << name >>
             u == << b, c >>
  <2>1. text = s \o (ValueText("s", t) \o u)
    <3>1. << name, b, c >> = << name >> \o << b, c >>
      BY Triple
    <3>2. << a, name, b, c >> = << a >> \o << name, b, c >>
      BY Four
    <3> QED BY <1>1, <3>1, <3>2
  <2>2. s \in Letters /\ t \in Letters /\ u \in Letters /\ Len(s) = 1 /\ Len(t) = 1 /\ Len(u) = 2
    BY <1>2, One DEF Plain
  <2>3. Len(text) <= PRINTF_MAX_POSSIBLE_BUFFER_SIZE
    <3>1. text = s \o (t \o u)
      BY <1>1, <2>1
    <3>2. Len(s) \in {1, 2} /\ Len(u) \in {1, 2} /\ Len(t) <= PRINTF_INTEGER_BUFFER_SIZE
      BY <2>2, MaxRoom
    <3> HIDE DEF text, s, t, u
    <3> QED BY <2>2, <3>1, <3>2, NumberFits
  <2> HIDE DEF text
  <2>4. Started(text)
    BY <1>1, <1>2, <2>1, <2>3, CallBegins DEF Started
  <2> QED BY <2>4 DEF text
<1>3. putf(<<"Not enough arguments! Usage: ", "%", "s", " <filename>", "LF">>, << name >>) =>
        Started(<< "Not enough arguments! Usage: ", name, " <filename>", "LF" >>)
  BY <1>2, Formats, PlainPieces DEF putf
<1>4. putf(NotFound, << name >>) => Started(<< "Couldn't find file '", name, "'", "LF" >>)
  BY <1>2, Formats, PlainPieces DEF putf
<1> QED BY <1>3, <1>4 DEF MissingText

-----------------------------------------------------------------------------
(* Texts one after the other.                                              *)
LEMMA Agree ==
  ASSUME NEW N \in Nat, NEW f, NEW g, f[0] = g[0], \A n \in 1..N : f[n - 1] = g[n - 1] => f[n] = g[n]
  PROVE  \A n \in 0..N : f[n] = g[n]
<1> DEFINE T == {n \in Nat : n <= N => f[n] = g[n]}
<1>1. 0 \in T
  OBVIOUS
<1>2. ASSUME NEW n \in T PROVE n + 1 \in T
  <2> SUFFICES ASSUME n + 1 <= N PROVE f[n + 1] = g[n + 1]
    OBVIOUS
  <2> DEFINE m == n + 1
  <2>1. m \in 1..N /\ m - 1 = n /\ f[n] = g[n]
    OBVIOUS
  <2> HIDE DEF T
  <2> HIDE DEF m
  <2>3. f[m - 1] = g[m - 1] => f[m] = g[m]
    BY <2>1
  <2>4. f[m] = g[m]
    BY <2>1, <2>3
  <2> QED BY <2>4 DEF m
<1>3. T = Nat
  <2>1. T \subseteq Nat
    OBVIOUS
  <2> HIDE DEF T
  <2> QED BY <1>1, <1>2, <2>1, SetInduction
<1> QED BY <1>3

(* The texts up to each of them. *)
Flattened(h, s) == /\ h[0] = << >> /\ \A n \in 1..Len(s) : h[n] = h[n - 1] \o s[n]
                   /\ \A n \in 0..Len(s) : h[n] \in Letters
                   /\ FlattenSeq(s) = h[Len(s)]

LEMMA FlattenRun == ASSUME NEW s \in Seq(Letters) PROVE \E h : Flattened(h, s)
<1> DEFINE N == Len(s)
           g == [x \in Letters \X (1..N) |-> x[1] \o s[x[2]]]
           Eq(f) == f = [i \in 1..N |-> IF i = 1 THEN s[i] ELSE f[i - 1] \o s[i]]
           flatten == CHOOSE f : Eq(f)
<1>1. N \in Nat /\ \A n \in 1..N : s[n] \in Letters
  OBVIOUS
<1> HIDE DEF N
<1>2. g \in Steps(Letters, N)
  <2>1. \A a \in Letters, n \in 1..N : a \o s[n] \in Letters
    BY <1>1, Concat
  <2> QED BY <2>1 DEF Steps
<1>3. PICK h : IsRun(h, Letters, << >>, N, g)
  <2> HIDE DEF g
  <2> QED BY <1>1, <1>2, EmptyLetters, Iteration
<1>4. h \in [0..N -> Letters] /\ h[0] = << >> /\ \A n \in 1..N : h[n] = h[n - 1] \o s[n]
  <2>1. h \in [0..N -> Letters] /\ h[0] = << >> /\ \A n \in 1..N : h[n] = g[<< h[n - 1], n >>]
    BY <1>3 DEF IsRun
  <2>2. \A n \in 1..N : h[n - 1] \in Letters
    BY <1>1, <2>1
  <2>3. \A n \in 1..N : g[<< h[n - 1], n >>] = h[n - 1] \o s[n]
    BY <2>2
  <2> HIDE DEF g
  <2> QED BY <2>1, <2>3
<1> HIDE DEF g
<1>5. N > 0 => h[1] = s[1]
  <2> SUFFICES ASSUME N > 0 PROVE h[1] = s[1]
    OBVIOUS
  <2>1. 1 \in 1..N /\ 1 - 1 = 0
    BY <1>1
  <2>2. h[1] = h[0] \o s[1] /\ s[1] \in Letters
    BY <1>1, <1>4, <2>1
  <2> QED BY <1>4, <2>2, ConcatEmpty
<1>6. Eq([n \in 1..N |-> h[n]])
  <2> DEFINE f == [n \in 1..N |-> h[n]]
             body(n) == IF n = 1 THEN s[n] ELSE f[n - 1] \o s[n]
  <2>1. ASSUME NEW n \in 1..N PROVE h[n] = body(n)
    <3>1. CASE n = 1
      BY <1>1, <1>5, <3>1
    <3>2. CASE n # 1
      <4>1. n - 1 \in 1..N
        BY <1>1, <3>2
      <4>2. f[n - 1] = h[n - 1]
        BY <4>1
      <4> HIDE DEF f
      <4> QED BY <1>4, <3>2, <4>2
    <3> QED BY <3>1, <3>2
  <2> HIDE DEF body
  <2>2. f = [n \in 1..N |-> body(n)]
    BY <2>1
  <2> HIDE DEF f
  <2> QED BY <2>2 DEF body, f
<1>7. Eq(flatten)
  <2> HIDE DEF Eq
  <2> QED BY <1>6
<1>8. \A n \in 1..N : flatten[n] = IF n = 1 THEN s[n] ELSE flatten[n - 1] \o s[n]
  <2> DEFINE body(n) == IF n = 1 THEN s[n] ELSE flatten[n - 1] \o s[n]
  <2>1. flatten = [n \in 1..N |-> body(n)]
    BY <1>7
  <2> HIDE DEF body, flatten
  <2>2. \A n \in 1..N : flatten[n] = body(n)
    BY <2>1
  <2> QED BY <2>2 DEF body
<1>9. FlattenSeq(s) = IF N = 0 THEN s ELSE flatten[N]
  BY DEF FlattenSeq, N
<1> HIDE DEF flatten, Eq
<1>10. \A n \in 0..N : n > 0 => flatten[n] = h[n]
  <2> DEFINE f == [n \in 0..N |-> IF n = 0 THEN h[0] ELSE flatten[n]]
  <2>1. \A n \in 1..N : f[n] = flatten[n] /\ (n # 1 => f[n - 1] = flatten[n - 1])
    BY <1>1
  <2>2. f[0] = h[0]
    BY <1>1
  <2> HIDE DEF f
  <2>3. ASSUME NEW n \in 1..N, f[n - 1] = h[n - 1] PROVE f[n] = h[n]
    <3>1. CASE n = 1
      BY <1>5, <1>8, <1>1, <2>1, <3>1
    <3>2. CASE n # 1
      <4>1. f[n] = flatten[n] /\ f[n - 1] = flatten[n - 1]
        BY <2>1, <3>2
      <4>2. flatten[n] = flatten[n - 1] \o s[n]
        BY <1>8, <3>2
      <4>3. h[n] = h[n - 1] \o s[n]
        BY <1>4
      <4> QED BY <2>3, <4>1, <4>2, <4>3, Zenon
    <3> QED BY <3>1, <3>2
  <2>4. \A n \in 0..N : f[n] = h[n]
    <3>1. N \in Nat
      BY <1>1
    <3>2. \A n \in 1..N : f[n - 1] = h[n - 1] => f[n] = h[n]
      BY <2>3
    <3> HIDE DEF N
    <3> QED BY <2>2, <3>1, <3>2, Agree, ZenonT(30)
  <2>5. \A n \in 0..N : n > 0 => n \in 1..N
    BY <1>1
  <2> QED BY <2>1, <2>4, <2>5
<1>11. FlattenSeq(s) = h[N]
  <2>1. CASE N = 0
    <3>1. s = << >>
      BY <2>1, EmptySeq DEF N
    <3> QED BY <1>4, <1>9, <2>1, <3>1
  <2>2. CASE N # 0
    <3>1. N \in 0..N /\ N > 0
      BY <1>1, <2>2
    <3> QED BY <1>9, <1>10, <2>2, <3>1
  <2> QED BY <2>1, <2>2
<1>12. Flattened(h, s)
  BY <1>4, <1>11 DEF Flattened, N
<1> QED BY <1>12

LEMMA FlattenAppend ==
  ASSUME NEW s \in Seq(Letters), NEW t \in Letters
  PROVE  /\ FlattenSeq(s) \in Letters /\ FlattenSeq(<< >>) = << >>
         /\ FlattenSeq(Append(s, t)) = FlattenSeq(s) \o t
<1> DEFINE N == Len(s)
           u == Append(s, t)
<1>1. N \in Nat /\ u \in Seq(Letters) /\ Len(u) = N + 1 /\ u[N + 1] = t /\ \A n \in 1..N : u[n] = s[n]
  BY AppendProperties
<1> HIDE DEF u
<1>2. PICK g : Flattened(g, s)
  BY FlattenRun
<1>3. PICK h : Flattened(h, u)
  BY <1>1, FlattenRun
<1>4. \A n \in 1..N : h[n - 1] = g[n - 1] => h[n] = g[n]
  <2>1. \A n \in 1..N : n \in 1..(N + 1)
    BY <1>1
  <2> QED BY <1>1, <1>2, <1>3, <2>1 DEF Flattened
<1>5. \A n \in 0..N : h[n] = g[n]
  <2>1. h[0] = g[0]
    BY <1>2, <1>3 DEF Flattened
  <2>2. N \in Nat
    BY <1>1
  <2> HIDE DEF N
  <2> QED BY <1>4, <2>1, <2>2, Agree, Zenon, SMTT(30)
<1>6. N + 1 \in 1..(N + 1) /\ N + 1 - 1 = N /\ N \in 0..N
  BY <1>1
<1>7. FlattenSeq(u) = FlattenSeq(s) \o t
  <2> DEFINE m == N + 1
  <2>1. Len(u) = m /\ u[m] = t /\ m - 1 = N /\ m \in 1..Len(u) /\ N \in 0..N
    BY <1>1
  <2> HIDE DEF m
  <2>2. FlattenSeq(u) = h[m] /\ FlattenSeq(s) = g[N]
    BY <1>2, <1>3, <2>1 DEF Flattened
  <2>3. \A n \in 1..Len(u) : h[n] = h[n - 1] \o u[n]
    BY <1>3 DEF Flattened
  <2>4. h[m] = h[m - 1] \o u[m]
    BY <2>1, <2>3
  <2> QED BY <1>5, <2>1, <2>2, <2>4
<1>8. FlattenSeq(s) \in Letters
  BY <1>2, <1>6 DEF Flattened
<1>9. FlattenSeq(<< >>) = << >>
  BY DEF FlattenSeq
<1> QED BY <1>7, <1>8, <1>9 DEF u

(* The first n of the texts g. *)
LEMMA FlattenNext ==
  ASSUME NEW n \in Nat, NEW g, \A k \in 1..(n + 1) : g[k] \in Letters
  PROVE  /\ FlattenSeq([k \in 1..n |-> g[k]]) \in Letters
         /\ FlattenSeq([k \in 1..(n + 1) |-> g[k]]) = FlattenSeq([k \in 1..n |-> g[k]]) \o g[n + 1]
<1> DEFINE s == [k \in 1..n |-> g[k]]
           u == [k \in 1..(n + 1) |-> g[k]]
           t == g[n + 1]
<1>1. s \in Seq(Letters) /\ Len(s) = n /\ t \in Letters /\ \A k \in 1..n : s[k] = g[k]
  OBVIOUS
<1>2. u \in Seq(Letters) /\ Len(u) = n + 1 /\ \A k \in 1..(n + 1) : u[k] = g[k]
  OBVIOUS
<1> DEFINE v == Append(s, t)
<1>3. v \in Seq(Letters) /\ Len(v) = n + 1 /\ v[n + 1] = t /\ \A k \in 1..n : v[k] = s[k]
  <2> HIDE DEF s, t
  <2> QED BY <1>1, AppendProperties
<1>4. \A k \in 1..(n + 1) : v[k] = u[k]
  <2> SUFFICES ASSUME NEW k \in 1..(n + 1) PROVE v[k] = u[k]
    OBVIOUS
  <2>1. k \in 1..n \/ k = n + 1
    OBVIOUS
  <2> HIDE DEF s, u, v
  <2> QED BY <1>1, <1>2, <1>3, <2>1
<1> HIDE DEF s, u, v
<1>5. u = v
  BY <1>2, <1>3, <1>4
<1>6. FlattenSeq(s) \in Letters /\ FlattenSeq(Append(s, t)) = FlattenSeq(s) \o t
  <2> HIDE DEF t
  <2> QED BY <1>1, FlattenAppend
<1> QED BY <1>5, <1>6 DEF s, u, v

-----------------------------------------------------------------------------
(* The dump of a file: what it is made of, and what there is of it when a  *)
(* row r has its first t bytes, j of its blanks or n of its characters.    *)
Offset(n) == HexText(n, TRUE) \o << ":", " " >>
ByteText(b) == << "0", "x" >> \o (HexText(Code[b], FALSE) \o << " " >>)
BytesOf(c, r, n) == FlattenSeq([k \in 1..n |-> ByteText(c[r * RowLength + k])])
CharsOf(c, r, n) == [k \in 1..n |-> Shown(c[r * RowLength + k])]
RowOf(c, r, t) ==
    Offset(r * RowLength) \o BytesOf(c, r, t) \o Copies(5 * (RowLength - t), " ") \o << "|", " " >>
        \o CharsOf(c, r, t) \o << "LF" >>
LengthOf(c, r) == AtMost(Len(c), (r + 1) * RowLength) - r * RowLength
RowsUpTo(c, r) == FlattenSeq([n \in 1..r |-> RowOf(c, n - 1, LengthOf(c, n - 1))])

Started_(c, r) == RowsUpTo(c, r) \o Offset(r * RowLength)
Bytes_(c, r, t) == Started_(c, r) \o BytesOf(c, r, t)
Blanks_(c, r, t, j) == Bytes_(c, r, t) \o Copies(5 * j, " ")
Chars_(c, r, t, n) == (Blanks_(c, r, t, RowLength - t) \o << "|", " " >>) \o CharsOf(c, r, n)

Dumped(c) == c \in Seq(DOMAIN Code) /\ Len(c) < 2^IntBits

-----------------------------------------------------------------------------
LEMMA RowStart ==
  ASSUME NEW r \in Nat
  PROVE  r * RowLength \in Nat /\ (r + 1) * RowLength = r * RowLength + RowLength /\ RowLength \in Nat \ {0}
<1>1. RowLength \in Nat \ {0}
  BY PrintedAssumption DEF PrintedAssumption
<1> QED BY <1>1

(* A place in a file has one row and one column. *)
LEMMA SameRow ==
  ASSUME NEW n \in Nat \ {0}, NEW r \in Nat, NEW q \in Nat, NEW t \in 0..(n - 1), NEW u \in 0..(n - 1),
         r * n + t = q * n + u
  PROVE  r = q /\ t = u
<1>1. ASSUME NEW a \in Nat, NEW b \in Nat, a < b PROVE a * n + n <= b * n
  <2>1. b = a + 1 + (b - a - 1) /\ b - a - 1 \in Nat
    BY <1>1
  <2> DEFINE d == b - a - 1
  <2>2. d \in Nat /\ b = a + 1 + d
    BY <2>1
  <2> HIDE DEF d
  <2>3. (a + 1 + d) * n = a * n + n + d * n /\ d * n \in Nat /\ a * n \in Nat
    BY <2>2
  <2> QED BY <2>2, <2>3
<1>2. r * n \in Nat /\ q * n \in Nat
  OBVIOUS
<1>3. ~(r < q)
  BY <1>1, <1>2
<1>4. ~(q < r)
  BY <1>1, <1>2
<1> QED BY <1>2, <1>3, <1>4

LEMMA RowIsFull ==
  ASSUME NEW r \in Nat, NEW t \in 0..RowLength, t = 0 => r = 0
  PROVE  (r * RowLength + t > 0 /\ (r * RowLength + t) % RowLength = 0) <=> t = RowLength
<1> DEFINE n == RowLength
           i == r * n + t
<1>1. r * n \in Nat /\ (r + 1) * n = r * n + n /\ n \in Nat \ {0}
  BY RowStart
<1>2. i \in Nat
  BY <1>1
<1>3. i % n \in 0..(n - 1) /\ i \div n \in Nat /\ i = (i \div n) * n + (i % n)
  <2>1. i \div n \in Nat /\ i % n \in 0..(n - 1)
    BY <1>1, <1>2, DivisionNat
  <2>2. i = n * (i \div n) + (i % n)
    BY <1>1, <1>2
  <2> DEFINE q == i \div n
             m == i % n
  <2> HIDE DEF q, m, i
  <2>3. n * q = q * n
    BY <1>1, <2>1 DEF q
  <2> QED BY <2>1, <2>2, <2>3 DEF q, m
<1> DEFINE q == i \div n
           m == i % n
<1>4. q \in Nat /\ m \in 0..(n - 1) /\ i = q * n + m
  BY <1>3
<1> HIDE DEF q, m
<1>5. ASSUME t = n PROVE i > 0 /\ m = 0
  <2>1. i = (r + 1) * n + 0 /\ i > 0
    BY <1>1, <1>5
  <2>2. r + 1 \in Nat /\ 0 \in 0..(n - 1) /\ q * n + m = (r + 1) * n + 0
    BY <1>1, <1>4, <2>1
  <2> HIDE DEF i, n
  <2>3. m = 0
    BY <1>1, <1>4, <2>2, SameRow
  <2> QED BY <2>1, <2>3
<1>6. ASSUME t # n, i > 0 PROVE m # 0
  <2>1. t \in 0..(n - 1)
    BY <1>1, <1>6
  <2>2. q * n + m = r * n + t
    BY <1>4
  <2>3. m = t
    <3> HIDE DEF i, n
    <3> QED BY <1>1, <1>4, <2>1, <2>2, SameRow
  <2>4. t = 0 => i = 0
    BY <1>1
  <2> QED BY <1>6, <2>3, <2>4
<1> QED BY <1>5, <1>6 DEF m

LEMMA LastRowIs ==
  ASSUME NEW r \in Nat, NEW t \in 1..RowLength
  PROVE  (r * RowLength + t + RowLength - 1) \div RowLength = r + 1
<1> DEFINE n == RowLength
           i == r * n + t + n - 1
           q == i \div n
           m == i % n
<1>1. r * n \in Nat /\ (r + 1) * n = r * n + n /\ n \in Nat \ {0}
  BY RowStart
<1>2. i \in Nat
  BY <1>1
<1>3. q \in Nat /\ m \in 0..(n - 1) /\ i = n * q + m
  <2>1. q \in Nat /\ m \in 0..(n - 1)
    BY <1>1, <1>2, DivisionNat
  <2>2. i = n * q + m
    BY <1>1, <1>2
  <2> QED BY <2>1, <2>2
<1>4. i = (r + 1) * n + (t - 1) /\ t - 1 \in 0..(n - 1) /\ r + 1 \in Nat
  BY <1>1
<1> HIDE DEF i, q, m, n
<1>5. q * n + m = (r + 1) * n + (t - 1)
  <2>1. n * q = q * n
    BY <1>1, <1>3
  <2> QED BY <1>3, <1>4, <2>1
<1>6. q = r + 1
  BY <1>1, <1>3, <1>4, <1>5, SameRow
<1> QED BY <1>6 DEF q, i, n

-----------------------------------------------------------------------------
LEMMA ByteFacts ==
  ASSUME Powers, Alphabet, Texts, NEW b \in DOMAIN Code
  PROVE  /\ Code[b] \in 0..(2^IntBits - 1) /\ Code[b] % 2^CharBits = Code[b]
         /\ ByteText(b) \in Letters /\ Shown(b) \in Letter
<1>1. Code[b] \in 0..(2^CharBits - 1)
  BY PrintedAssumption DEF PrintedAssumption
<1>2. 2^CharBits \in Nat \ {0} /\ 2^IntBits \in Nat \ {0} /\ 2^CharBits <= 2^IntBits
  <2>1. 2^CharBits \in Nat \ {0}
    BY FormatAssumption DEF FormatAssumption
  <2> QED BY <2>1, IntRange
<1> DEFINE v == Code[b]
           p == 2^CharBits
           q == 2^IntBits
<1>3. v \in 0..(p - 1) /\ p \in Nat \ {0} /\ q \in Nat \ {0} /\ p <= q
  BY <1>1, <1>2
<1> HIDE DEF v, p, q
<1>4. v \in 0..(q - 1) /\ v % p = v
  BY <1>3
<1>5. v \in 0..(2^IntBits - 1) /\ v % 2^CharBits = v
  BY <1>4 DEF p, q
<1>6. HexText(v, FALSE) \in Letters
  BY <1>5, HexIsText
<1>7. ByteText(b) \in Letters
  <2>1. << "0", "x" >> \in Letters /\ << " " >> \in Letters
    BY PlainPieces DEF Plain
  <2>2. HexText(v, FALSE) \o << " " >> \in Letters
    BY <1>6, <2>1, Concat
  <2>3. << "0", "x" >> \o (HexText(v, FALSE) \o << " " >>) \in Letters
    BY <2>1, <2>2, Concat
  <2> QED BY <2>3 DEF ByteText, v
<1>8. Shown(b) \in Letter
  BY DEF Shown, Texts
<1> QED BY <1>5, <1>7, <1>8 DEF v

LEMMA OffsetLetters ==
  ASSUME Powers, Alphabet, Texts, NEW n \in 0..(2^IntBits - 1) PROVE Offset(n) \in Letters
<1>1. << ":", " " >> \in Letters
  BY PlainPieces DEF Plain
<1>2. HexText(n, TRUE) \in Letters
  BY HexIsText
<1> QED BY <1>1, <1>2, Concat DEF Offset

(* The places of a row. *)
LEMMA Places ==
  ASSUME NEW c, Dumped(c), NEW r \in Nat, NEW t \in 0..RowLength, r * RowLength + t <= Len(c)
  PROVE  \A k \in 1..t : c[r * RowLength + k] \in DOMAIN Code
<1>1. r * RowLength \in Nat /\ RowLength \in Nat
  BY RowStart
<1>2. c \in Seq(DOMAIN Code) /\ Len(c) \in Nat
  BY LenProperties DEF Dumped
<1> DEFINE m == r * RowLength
<1>3. m \in Nat /\ m + t <= Len(c)
  BY <1>1
<1> HIDE DEF m
<1>4. ASSUME NEW k \in 1..t PROVE c[m + k] \in DOMAIN Code
  <2>1. m + k \in 1..Len(c)
    BY <1>1, <1>2, <1>3
  <2> QED BY <1>2, <2>1, ElementOfSeq
<1> QED BY <1>4 DEF m

LEMMA BytesNext ==
  ASSUME Powers, Alphabet, Texts, NEW c, Dumped(c), NEW r \in Nat, NEW t \in 0..RowLength,
         r * RowLength + t <= Len(c)
  PROVE  /\ BytesOf(c, r, t) \in Letters
         /\ t < RowLength /\ r * RowLength + t < Len(c) =>
              BytesOf(c, r, t + 1) = BytesOf(c, r, t) \o ByteText(c[r * RowLength + t + 1])
<1>1. r * RowLength \in Nat /\ RowLength \in Nat /\ Len(c) \in Nat /\ t \in Nat
  BY RowStart, LenProperties DEF Dumped
<1>2. ASSUME NEW n \in Nat, n + 1 <= RowLength, r * RowLength + (n + 1) <= Len(c)
      PROVE  /\ BytesOf(c, r, n) \in Letters
             /\ BytesOf(c, r, n + 1) = BytesOf(c, r, n) \o ByteText(c[r * RowLength + (n + 1)])
  <2> DEFINE g == [k \in 1..(n + 1) |-> ByteText(c[r * RowLength + k])]
  <2>1. \A k \in 1..(n + 1) : c[r * RowLength + k] \in DOMAIN Code
    <3>1. n + 1 \in 0..RowLength
      BY <1>1, <1>2
    <3> QED BY <1>2, <3>1, Places
  <2>2. \A k \in 1..(n + 1) : ByteText(c[r * RowLength + k]) \in Letters
    BY <2>1, ByteFacts
  <2>3. \A k \in 1..(n + 1) : g[k] = ByteText(c[r * RowLength + k])
    OBVIOUS
  <2>4. \A k \in 1..n : k \in 1..(n + 1)
    OBVIOUS
  <2>5. n + 1 \in 1..(n + 1)
    OBVIOUS
  <2> HIDE DEF g
  <2>6. [k \in 1..n |-> g[k]] = [k \in 1..n |-> ByteText(c[r * RowLength + k])]
    BY <2>3, <2>4
  <2>7. [k \in 1..(n + 1) |-> g[k]] = [k \in 1..(n + 1) |-> ByteText(c[r * RowLength + k])]
    BY <2>3
  <2>8. g[n + 1] = ByteText(c[r * RowLength + (n + 1)])
    BY <2>3, <2>5
  <2>9. \A k \in 1..(n + 1) : g[k] \in Letters
    BY <2>2, <2>3
  <2>10. /\ FlattenSeq([k \in 1..n |-> g[k]]) \in Letters
         /\ FlattenSeq([k \in 1..(n + 1) |-> g[k]]) = FlattenSeq([k \in 1..n |-> g[k]]) \o g[n + 1]
    BY <2>9, FlattenNext
  <2> QED BY <2>6, <2>7, <2>8, <2>10, Zenon DEF BytesOf
<1>3. BytesOf(c, r, t) \in Letters
  <2>1. CASE t = 0
    <3>1. [k \in 1..0 |-> ByteText(c[r * RowLength + k])] = << >>
      OBVIOUS
    <3>2. BytesOf(c, r, 0) = FlattenSeq(<< >>)
      BY <3>1, Zenon DEF BytesOf
    <3>3. << >> \in Seq(Letters) /\ << >> \in Letters
      BY EmptyLetters
    <3>4. BytesOf(c, r, 0) = << >>
      BY <3>2, <3>3, FlattenAppend
    <3> QED BY <2>1, <3>3, <3>4
  <2>2. CASE t # 0
    <3> DEFINE n == t - 1
    <3>1. n \in Nat /\ n + 1 = t
      BY <1>1, <2>2
    <3> HIDE DEF n
    <3>2. BytesOf(c, r, n) \in Letters /\ BytesOf(c, r, t) = BytesOf(c, r, n) \o ByteText(c[r * RowLength + t])
      BY <1>2, <3>1, SMTT(30)
    <3>3. c[r * RowLength + t] \in DOMAIN Code
      <4>1. t \in 1..t
        BY <1>1, <2>2
      <4> QED BY <4>1, Places
    <3> QED BY <3>2, <3>3, ByteFacts, Concat
  <2> QED BY <2>1, <2>2
<1>4. ASSUME t < RowLength, r * RowLength + t < Len(c)
      PROVE  BytesOf(c, r, t + 1) = BytesOf(c, r, t) \o ByteText(c[r * RowLength + t + 1])
  <2> DEFINE m == r * RowLength
  <2>1. t + 1 <= RowLength /\ m + (t + 1) <= Len(c) /\ m + (t + 1) = m + t + 1
    BY <1>1, <1>4
  <2> QED BY <1>1, <1>2, <2>1
<1> QED BY <1>3, <1>4

LEMMA AddOne ==
  ASSUME NEW s \in Letters, NEW u \in Letters, NEW x \in Letter, NEW n \in Nat, Len(s) = n, Len(u) = n + 1,
         \A k \in 1..n : u[k] = s[k], u[n + 1] = x
  PROVE  u = s \o << x >>
<1> DEFINE v == << x >>
<1>1. v \in Letters /\ Len(v) = 1 /\ v[1] = x
  BY One
<1> HIDE DEF v
<1>2. /\ s \o v \in Letters /\ Len(s \o v) = n + 1
      /\ \A k \in 1..(n + 1) : (s \o v)[k] = IF k <= n THEN s[k] ELSE v[k - n]
  <2>1. /\ s \o v \in Letters /\ Len(s \o v) = Len(s) + Len(v)
        /\ \A k \in 1..(Len(s) + Len(v)) : (s \o v)[k] = IF k <= Len(s) THEN s[k] ELSE v[k - Len(s)]
    BY <1>1, ConcatLetters, Zenon
  <2>2. Len(s) = n /\ Len(v) = 1
    BY <1>1
  <2> QED BY <2>1, <2>2, Zenon
<1>3. \A k \in 1..(n + 1) : (s \o v)[k] = u[k]
  <2> SUFFICES ASSUME NEW k \in 1..(n + 1) PROVE (s \o v)[k] = u[k]
    OBVIOUS
  <2>1. CASE k \in 1..n
    <3>1. k <= n /\ u[k] = s[k]
      BY <2>1
    <3> QED BY <1>2, <3>1, Zenon
  <2>2. CASE k = n + 1
    <3>1. ~(k <= n) /\ k - n = 1
      BY <2>2
    <3>2. (s \o v)[k] = v[k - n] /\ u[k] = x
      BY <1>2, <2>2, <3>1
    <3> QED BY <1>1, <3>1, <3>2, Zenon
  <2>3. k \in 1..n \/ k = n + 1
    OBVIOUS
  <2> QED BY <2>1, <2>2, <2>3, Zenon
<1>4. u = s \o v
  BY <1>2, <1>3, SameSeq
<1> QED BY <1>4 DEF v

LEMMA CharsNext ==
  ASSUME Texts, NEW c, Dumped(c), NEW r \in Nat, NEW t \in 0..RowLength, r * RowLength + t <= Len(c)
  PROVE  /\ CharsOf(c, r, t) \in Letters /\ CharsOf(c, r, 0) = << >>
         /\ \A n \in Nat : n < t => CharsOf(c, r, n + 1) = CharsOf(c, r, n) \o << Shown(c[r * RowLength + n + 1]) >>
<1>1. \A k \in 1..t : c[r * RowLength + k] \in DOMAIN Code
  BY Places
<1>2. \A k \in 1..t : Shown(c[r * RowLength + k]) \in Letter
  BY <1>1 DEF Shown, Texts
<1>3. t \in Nat /\ RowLength \in Nat /\ r * RowLength \in Nat
  BY RowStart
<1>4. ASSUME NEW n \in Nat, n <= t
      PROVE  /\ CharsOf(c, r, n) \in Letters /\ Len(CharsOf(c, r, n)) = n
             /\ \A k \in 1..n : CharsOf(c, r, n)[k] = Shown(c[r * RowLength + k])
  <2>1. \A k \in 1..n : Shown(c[r * RowLength + k]) \in Letter
    BY <1>2, <1>3, <1>4
  <2> DEFINE s == [k \in 1..n |-> Shown(c[r * RowLength + k])]
  <2>2. s \in Seq(Letter)
    BY <2>1
  <2>3. Len(s) = n
    OBVIOUS
  <2>4. \A k \in 1..n : s[k] = Shown(c[r * RowLength + k])
    OBVIOUS
  <2> QED BY <2>2, <2>3, <2>4, Zenon DEF CharsOf, Letters
<1>5. ASSUME NEW n \in Nat, n < t
      PROVE  CharsOf(c, r, n + 1) = CharsOf(c, r, n) \o << Shown(c[r * RowLength + n + 1]) >>
  <2> DEFINE s == CharsOf(c, r, n)
             u == CharsOf(c, r, n + 1)
             x == Shown(c[r * RowLength + n + 1])
  <2>1. n + 1 \in Nat /\ n + 1 <= t /\ n <= t /\ n + 1 \in 1..t /\ r * RowLength + n + 1 = r * RowLength + (n + 1)
    BY <1>3, <1>5
  <2>2. s \in Letters /\ Len(s) = n /\ \A k \in 1..n : s[k] = Shown(c[r * RowLength + k])
    BY <1>4, <2>1
  <2>3. u \in Letters /\ Len(u) = n + 1 /\ \A k \in 1..(n + 1) : u[k] = Shown(c[r * RowLength + k])
    BY <1>4, <2>1
  <2>4. x \in Letter /\ x = Shown(c[r * RowLength + (n + 1)])
    BY <1>2, <2>1
  <2>5. /\ \A k \in 1..n : u[k] = s[k]
        /\ u[n + 1] = x
    <3>1. \A k \in 1..n : k \in 1..(n + 1)
      BY <1>5
    <3>2. n + 1 \in 1..(n + 1)
      BY <1>5
    <3> HIDE DEF s, u, x
    <3> QED BY <2>2, <2>3, <2>4, <3>1, <3>2
  <2> HIDE DEF s, u, x
  <2>6. u = s \o << x >>
    BY <1>5, <2>2, <2>3, <2>4, <2>5, AddOne
  <2> QED BY <2>6 DEF s, u, x
<1>6. CharsOf(c, r, 0) = << >>
  BY DEF CharsOf
<1> QED BY <1>3, <1>4, <1>5, <1>6

LEMMA CopiesNext ==
  ASSUME NEW x \in Letter, NEW m \in Nat, NEW n \in Nat
  PROVE  Copies(m + n, x) = Copies(m, x) \o Copies(n, x)
<1> DEFINE s == Copies(m, x)
           u == Copies(n, x)
           v == Copies(m + n, x)
<1>1. s \in Letters /\ Len(s) = m /\ \A i \in 1..m : s[i] = x
  BY CopiesFacts
<1>2. u \in Letters /\ Len(u) = n /\ \A i \in 1..n : u[i] = x
  BY CopiesFacts
<1>3. v \in Letters /\ Len(v) = m + n /\ \A i \in 1..(m + n) : v[i] = x
  <2> DEFINE k == m + n
  <2>1. k \in Int /\ ~(k < 0)
    OBVIOUS
  <2> HIDE DEF k
  <2>2. Copies(k, x) \in Letters /\ Len(Copies(k, x)) = k /\ \A i \in 1..k : Copies(k, x)[i] = x
    BY <2>1, CopiesFacts
  <2> QED BY <2>2 DEF k
<1> HIDE DEF s, u, v
<1>4. /\ s \o u \in Letters /\ Len(s \o u) = m + n
      /\ \A i \in 1..(m + n) : (s \o u)[i] = IF i <= m THEN s[i] ELSE u[i - m]
  BY <1>1, <1>2, ConcatLetters
<1>5. \A i \in 1..(m + n) : (s \o u)[i] = x
  BY <1>1, <1>2, <1>4
<1>6. v = s \o u
  BY <1>3, <1>4, <1>5, SameSeq
<1> QED BY <1>6 DEF s, u, v

-----------------------------------------------------------------------------
LEMMA FlattenLetters ==
  ASSUME NEW n \in Nat, NEW g, \A k \in 1..n : g[k] \in Letters
  PROVE  FlattenSeq([k \in 1..n |-> g[k]]) \in Letters
<1> DEFINE s == [k \in 1..n |-> g[k]]
<1>1. s \in Seq(Letters)
  OBVIOUS
<1> HIDE DEF s
<1>2. FlattenSeq(s) \in Letters
  BY <1>1, EmptyLetters, FlattenAppend
<1> QED BY <1>2 DEF s

LEMMA Joined ==
  ASSUME NEW t1 \in Letters, NEW t2 \in Letters, NEW t3 \in Letters, NEW t4 \in Letters,
         NEW t5 \in Letters, NEW t6 \in Letters
  PROVE  t1 \o t2 \o t3 \o t4 \o t5 \o t6 \in Letters
<1>1. t1 \o t2 \in Letters
  BY Concat
<1>2. t1 \o t2 \o t3 \in Letters
  BY <1>1, Concat
<1>3. t1 \o t2 \o t3 \o t4 \in Letters
  BY <1>2, Concat
<1>4. t1 \o t2 \o t3 \o t4 \o t5 \in Letters
  BY <1>3, Concat
<1> QED BY <1>4, Concat

Regrouped(s, t1, t2, t3, t4, t5, t6) ==
    (((((s \o t1) \o t2) \o t3) \o t4) \o t5) \o t6 = s \o (t1 \o t2 \o t3 \o t4 \o t5 \o t6)

LEMMA Regroup ==
  ASSUME NEW s \in Letters, NEW t1 \in Letters, NEW t2 \in Letters, NEW t3 \in Letters, NEW t4 \in Letters,
         NEW t5 \in Letters, NEW t6 \in Letters
  PROVE  Regrouped(s, t1, t2, t3, t4, t5, t6)
<1> DEFINE u2 == t1 \o t2
           u3 == u2 \o t3
           u4 == u3 \o t4
           u5 == u4 \o t5
           u6 == u5 \o t6
<1>0. u2 = t1 \o t2 /\ u3 = u2 \o t3 /\ u4 = u3 \o t4 /\ u5 = u4 \o t5 /\ u6 = u5 \o t6
  BY Zenon
<1> HIDE DEF u2, u3, u4, u5, u6
<1>12. u2 \in Letters
  BY <1>0, Concat
<1>13. u3 \in Letters
  BY <1>0, <1>12, Concat
<1>14. u4 \in Letters
  BY <1>0, <1>13, Concat
<1>15. u5 \in Letters
  BY <1>0, <1>14, Concat
<1>1. \A b \in Letters, x \in Letters : (s \o b) \o x = s \o (b \o x)
  BY Assoc
<1>2. (s \o t1) \o t2 = s \o u2
  <2>1. u2 = t1 \o t2
    BY <1>0, Zenon
  <2>2. (s \o t1) \o t2 = s \o (t1 \o t2)
    BY <1>1, Zenon
  <2> QED BY <2>1, <2>2, Zenon
<1>3. (s \o u2) \o t3 = s \o u3
  <2>1. u3 = u2 \o t3
    BY <1>0, Zenon
  <2>2. (s \o u2) \o t3 = s \o (u2 \o t3)
    BY <1>1, <1>12, Zenon
  <2> QED BY <2>1, <2>2, Zenon
<1>4. (s \o u3) \o t4 = s \o u4
  <2>1. u4 = u3 \o t4
    BY <1>0, Zenon
  <2>2. (s \o u3) \o t4 = s \o (u3 \o t4)
    BY <1>1, <1>13, Zenon
  <2> QED BY <2>1, <2>2, Zenon
<1>5. (s \o u4) \o t5 = s \o u5
  <2>1. u5 = u4 \o t5
    BY <1>0, Zenon
  <2>2. (s \o u4) \o t5 = s \o (u4 \o t5)
    BY <1>1, <1>14, Zenon
  <2> QED BY <2>1, <2>2, Zenon
<1>6. (s \o u5) \o t6 = s \o u6
  <2>1. u6 = u5 \o t6
    BY <1>0, Zenon
  <2>2. (s \o u5) \o t6 = s \o (u5 \o t6)
    BY <1>1, <1>15, Zenon
  <2> QED BY <2>1, <2>2, Zenon
<1>7. (((((s \o t1) \o t2) \o t3) \o t4) \o t5) \o t6 = s \o u6
  BY <1>2, <1>3, <1>4, <1>5, <1>6, Zenon
<1> QED BY <1>7, Zenon DEF u2, u3, u4, u5, u6, Regrouped

-----------------------------------------------------------------------------
(* How long a row is. *)
LEMMA Product ==
  ASSUME NEW a \in Nat, NEW b \in Nat, NEW n \in Nat, a < b PROVE a * n + n <= b * n
<1> DEFINE d == b - a - 1
<1>1. d \in Nat /\ b = a + 1 + d
  OBVIOUS
<1> HIDE DEF d
<1>2. (a + 1 + d) * n = a * n + n + d * n /\ d * n \in Nat /\ a * n \in Nat
  BY <1>1
<1> QED BY <1>1, <1>2

LEMMA FullLength ==
  ASSUME NEW c, Dumped(c), NEW r \in Nat, NEW q \in Nat, q < r, r * RowLength <= Len(c)
  PROVE  LengthOf(c, q) = RowLength /\ q * RowLength + RowLength <= Len(c)
<1> DEFINE n == RowLength
           a == q * n
           b == r * n
           p == (q + 1) * n
<1>1. n \in Nat \ {0} /\ a \in Nat /\ b \in Nat /\ p = a + n
  BY RowStart
<1>2. Len(c) \in Nat
  BY LenProperties DEF Dumped
<1>3. a + n <= b
  <2>1. n \in Nat
    BY <1>1
  <2> HIDE DEF n
  <2> QED BY <2>1, Product
<1>4. b <= Len(c)
  OBVIOUS
<1>5. LengthOf(c, q) = AtMost(Len(c), p) - a
  BY DEF LengthOf
<1> DEFINE m == Len(c)
<1> HIDE DEF a, b, p, n, m
<1>6. m \in Nat /\ b <= m
  BY <1>2, <1>4 DEF m
<1>7. AtMost(m, p) - a = n /\ a + n <= m
  BY <1>1, <1>3, <1>6 DEF AtMost
<1> QED BY <1>5, <1>7 DEF a, n, m

LEMMA LastLength ==
  ASSUME NEW c, Dumped(c), NEW r \in Nat, NEW t \in 0..RowLength, Len(c) = r * RowLength + t
  PROVE  LengthOf(c, r) = t
<1> DEFINE n == RowLength
           a == r * n
           p == (r + 1) * n
           m == Len(c)
<1>1. n \in Nat \ {0} /\ a \in Nat /\ p = a + n
  BY RowStart
<1>2. LengthOf(c, r) = AtMost(m, p) - a
  BY DEF LengthOf
<1>3. t \in 0..n /\ m = a + t
  OBVIOUS
<1> HIDE DEF a, p, n, m
<1>4. AtMost(m, p) - a = t
  BY <1>1, <1>3 DEF AtMost
<1> QED BY <1>2, <1>4

LEMMA RowLetters ==
  ASSUME Powers, Alphabet, Texts, NEW c, Dumped(c), NEW r \in Nat, NEW t \in 0..RowLength,
         r * RowLength + t <= Len(c)
  PROVE  /\ Offset(r * RowLength) \in Letters /\ BytesOf(c, r, t) \in Letters
         /\ Copies(5 * (RowLength - t), " ") \in Letters /\ << "|", " " >> \in Letters
         /\ CharsOf(c, r, t) \in Letters /\ << "LF" >> \in Letters
         /\ RowOf(c, r, t) \in Letters
<1>1. Offset(r * RowLength) \in Letters
  <2> DEFINE m == r * RowLength
  <2>1. m \in Nat /\ RowLength \in Nat /\ m + t <= Len(c) /\ Len(c) \in Nat /\ t \in Nat
    BY RowStart, LenProperties DEF Dumped
  <2>2. 2^IntBits \in Nat /\ Len(c) < 2^IntBits
    BY IntRange DEF Dumped
  <2> DEFINE q == 2^IntBits
             n == Len(c)
  <2> HIDE DEF m, q, n
  <2>3. q \in Nat /\ n < q /\ n \in Nat /\ m + t <= n
    BY <2>1, <2>2 DEF q, n
  <2>4. m \in 0..(q - 1)
    BY <2>1, <2>3
  <2> QED BY <2>4, OffsetLetters DEF m, q
<1>2. BytesOf(c, r, t) \in Letters
  BY BytesNext
<1>3. CharsOf(c, r, t) \in Letters
  BY CharsNext
<1>4. Copies(5 * (RowLength - t), " ") \in Letters
  <2>1. 5 * (RowLength - t) \in Int
    <3>1. RowLength \in Int /\ t \in Int
      BY PrintedAssumption DEF PrintedAssumption
    <3> DEFINE n == RowLength - t
    <3>2. n \in Int
      BY <3>1
    <3> HIDE DEF n
    <3> QED BY <3>2 DEF n
  <2>2. " " \in Letter
    BY DEF Texts
  <2> QED BY <2>1, <2>2, CopiesLetters
<1>5. << "|", " " >> \in Letters /\ << "LF" >> \in Letters
  <2>1. "|" \in Letter /\ " " \in Letter /\ "LF" \in Letter
    BY DEF Texts
  <2>2. \A a \in Letter, b \in Letter : << a, b >> \in Letters
    BY DEF Letters
  <2>3. << "LF" >> \in Letters
    BY <2>1, One
  <2> QED BY <2>1, <2>2, <2>3
<1>6. RowOf(c, r, t) \in Letters
  <2> DEFINE t1 == Offset(r * RowLength)
             t2 == BytesOf(c, r, t)
             t3 == Copies(5 * (RowLength - t), " ")
             t4 == << "|", " " >>
             t5 == CharsOf(c, r, t)
             t6 == << "LF" >>
  <2>1. /\ t1 \in Letters /\ t2 \in Letters /\ t3 \in Letters /\ t4 \in Letters /\ t5 \in Letters
        /\ t6 \in Letters
    BY <1>1, <1>2, <1>3, <1>4, <1>5
  <2>2. RowOf(c, r, t) = t1 \o t2 \o t3 \o t4 \o t5 \o t6
    BY Zenon DEF RowOf
  <2> HIDE DEF t1, t2, t3, t4, t5, t6
  <2>3. t1 \o t2 \o t3 \o t4 \o t5 \o t6 \in Letters
    BY <2>1, Joined
  <2> QED BY <2>2, <2>3
<1> QED BY <1>1, <1>2, <1>3, <1>4, <1>5, <1>6

(* The rows before a row. *)
LEMMA RowsFacts ==
  ASSUME Powers, Alphabet, Texts, NEW c, Dumped(c), NEW r \in Nat, r * RowLength <= Len(c)
  PROVE  /\ RowsUpTo(c, r) \in Letters /\ RowsUpTo(c, 0) = << >>
         /\ \A t \in 1..RowLength : t = LengthOf(c, r) /\ r * RowLength + t <= Len(c) =>
                RowsUpTo(c, r + 1) = RowsUpTo(c, r) \o RowOf(c, r, t)
<1> DEFINE F(n) == RowOf(c, n - 1, LengthOf(c, n - 1))
           g == [n \in 1..(r + 1) |-> F(n)]
<1>0. RowLength \in Nat /\ RowLength \in 0..RowLength
  BY RowStart
<1>1. \A n \in 1..r : F(n) \in Letters
  <2> SUFFICES ASSUME NEW n \in 1..r PROVE F(n) \in Letters
    OBVIOUS
  <2> DEFINE q == n - 1
  <2>1. q \in Nat /\ q < r
    OBVIOUS
  <2> HIDE DEF q
  <2>2. LengthOf(c, q) = RowLength /\ q * RowLength + RowLength <= Len(c)
    BY <2>1, FullLength
  <2>3. RowOf(c, q, LengthOf(c, q)) \in Letters
    BY <1>0, <2>1, <2>2, RowLetters
  <2> QED BY <2>3 DEF q
<1>2. \A n \in 1..(r + 1) : g[n] = F(n)
  OBVIOUS
<1>3. \A n \in 1..r : n \in 1..(r + 1)
  OBVIOUS
<1>4. r + 1 \in 1..(r + 1) /\ r + 1 - 1 = r
  OBVIOUS
<1>5. F(r + 1) = RowOf(c, r, LengthOf(c, r))
  BY <1>4
<1> HIDE DEF g, F
<1>6. [n \in 1..r |-> g[n]] = [n \in 1..r |-> F(n)]
  BY <1>2, <1>3
<1>7. [n \in 1..(r + 1) |-> g[n]] = [n \in 1..(r + 1) |-> F(n)]
  BY <1>2
<1>8. RowsUpTo(c, r) = FlattenSeq([n \in 1..r |-> g[n]])
  BY <1>6, Zenon DEF RowsUpTo, F
<1>9. RowsUpTo(c, r + 1) = FlattenSeq([n \in 1..(r + 1) |-> g[n]])
  BY <1>7, Zenon DEF RowsUpTo, F
<1>10. RowsUpTo(c, r) \in Letters
  <2>1. \A n \in 1..r : g[n] \in Letters
    BY <1>1, <1>2, <1>3
  <2> QED BY <1>8, <2>1, FlattenLetters
<1>11. RowsUpTo(c, 0) = << >>
  <2>1. [n \in 1..0 |-> F(n)] = << >>
    OBVIOUS
  <2>2. RowsUpTo(c, 0) = FlattenSeq(<< >>)
    BY <2>1, Zenon DEF RowsUpTo, F
  <2>3. << >> \in Seq(Letters)
    OBVIOUS
  <2> QED BY <2>2, <2>3, EmptyLetters, FlattenAppend
<1>12. ASSUME NEW t \in 1..RowLength, t = LengthOf(c, r), r * RowLength + t <= Len(c)
       PROVE  RowsUpTo(c, r + 1) = RowsUpTo(c, r) \o RowOf(c, r, t)
  <2>1. t \in 0..RowLength
    BY <1>0
  <2>2. RowOf(c, r, t) \in Letters /\ g[r + 1] = RowOf(c, r, t)
    BY <1>2, <1>4, <1>5, <1>12, <2>1, RowLetters
  <2>3. \A n \in 1..(r + 1) : n \in 1..r \/ n = r + 1
    OBVIOUS
  <2>4. \A n \in 1..(r + 1) : g[n] \in Letters
    BY <1>1, <1>2, <2>2, <2>3
  <2> QED BY <1>8, <1>9, <2>2, <2>4, FlattenNext
<1> QED BY <1>10, <1>11, <1>12

(* A row whose text is complete. *)
LEMMA RowEnds ==
  ASSUME Powers, Alphabet, Texts, NEW c, Dumped(c), NEW r \in Nat, NEW t \in 1..RowLength,
         t = LengthOf(c, r), r * RowLength + t <= Len(c)
  PROVE  Chars_(c, r, t, t) \o << "LF" >> = RowsUpTo(c, r + 1)
<1>1. r * RowLength <= Len(c) /\ t \in 0..RowLength
  <2> DEFINE m == r * RowLength
  <2>1. m \in Nat /\ RowLength \in Nat /\ m + t <= Len(c) /\ Len(c) \in Nat
    BY RowStart, LenProperties DEF Dumped
  <2> HIDE DEF m
  <2>2. m <= Len(c) /\ t \in 0..RowLength
    BY <2>1
  <2> QED BY <2>2 DEF m
<1>2. RowsUpTo(c, r) \in Letters /\ RowsUpTo(c, r + 1) = RowsUpTo(c, r) \o RowOf(c, r, t)
  BY <1>1, RowsFacts
<1>3. /\ Offset(r * RowLength) \in Letters /\ BytesOf(c, r, t) \in Letters
      /\ Copies(5 * (RowLength - t), " ") \in Letters /\ << "|", " " >> \in Letters
      /\ CharsOf(c, r, t) \in Letters /\ << "LF" >> \in Letters
  BY <1>1, RowLetters
<1>4. Chars_(c, r, t, t) \o << "LF" >> = RowsUpTo(c, r) \o RowOf(c, r, t)
  <2> DEFINE s == RowsUpTo(c, r)
             t1 == Offset(r * RowLength)
             t2 == BytesOf(c, r, t)
             t3 == Copies(5 * (RowLength - t), " ")
             t4 == << "|", " " >>
             t5 == CharsOf(c, r, t)
             t6 == << "LF" >>
  <2>1. /\ t1 \in Letters /\ t2 \in Letters /\ t3 \in Letters /\ t4 \in Letters /\ t5 \in Letters
        /\ t6 \in Letters /\ s \in Letters
    BY <1>2, <1>3
  <2>2. RowOf(c, r, t) = t1 \o t2 \o t3 \o t4 \o t5 \o t6
    BY Zenon DEF RowOf
  <2>3. Chars_(c, r, t, t) \o << "LF" >> = (((((s \o t1) \o t2) \o t3) \o t4) \o t5) \o t6
    BY Zenon DEF Chars_, Blanks_, Bytes_, Started_
  <2> HIDE DEF s, t1, t2, t3, t4, t5, t6
  <2>4. Regrouped(s, t1, t2, t3, t4, t5, t6)
    BY <2>1, Regroup
  <2> QED BY <2>2, <2>3, <2>4, Zenon DEF s, Regrouped
<1> QED BY <1>2, <1>4

-----------------------------------------------------------------------------
(* A row's bytes and characters are those the file has there.              *)
LEMMA RowIs ==
  ASSUME NEW c, Dumped(c), NEW r \in Nat, NEW t \in 1..RowLength, t = LengthOf(c, r), r * RowLength + t <= Len(c)
  PROVE  /\ Row(c, r) \in Seq(DOMAIN Code) /\ Len(Row(c, r)) = t
         /\ \A k \in 1..t : Row(c, r)[k] = c[r * RowLength + k]
<1> DEFINE m == r * RowLength
           p == AtMost(Len(c), (r + 1) * RowLength)
           first == m + 1
<1>1. m \in Nat /\ Len(c) \in Nat /\ c \in Seq(DOMAIN Code) /\ t \in Nat \ {0} /\ RowLength \in Nat
  <2>1. m \in Nat /\ RowLength \in Nat
    BY RowStart
  <2>2. c \in Seq(DOMAIN Code) /\ Len(c) \in Nat
    BY LenProperties DEF Dumped
  <2> HIDE DEF m
  <2> QED BY <2>1, <2>2
<1>2. p = m + t
  <2>1. t = p - m
    BY DEF LengthOf
  <2>2. p \in Int
    <3>1. (r + 1) * RowLength \in Nat
      <4>1. r + 1 \in Nat
        OBVIOUS
      <4> QED BY <4>1, RowStart
    <3> QED BY <1>1, <3>1 DEF AtMost
  <2> HIDE DEF p, m
  <2> QED BY <1>1, <2>1, <2>2
<1>3. Row(c, r) = SubSeq(c, first, p)
  BY DEF Row
<1>4. m + t <= Len(c)
  OBVIOUS
<1> HIDE DEF m, p
<1>5. first \in Int /\ p \in Int /\ first <= p /\ p - first + 1 = t /\ \A i \in first..p : i \in 1..Len(c)
  BY <1>1, <1>2, <1>4
<1>6. \A i \in first..p : c[i] \in DOMAIN Code
  BY <1>1, <1>5, ElementOfSeq
<1>7. \A k \in 1..t : first + k - 1 = m + k
  BY <1>1
<1> HIDE DEF first
<1>8. /\ SubSeq(c, first, p) \in Seq(DOMAIN Code)
      /\ Len(SubSeq(c, first, p)) = t
      /\ \A k \in 1..t : SubSeq(c, first, p)[k] = c[first + k - 1]
  BY <1>1, <1>5, <1>6, SubSeqProperties
<1>9. \A k \in 1..t : SubSeq(c, first, p)[k] = c[m + k]
  BY <1>7, <1>8
<1> QED BY <1>3, <1>8, <1>9 DEF m

LEMMA RowShown ==
  ASSUME Powers, Alphabet, Texts, NEW c, Dumped(c), NEW r \in Nat, NEW t \in 1..RowLength,
         t = LengthOf(c, r), r * RowLength + t <= Len(c)
  PROVE  /\ HexBytes(Row(c, r)) = BytesOf(c, r, t)
         /\ [k \in DOMAIN Row(c, r) |-> Shown(Row(c, r)[k])] = CharsOf(c, r, t)
<1> DEFINE row == Row(c, r)
           F(b) == << "0", "x" >> \o Std!AtLeast(1, Hex(Code[b])) \o << " " >>
<1>1. /\ row \in Seq(DOMAIN Code) /\ Len(row) = t /\ DOMAIN row = 1..t
      /\ \A k \in 1..t : row[k] = c[r * RowLength + k] /\ row[k] \in DOMAIN Code
  <2>1. row \in Seq(DOMAIN Code) /\ Len(row) = t /\ \A k \in 1..t : row[k] = c[r * RowLength + k]
    BY RowIs
  <2> HIDE DEF row
  <2>2. DOMAIN row = 1..t /\ \A k \in 1..t : row[k] \in DOMAIN Code
    BY <2>1, LenProperties
  <2> QED BY <2>1, <2>2
<1>2. ASSUME NEW b \in DOMAIN Code PROVE F(b) = ByteText(b)
  <2> DEFINE s == << "0", "x" >>
             u == HexText(Code[b], FALSE)
             v == << " " >>
  <2>1. s \in Letters /\ v \in Letters
    BY PlainPieces DEF Plain
  <2>2. u \in Letters
    <3>1. Code[b] \in 0..(2^IntBits - 1)
      BY ByteFacts
    <3> QED BY <3>1, HexIsText
  <2>3. F(b) = (s \o u) \o v
    BY Zenon DEF HexText
  <2>4. ByteText(b) = s \o (u \o v)
    BY Zenon DEF ByteText
  <2> HIDE DEF s, u, v, F
  <2>5. (s \o u) \o v = s \o (u \o v)
    BY <2>1, <2>2, Assoc
  <2> QED BY <2>3, <2>4, <2>5, Zenon
<1>3. HexBytes(row) = FlattenSeq([k \in DOMAIN row |-> F(row[k])])
  BY Zenon DEF HexBytes
<1> HIDE DEF row, F
<1>4. \A k \in 1..t : F(row[k]) = ByteText(c[r * RowLength + k])
  BY <1>1, <1>2
<1>5. [k \in 1..t |-> F(row[k])] = [k \in 1..t |-> ByteText(c[r * RowLength + k])]
  BY <1>4
<1>6. HexBytes(row) = BytesOf(c, r, t)
  BY <1>1, <1>3, <1>5, Zenon DEF BytesOf
<1>7. \A k \in 1..t : Shown(row[k]) = Shown(c[r * RowLength + k])
  BY <1>1
<1>8. [k \in 1..t |-> Shown(row[k])] = [k \in 1..t |-> Shown(c[r * RowLength + k])]
  BY <1>7
<1>9. [k \in DOMAIN row |-> Shown(row[k])] = CharsOf(c, r, t)
  BY <1>1, <1>8, Zenon DEF CharsOf
<1> QED BY <1>6, <1>9 DEF row

LEMMA DumpIs ==
  ASSUME Powers, Alphabet, Texts, NEW c, Dumped(c), NEW r \in Nat, NEW t \in 1..RowLength,
         Len(c) = r * RowLength + t
  PROVE  Dump(c) = RowsUpTo(c, r + 1)
<1> DEFINE Body(n) ==
             LET row == Row(c, n - 1)
             IN Std!AtLeast(8, Hex((n - 1) * RowLength)) \o <<":", " ">> \o HexBytes(row)
               \o Copies(5 * (RowLength - Len(row)), " ") \o <<"|", " ">>
               \o [k \in DOMAIN row |-> Shown(row[k])] \o <<"LF">>
           F(n) == RowOf(c, n - 1, LengthOf(c, n - 1))
<1>1. RowLength \in Nat \ {0} /\ r * RowLength \in Nat /\ t \in Nat \ {0} /\ Len(c) \in Nat
  BY RowStart, LenProperties DEF Dumped
<1>2. Rows(c) = r + 1
  <2>1. (r * RowLength + t + RowLength - 1) \div RowLength = r + 1
    BY LastRowIs
  <2> QED BY <2>1, Zenon DEF Rows
<1>3. c # << >>
  <2> DEFINE m == r * RowLength
  <2>1. m \in Nat /\ Len(c) = m + t
    BY <1>1
  <2> HIDE DEF m
  <2>2. Len(c) # 0
    BY <1>1, <2>1
  <2> QED BY <2>2, EmptyLetters
<1>4. Dump(c) = FlattenSeq([n \in 1..Rows(c) |-> Body(n)])
  BY <1>3, Zenon DEF Dump
<1>5. ASSUME NEW n \in 1..(r + 1) PROVE Body(n) = F(n)
  <2> DEFINE q == n - 1
             u == LengthOf(c, q)
             row == Row(c, q)
  <2>1. q \in Nat /\ (q < r \/ q = r)
    OBVIOUS
  <2>2. u \in 1..RowLength /\ q * RowLength + u <= Len(c)
    <3> HIDE DEF q
    <3>1. CASE q < r
      <4>1. r * RowLength <= Len(c)
        <5> DEFINE m == r * RowLength
        <5>1. m \in Nat /\ Len(c) = m + t
          BY <1>1
        <5> HIDE DEF m
        <5>2. m <= Len(c)
          BY <1>1, <5>1
        <5> QED BY <5>2 DEF m
      <4>2. u = RowLength /\ q * RowLength + RowLength <= Len(c)
        BY <2>1, <3>1, <4>1, FullLength
      <4>3. RowLength \in 1..RowLength
        BY <1>1
      <4> QED BY <4>2, <4>3, Zenon
    <3>2. CASE q = r
      <4>0. t \in 0..RowLength
        BY <1>1
      <4>1. u = t
        BY <3>2, <4>0, LastLength
      <4>2. Len(c) <= Len(c)
        BY <1>1
      <4> QED BY <3>2, <4>1, <4>2
    <3> QED BY <2>1, <3>1, <3>2
  <2>3. Len(row) = u /\ HexBytes(row) = BytesOf(c, q, u) /\ [k \in DOMAIN row |-> Shown(row[k])] = CharsOf(c, q, u)
    <3>1. u = LengthOf(c, q)
      OBVIOUS
    <3> HIDE DEF q, u
    <3>2. Len(Row(c, q)) = u
      BY <2>1, <2>2, <3>1, RowIs
    <3>3. HexBytes(Row(c, q)) = BytesOf(c, q, u) /\ [k \in DOMAIN Row(c, q) |-> Shown(Row(c, q)[k])] = CharsOf(c, q, u)
      BY <2>1, <2>2, <3>1, RowShown
    <3> QED BY <3>2, <3>3
  <2>4. Body(n) = Offset(q * RowLength) \o HexBytes(row) \o Copies(5 * (RowLength - Len(row)), " ") \o <<"|", " ">>
                     \o [k \in DOMAIN row |-> Shown(row[k])] \o <<"LF">>
    BY Zenon DEF Offset, HexText
  <2>5. F(n) = Offset(q * RowLength) \o BytesOf(c, q, u) \o Copies(5 * (RowLength - u), " ") \o <<"|", " ">>
                     \o CharsOf(c, q, u) \o <<"LF">>
    BY Zenon DEF RowOf
  <2> HIDE DEF Body, F, q, u, row
  <2> QED BY <2>3, <2>4, <2>5, Zenon
<1>6. RowsUpTo(c, r + 1) = FlattenSeq([n \in 1..(r + 1) |-> F(n)])
  BY Zenon DEF RowsUpTo
<1> HIDE DEF Body, F
<1>7. [n \in 1..(r + 1) |-> Body(n)] = [n \in 1..(r + 1) |-> F(n)]
  BY <1>5
<1> QED BY <1>2, <1>4, <1>6, <1>7, Zenon

(* The first offset is eight zeros. *)
LEMMA FirstOffset ==
  ASSUME Powers, Alphabet, Texts, NEW c, Dumped(c)
  PROVE  /\ Copies(8, "0") \o << ":", " " >> = Bytes_(c, 0, 0)
         /\ c = << >> => Bytes_(c, 0, 0) \o << "LF" >> = Dump(c)
<1> DEFINE zeros == Copies(8, "0")
           colon == << ":", " " >>
<1>1. zeros \in Letters /\ colon \in Letters /\ << "LF" >> \in Letters
  <2>1. colon \in Letters /\ << "LF" >> \in Letters
    BY PlainPieces DEF Plain
  <2>2. "0" \in Letter
    BY DEF Texts
  <2>3. 8 \in Int
    OBVIOUS
  <2>4. zeros \in Letters
    BY <2>2, <2>3, CopiesLetters
  <2> QED BY <2>1, <2>4
<1>2. HexText(0, TRUE) = zeros
  <2>1. Std!AtLeast(8, << >>) = Copies(8 - Len(<< >>), "0") \o << >>
    <3>1. 8 \in Int /\ << >> \in Letters
      BY EmptyLetters
    <3> QED BY <3>1, AtLeastIs
  <2>2. Copies(8 - Len(<< >>), "0") = zeros
    BY EmptyLetters
  <2>3. HexText(0, TRUE) = Std!AtLeast(8, << >>)
    BY NoDigits DEF HexText
  <2> HIDE DEF zeros
  <2> QED BY <1>1, <2>1, <2>2, <2>3, ConcatEmpty
<1>3. Offset(0) = zeros \o colon
  BY <1>2 DEF Offset
<1> HIDE DEF zeros
<1>4. Offset(0) \in Letters
  BY <1>1, <1>3, Concat
<1>5. 0 * RowLength = 0 /\ 0 \in Nat /\ Len(c) \in Nat /\ 0 <= Len(c) /\ 0 * RowLength + 0 <= Len(c)
      /\ 0 \in 0..RowLength
  <2>1. 0 * RowLength = 0 /\ RowLength \in Nat
    BY PrintedAssumption DEF PrintedAssumption
  <2>2. Len(c) \in Nat
    BY LenProperties DEF Dumped
  <2> QED BY <2>1, <2>2
<1>6. RowsUpTo(c, 0) = << >>
  BY <1>5, RowsFacts
<1>7. Started_(c, 0) = zeros \o colon
  BY <1>3, <1>4, <1>5, <1>6, ConcatEmpty DEF Started_
<1>8. BytesOf(c, 0, 0) = << >>
  <2>1. [k \in 1..0 |-> ByteText(c[0 * RowLength + k])] = << >>
    OBVIOUS
  <2>2. BytesOf(c, 0, 0) = FlattenSeq(<< >>)
    BY <2>1, Zenon DEF BytesOf
  <2>3. << >> \in Seq(Letters)
    OBVIOUS
  <2> QED BY <2>2, <2>3, EmptyLetters, FlattenAppend
<1>9. Bytes_(c, 0, 0) = zeros \o colon
  BY <1>3, <1>4, <1>7, <1>8, ConcatEmpty DEF Bytes_
<1>10. c = << >> => Bytes_(c, 0, 0) \o << "LF" >> = Dump(c)
  <2> SUFFICES ASSUME c = << >> PROVE Bytes_(c, 0, 0) \o << "LF" >> = Dump(c)
    OBVIOUS
  <2>1. Dump(c) = zeros \o << ":", " ", "LF" >>
    BY DEF Dump, zeros
  <2>2. << ":", " ", "LF" >> = colon \o << "LF" >>
    <3> DEFINE s == << ":" >>
               u == << " " >>
               v == << "LF" >>
    <3>1. << ":", " ", "LF" >> = s \o << " ", "LF" >> /\ << " ", "LF" >> = u \o v /\ colon = s \o u
      BY Triple, Pair
    <3>2. s \in Letters /\ u \in Letters /\ v \in Letters
      BY One DEF Texts
    <3> HIDE DEF s, u, v
    <3>3. (s \o u) \o v = s \o (u \o v)
      BY <3>2, Assoc
    <3> QED BY <3>1, <3>3, Zenon DEF v
  <2> HIDE DEF colon
  <2>3. (zeros \o colon) \o << "LF" >> = zeros \o (colon \o << "LF" >>)
    BY <1>1, Assoc
  <2> QED BY <1>9, <2>1, <2>2, <2>3, Zenon
<1> QED BY <1>9, <1>10 DEF zeros

-----------------------------------------------------------------------------
Place(c, r, t) == /\ Dumped(c) /\ r \in Nat /\ t \in 0..RowLength
                  /\ r * RowLength + t <= Len(c)

LEMMA PlaceFacts ==
  ASSUME NEW c, NEW r, NEW t, Place(c, r, t)
  PROVE  /\ r * RowLength \in Nat /\ t \in Nat /\ RowLength \in Nat \ {0} /\ Len(c) \in Nat /\ t <= RowLength
         /\ r * RowLength <= Len(c)
<1>1. r \in Nat /\ Dumped(c) /\ t \in 0..RowLength
  BY DEF Place
<1> DEFINE m == r * RowLength
<1>2. m \in Nat /\ RowLength \in Nat \ {0}
  BY <1>1, RowStart
<1>3. Len(c) \in Nat
  BY <1>1, LenProperties DEF Dumped
<1>4. m + t <= Len(c)
  BY DEF Place
<1> HIDE DEF m
<1>5. t \in Nat /\ t <= RowLength
  BY <1>1, <1>2
<1>6. m <= Len(c)
  BY <1>2, <1>3, <1>4, <1>5
<1> QED BY <1>2, <1>3, <1>5, <1>6 DEF m

LEMMA LineLetters ==
  ASSUME Powers, Alphabet, Texts, NEW c, NEW r, NEW t, Place(c, r, t)
  PROVE  /\ Started_(c, r) \in Letters /\ Bytes_(c, r, t) \in Letters
         /\ Started_(c, r) = Bytes_(c, r, 0)
<1>1. Dumped(c) /\ r \in Nat /\ t \in 0..RowLength /\ r * RowLength + t <= Len(c) /\ r * RowLength <= Len(c)
  BY PlaceFacts DEF Place
<1>2. RowsUpTo(c, r) \in Letters
  BY <1>1, RowsFacts
<1>3. Offset(r * RowLength) \in Letters /\ BytesOf(c, r, t) \in Letters
  BY <1>1, RowLetters
<1>4. Started_(c, r) \in Letters
  BY <1>2, <1>3, Concat DEF Started_
<1>5. Bytes_(c, r, t) \in Letters
  BY <1>3, <1>4, Concat DEF Bytes_
<1>6. BytesOf(c, r, 0) = << >>
  <2>1. [k \in 1..0 |-> ByteText(c[r * RowLength + k])] = << >>
    OBVIOUS
  <2>2. BytesOf(c, r, 0) = FlattenSeq(<< >>)
    BY <2>1, Zenon DEF BytesOf
  <2>3. << >> \in Seq(Letters)
    OBVIOUS
  <2> QED BY <2>2, <2>3, EmptyLetters, FlattenAppend
<1>7. Started_(c, r) = Bytes_(c, r, 0)
  BY <1>4, <1>6, ConcatEmpty DEF Bytes_
<1> QED BY <1>4, <1>5, <1>7

LEMMA NextByte ==
  ASSUME Powers, Alphabet, Texts, NEW c, NEW r, NEW t, Place(c, r, t), t < RowLength, r * RowLength + t < Len(c)
  PROVE  /\ Bytes_(c, r, t) \o ByteText(c[r * RowLength + t + 1]) = Bytes_(c, r, t + 1)
         /\ Place(c, r, t + 1) /\ c[r * RowLength + t + 1] \in DOMAIN Code
<1>1. Dumped(c) /\ r \in Nat /\ t \in 0..RowLength /\ r * RowLength + t <= Len(c)
  BY DEF Place
<1>2. r * RowLength \in Nat /\ t \in Nat /\ RowLength \in Nat /\ Len(c) \in Nat
  BY PlaceFacts
<1> DEFINE m == r * RowLength
           x == c[m + t + 1]
<1>3. t + 1 \in 0..RowLength /\ t + 1 \in 1..(t + 1)
  BY <1>2
<1>4. m + (t + 1) <= Len(c) /\ m + (t + 1) = m + t + 1
  <2>1. m \in Nat /\ m + t < Len(c)
    BY <1>2
  <2> HIDE DEF m
  <2> QED BY <1>2, <2>1
<1>5. Place(c, r, t + 1)
  BY <1>1, <1>3, <1>4 DEF Place
<1>6. \A k \in 1..(t + 1) : c[r * RowLength + k] \in DOMAIN Code
  BY <1>1, <1>3, <1>4, Places
<1>7. c[m + (t + 1)] \in DOMAIN Code
  BY <1>3, <1>6
<1>8. x \in DOMAIN Code
  BY <1>4, <1>7
<1>9. BytesOf(c, r, t + 1) = BytesOf(c, r, t) \o ByteText(x)
  BY <1>1, BytesNext
<1> DEFINE s == Started_(c, r)
           u == BytesOf(c, r, t)
           v == ByteText(x)
<1>10. s \in Letters /\ u \in Letters /\ v \in Letters
  <2>1. s \in Letters
    BY LineLetters
  <2>2. u \in Letters
    BY <1>1, BytesNext
  <2>3. v \in Letters
    BY <1>8, ByteFacts
  <2> QED BY <2>1, <2>2, <2>3
<1>11. Bytes_(c, r, t) = s \o u /\ Bytes_(c, r, t + 1) = s \o BytesOf(c, r, t + 1)
  BY DEF Bytes_
<1> HIDE DEF s, u, v, x
<1>12. (s \o u) \o v = s \o (u \o v)
  BY <1>10, Assoc
<1>13. Bytes_(c, r, t) \o v = Bytes_(c, r, t + 1)
  BY <1>9, <1>11, <1>12, Zenon DEF u, v
<1> QED BY <1>5, <1>8, <1>13 DEF v, x

LEMMA NextBlanks ==
  ASSUME Powers, Alphabet, Texts, NEW c, NEW r, NEW t, Place(c, r, t), NEW j \in Nat
  PROVE  /\ Blanks_(c, r, t, j) \in Letters
         /\ Blanks_(c, r, t, 0) = Bytes_(c, r, t)
         /\ Blanks_(c, r, t, j) \o Copies(5, " ") = Blanks_(c, r, t, j + 1)
<1> DEFINE s == Bytes_(c, r, t)
           u == Copies(5 * j, " ")
           v == Copies(5, " ")
<1>1. " " \in Letter
  BY DEF Texts
<1>2. 5 * j \in Nat /\ 5 \in Nat /\ 5 * (j + 1) = 5 * j + 5 /\ 5 * j \in Int /\ 5 \in Int /\ 5 * 0 = 0 /\ 0 \in Int
  OBVIOUS
<1>3. s \in Letters
  BY LineLetters
<1>4. u \in Letters /\ v \in Letters
  <2>1. u \in Letters
    BY <1>1, <1>2, CopiesLetters
  <2>2. v \in Letters
    BY <1>1, <1>2, CopiesLetters
  <2> QED BY <2>1, <2>2
<1>5. Copies(5 * (j + 1), " ") = u \o v
  <2> DEFINE m == 5 * j
             n == 5
  <2>1. m \in Nat /\ n \in Nat /\ 5 * (j + 1) = m + n
    BY <1>2
  <2> HIDE DEF m, n
  <2>2. Copies(m + n, " ") = Copies(m, " ") \o Copies(n, " ")
    BY <1>1, <2>1, CopiesNext
  <2> QED BY <2>1, <2>2 DEF m, n
<1>6. Copies(5 * 0, " ") = << >>
  <2>1. 0 <= 0
    OBVIOUS
  <2>2. Copies(0, " ") = << >>
    BY <1>1, <1>2, <2>1, CopiesFacts
  <2> QED BY <1>2, <2>2
<1>7. /\ Blanks_(c, r, t, j) = s \o u /\ Blanks_(c, r, t, j + 1) = s \o Copies(5 * (j + 1), " ")
      /\ Blanks_(c, r, t, 0) = s \o Copies(5 * 0, " ")
  BY Zenon DEF Blanks_
<1> HIDE DEF s, u, v
<1>8. (s \o u) \o v = s \o (u \o v)
  BY <1>3, <1>4, Assoc
<1>9. s \o u \in Letters
  BY <1>3, <1>4, Concat
<1>10. s \o << >> = s
  BY <1>3, ConcatEmpty
<1>11. Blanks_(c, r, t, j) \o v = Blanks_(c, r, t, j + 1)
  BY <1>5, <1>7, <1>8, Zenon
<1>12. Blanks_(c, r, t, 0) = s
  BY <1>6, <1>7, <1>10, Zenon
<1> QED BY <1>7, <1>9, <1>11, <1>12 DEF s, v

LEMMA NextChar ==
  ASSUME Powers, Alphabet, Texts, NEW c, NEW r, NEW t, Place(c, r, t), NEW n \in Nat, n < t
  PROVE  Chars_(c, r, t, n) \o << Shown(c[r * RowLength + n + 1]) >> = Chars_(c, r, t, n + 1)
<1>1. Dumped(c) /\ r \in Nat /\ t \in 0..RowLength /\ r * RowLength + t <= Len(c)
  BY DEF Place
<1> DEFINE s == Blanks_(c, r, t, RowLength - t) \o << "|", " " >>
           u == CharsOf(c, r, n)
           x == Shown(c[r * RowLength + n + 1])
           v == << x >>
<1>2. RowLength - t \in Nat /\ n \in 0..RowLength /\ n \in Nat /\ t \in Nat /\ RowLength \in Nat
  <2>1. t \in Nat /\ RowLength \in Nat /\ t <= RowLength
    BY PlaceFacts
  <2> QED BY <2>1
<1>3. s \in Letters
  <2>1. Blanks_(c, r, t, RowLength - t) \in Letters
    BY <1>2, NextBlanks
  <2>2. << "|", " " >> \in Letters
    BY <1>1, RowLetters
  <2> QED BY <2>1, <2>2, Concat
<1>4. CharsOf(c, r, n + 1) = u \o v
  BY <1>1, CharsNext
<1>5. u \in Letters
  <2>1. r * RowLength + n <= Len(c)
    <3> DEFINE m == r * RowLength
    <3>1. m \in Nat /\ Len(c) \in Nat /\ m + t <= Len(c)
      BY <1>1, PlaceFacts
    <3> HIDE DEF m
    <3>2. m + n <= Len(c)
      BY <1>2, <3>1
    <3> QED BY <3>2 DEF m
  <2> QED BY <1>1, <1>2, <2>1, CharsNext
<1>6. v \in Letters
  <2>1. \A k \in 1..t : c[r * RowLength + k] \in DOMAIN Code
    BY <1>1, Places
  <2> DEFINE m == r * RowLength
  <2>2. n + 1 \in 1..t
    BY <1>2
  <2>3. c[m + (n + 1)] \in DOMAIN Code
    BY <2>1, <2>2
  <2>4. m + (n + 1) = m + n + 1
    <3>1. m \in Nat
      BY PlaceFacts
    <3> HIDE DEF m
    <3> QED BY <3>1
  <2>5. c[m + n + 1] \in DOMAIN Code
    BY <2>3, <2>4, Zenon
  <2>6. x \in Letter
    BY <2>5, ByteFacts
  <2> HIDE DEF x
  <2> QED BY <2>6, One
<1>7. Chars_(c, r, t, n) = s \o u /\ Chars_(c, r, t, n + 1) = s \o CharsOf(c, r, n + 1)
  BY Zenon DEF Chars_
<1> HIDE DEF s, u, v
<1>8. (s \o u) \o v = s \o (u \o v)
  BY <1>3, <1>5, <1>6, Assoc
<1>9. Chars_(c, r, t, n) \o v = Chars_(c, r, t, n + 1)
  BY <1>4, <1>7, <1>8, Zenon
<1> QED BY <1>9 DEF v

(* The bar before the text of a row that is full, and of a last one. *)
LEMMA FirstChar ==
  ASSUME Powers, Alphabet, Texts, NEW c, NEW r, NEW t, Place(c, r, t)
  PROVE  /\ Blanks_(c, r, t, RowLength - t) \o << "|", " " >> = Chars_(c, r, t, 0)
         /\ t = RowLength => Bytes_(c, r, t) \o << "|", " " >> = Chars_(c, r, t, 0)
<1>1. Dumped(c) /\ r \in Nat /\ t \in 0..RowLength /\ r * RowLength + t <= Len(c)
  BY DEF Place
<1> DEFINE s == Blanks_(c, r, t, RowLength - t) \o << "|", " " >>
<1>2. RowLength - t \in Nat /\ (t = RowLength => RowLength - t = 0) /\ 0 \in Nat
  <2>1. t \in Nat /\ RowLength \in Nat /\ t <= RowLength
    BY PlaceFacts
  <2> QED BY <2>1
<1>3. s \in Letters
  <2>1. Blanks_(c, r, t, RowLength - t) \in Letters
    BY <1>2, NextBlanks
  <2>2. << "|", " " >> \in Letters
    BY <1>1, RowLetters
  <2> QED BY <2>1, <2>2, Concat
<1>4. CharsOf(c, r, 0) = << >>
  BY <1>1, CharsNext
<1>5. Chars_(c, r, t, 0) = s \o << >>
  BY <1>4, Zenon DEF Chars_
<1>6. Chars_(c, r, t, 0) = s
  <2> HIDE DEF s
  <2> QED BY <1>3, <1>5, ConcatEmpty
<1>7. t = RowLength => Blanks_(c, r, t, RowLength - t) = Bytes_(c, r, t)
  <2>1. Blanks_(c, r, t, 0) = Bytes_(c, r, t)
    BY <1>2, NextBlanks
  <2> QED BY <1>2, <2>1
<1> QED BY <1>6, <1>7

(* After a full row, the next one begins. *)
LEMMA NextRow ==
  ASSUME Powers, Alphabet, Texts, NEW c, NEW r, Place(c, r, RowLength)
  PROVE  /\ Chars_(c, r, RowLength, RowLength) \o (<< "LF" >> \o (HexText((r + 1) * RowLength, TRUE) \o << ":", " " >>))
              = Bytes_(c, r + 1, 0)
         /\ Place(c, r + 1, 0) /\ (r + 1) * RowLength \in 0..(2^IntBits - 1)
<1> DEFINE n == RowLength
           m == r * n
           p == (r + 1) * n
           q == 2^IntBits
           l == Len(c)
<1>1. Dumped(c) /\ r \in Nat /\ m + n <= l /\ r + 1 \in Nat
  BY DEF Place
<1>2. m \in Nat /\ n \in Nat \ {0} /\ p = m + n
  BY <1>1, RowStart
<1>3. l \in Nat /\ l < q /\ q \in Nat
  BY <1>1, LenProperties, IntRange DEF Dumped
<1>4. p + 0 <= l /\ p \in 0..(q - 1) /\ p <= l /\ 0 \in 0..n /\ n \in 1..n
  <2>1. m + n <= l
    BY <1>1
  <2> HIDE DEF m, n, p, q, l
  <2> QED BY <1>2, <1>3, <2>1
<1>5. Place(c, r + 1, 0)
  BY <1>1, <1>4 DEF Place
<1>6. n = LengthOf(c, r)
  <2>1. r < r + 1
    BY <1>1
  <2> QED BY <1>1, <1>4, <2>1, FullLength
<1> DEFINE s == Chars_(c, r, n, n)
           u == << "LF" >>
           o == Offset(p)
<1>7. s \o u = RowsUpTo(c, r + 1)
  BY <1>1, <1>4, <1>6, RowEnds
<1>8. s \in Letters /\ u \in Letters /\ o \in Letters
  <2>1. u \in Letters /\ CharsOf(c, r, n) \in Letters /\ << "|", " " >> \in Letters
    <3>1. n \in 0..n
      BY <1>2
    <3> QED BY <1>1, <3>1, RowLetters
  <2>2. Blanks_(c, r, n, n - n) \in Letters
    <3>1. n - n \in Nat
      BY <1>2
    <3> DEFINE j == n - n
    <3> HIDE DEF j
    <3>2. Blanks_(c, r, n, j) \in Letters
      BY <3>1, NextBlanks DEF j
    <3> QED BY <3>2 DEF j
  <2> DEFINE a == Blanks_(c, r, n, n - n)
             b == << "|", " " >>
             d == CharsOf(c, r, n)
  <2>3. s = (a \o b) \o d
    BY Zenon DEF Chars_
  <2>4. a \in Letters /\ b \in Letters /\ d \in Letters
    BY <2>1, <2>2
  <2> HIDE DEF a, b, d
  <2>5. a \o b \in Letters
    BY <2>4, Concat
  <2>6. (a \o b) \o d \in Letters
    BY <2>4, <2>5, Concat
  <2>7. o \in Letters
    BY <1>4, OffsetLetters
  <2> QED BY <2>1, <2>3, <2>6, <2>7
<1>9. Bytes_(c, r + 1, 0) = RowsUpTo(c, r + 1) \o o
  <2>1. Started_(c, r + 1) = Bytes_(c, r + 1, 0)
    BY <1>5, LineLetters
  <2> QED BY <2>1 DEF Started_
<1>10. o = HexText(p, TRUE) \o << ":", " " >>
  BY DEF Offset
<1> HIDE DEF s, u, o
<1>11. (s \o u) \o o = s \o (u \o o)
  BY <1>8, Assoc
<1>12. s \o (u \o (HexText(p, TRUE) \o << ":", " " >>)) = Bytes_(c, r + 1, 0)
  BY <1>7, <1>9, <1>10, <1>11, Zenon
<1> QED BY <1>4, <1>5, <1>12 DEF s, u

(* The last row ends the dump. *)
LEMMA DumpEnds ==
  ASSUME Powers, Alphabet, Texts, NEW c, NEW r, NEW t, Place(c, r, t), t # 0, r * RowLength + t = Len(c)
  PROVE  Chars_(c, r, t, t) \o << "LF" >> = Dump(c)
<1>1. Dumped(c) /\ r \in Nat /\ t \in 0..RowLength /\ r * RowLength + t <= Len(c) /\ Len(c) = r * RowLength + t
  BY DEF Place
<1>2. t \in 1..RowLength
  BY <1>1
<1>3. t = LengthOf(c, r)
  BY <1>1, LastLength
<1>4. Chars_(c, r, t, t) \o << "LF" >> = RowsUpTo(c, r + 1)
  BY <1>1, <1>2, <1>3, RowEnds
<1>5. Dump(c) = RowsUpTo(c, r + 1)
  BY <1>1, <1>2, DumpIs
<1> QED BY <1>4, <1>5

-----------------------------------------------------------------------------
(* What hexdump has printed of a file c when it is at pc.                  *)
InRow(c, pc, i, j, t, T, r) ==
    \/ pc = "loop" /\ Place(c, r, t) /\ (t = 0 => r = 0) /\ i = r * RowLength + t /\ T = Bytes_(c, r, t)
    \/ /\ pc = "rowText" /\ Place(c, r, RowLength) /\ t = 0 /\ j \in 0..RowLength
       /\ i = r * RowLength + RowLength /\ i < Len(c) /\ T = Chars_(c, r, RowLength, RowLength - j)
    \/ pc = "byte" /\ Place(c, r, 0) /\ t = 0 /\ i = r * RowLength /\ i < Len(c) /\ T = Bytes_(c, r, 0)
    \/ /\ pc = "pad" /\ Place(c, r, t) /\ t # 0 /\ j \in 0..(RowLength - t)
       /\ i = r * RowLength + t /\ i = Len(c) /\ T = Blanks_(c, r, t, j)
    \/ /\ pc = "lastText" /\ Place(c, r, t) /\ t # 0 /\ j \in 0..t
       /\ i = r * RowLength + t /\ i = Len(c) /\ T = Chars_(c, r, t, t - j)
HexAt(c, pc, i, j, t, T) ==
    /\ Dumped(c)
    /\ \/ pc = "first" /\ i = 0 /\ t = 0 /\ T = << >>
       \/ \E r : InRow(c, pc, i, j, t, T, r)
       \/ pc = "end" /\ T = Dump(c)

LEMMA WithZero == ASSUME NEW n \in Nat PROVE 0 * n + 0 = 0 /\ n - 0 = n
  OBVIOUS

LEMMA Column ==
  ASSUME NEW m \in Nat, NEW w \in Nat, NEW j \in 0..w, j > 0
  PROVE  /\ w - j \in Nat /\ w - j < w /\ w - j + 1 = w - (j - 1) /\ j - 1 \in 0..w /\ w - j + 1 \in 1..w
         /\ (m + w) - j + 1 = m + (w - j) + 1 /\ (m + w) - j + 1 = m + (w - j + 1)
  OBVIOUS

LEMMA ColumnNext == ASSUME NEW w \in Nat, NEW j \in 0..w PROVE w - j + 1 = w - (j - 1)
  OBVIOUS

(* Every step of hexdump leads from what it has printed to what it should. *)
LEMMA ToLoop ==
  ASSUME Powers, Alphabet, Texts, NEW c, NEW i, NEW j, NEW t, NEW T, HexAt(c, "first", i, j, t, T)
  PROVE  HexAt(c, "loop", i, j, t, T \o (Copies(8, "0") \o << ":", " " >>))
<1> DEFINE u == Copies(8, "0") \o << ":", " " >>
<1>1. Dumped(c) /\ i = 0 /\ t = 0 /\ T = << >>
  BY DEF HexAt, InRow
<1>2. u = Bytes_(c, 0, 0)
  BY <1>1, FirstOffset
<1>3. 0 * RowLength = 0 /\ 0 \in 0..RowLength /\ 0 + 0 <= Len(c) /\ 0 \in Nat /\ 0 = 0 + 0
  <2>1. RowLength \in Nat
    BY PrintedAssumption DEF PrintedAssumption
  <2>2. Len(c) \in Nat
    BY <1>1, LenProperties DEF Dumped
  <2> QED BY <2>1, <2>2
<1>4. Place(c, 0, 0)
  BY <1>1, <1>3 DEF Place
<1>5. u \in Letters
  BY <1>2, <1>4, LineLetters
<1> HIDE DEF u
<1>6. T \o u = Bytes_(c, 0, 0)
  BY <1>1, <1>2, <1>5, ConcatEmpty
<1>7. InRow(c, "loop", i, j, t, T \o u, 0)
  BY <1>1, <1>3, <1>4, <1>6, Zenon DEF InRow
<1> QED BY <1>1, <1>7, Zenon DEF HexAt, u

LEMMA ToBar ==
  ASSUME Powers, Alphabet, Texts, NEW c, NEW i, NEW j, NEW t, NEW T, HexAt(c, "loop", i, j, t, T),
         i < Len(c), i > 0, i % RowLength = 0
  PROVE  HexAt(c, "rowText", i, RowLength, 0, T \o << "|", " " >>)
<1>1. Dumped(c)
  BY DEF HexAt
<1>2. PICK r : InRow(c, "loop", i, j, t, T, r)
  BY DEF HexAt
<1>3. Place(c, r, t) /\ (t = 0 => r = 0) /\ i = r * RowLength + t /\ T = Bytes_(c, r, t)
  BY <1>2 DEF InRow
<1>4. t = RowLength
  <2>1. r \in Nat /\ t \in 0..RowLength
    BY <1>3 DEF Place
  <2> QED BY <1>3, <2>1, RowIsFull
<1>5. T \o << "|", " " >> = Chars_(c, r, RowLength, 0)
  BY <1>3, <1>4, FirstChar
<1>6. RowLength \in 0..RowLength /\ RowLength - RowLength = 0
  BY <1>3, PlaceFacts
<1>7. InRow(c, "rowText", i, RowLength, 0, T \o << "|", " " >>, r)
  BY <1>3, <1>4, <1>5, <1>6, Zenon DEF InRow
<1> QED BY <1>1, <1>7, Zenon DEF HexAt

LEMMA ToNextChar ==
  ASSUME Powers, Alphabet, Texts, NEW c, NEW pc \in {"rowText", "lastText"}, NEW i, NEW j, NEW t, NEW T,
         HexAt(c, pc, i, j, t, T), j > 0
  PROVE  /\ HexAt(c, pc, i, j - 1, t, T \o << Shown(c[i - j + 1]) >>)
         /\ c[i - j + 1] \in DOMAIN Code
<1>1. Dumped(c)
  BY DEF HexAt
<1>2. PICK r : InRow(c, pc, i, j, t, T, r)
  BY DEF HexAt
<1>3. PICK w : /\ Place(c, r, w) /\ j \in 0..w /\ i = r * RowLength + w /\ T = Chars_(c, r, w, w - j)
               /\ pc = "rowText" => w = RowLength /\ t = 0 /\ i < Len(c)
               /\ pc = "lastText" => w = t /\ t # 0 /\ i = Len(c)
  <2>1. CASE pc = "rowText"
    <3>1. /\ Place(c, r, RowLength) /\ t = 0 /\ j \in 0..RowLength
          /\ i = r * RowLength + RowLength /\ i < Len(c) /\ T = Chars_(c, r, RowLength, RowLength - j)
      BY <1>2, <2>1 DEF InRow
    <3> QED BY <2>1, <3>1
  <2>2. CASE pc = "lastText"
    <3>1. /\ Place(c, r, t) /\ t # 0 /\ j \in 0..t
          /\ i = r * RowLength + t /\ i = Len(c) /\ T = Chars_(c, r, t, t - j)
      BY <1>2, <2>2 DEF InRow
    <3> QED BY <2>2, <3>1
  <2> QED BY <2>1, <2>2
<1> DEFINE n == w - j
           m == r * RowLength
           x == Shown(c[i - j + 1])
<1>4. m \in Nat /\ w \in Nat
  BY <1>3, PlaceFacts
<1>5. n \in Nat /\ n < w /\ n + 1 = w - (j - 1) /\ j - 1 \in 0..w /\ n + 1 \in 1..w
  <2>1. m \in Nat /\ w \in Nat /\ j \in 0..w /\ j > 0
    BY <1>3, <1>4
  <2>2. n \in Nat /\ n < w
    BY <2>1, Column, Zenon
  <2>3. n + 1 = w - (j - 1)
    BY <2>1, ColumnNext, Zenon
  <2>4. j - 1 \in 0..w /\ n + 1 \in 1..w
    BY <2>1, Column, Zenon
  <2> QED BY <2>2, <2>3, <2>4, Zenon
<1>6. i - j + 1 = m + n + 1 /\ i - j + 1 = m + (n + 1)
  BY <1>3, <1>4, Column, Zenon
<1>7. Chars_(c, r, w, n) \o << Shown(c[m + n + 1]) >> = Chars_(c, r, w, n + 1)
  <2> HIDE DEF n
  <2> QED BY <1>3, <1>5, NextChar
<1>8. T \o << x >> = Chars_(c, r, w, w - (j - 1))
  BY <1>3, <1>5, <1>6, <1>7
<1>9. c[i - j + 1] \in DOMAIN Code
  <2>1. Dumped(c) /\ r \in Nat /\ w \in 0..RowLength /\ r * RowLength + w <= Len(c)
    BY <1>3 DEF Place
  <2>2. \A k \in 1..w : c[m + k] \in DOMAIN Code
    BY <2>1, Places
  <2>3. c[m + (n + 1)] \in DOMAIN Code
    <3> HIDE DEF n, m
    <3> QED BY <1>5, <2>2
  <2> QED BY <1>6, <2>3
<1> HIDE DEF x
<1>10. InRow(c, pc, i, j - 1, t, T \o << x >>, r)
  <2>1. CASE pc = "rowText"
    BY <1>3, <1>5, <1>8, <2>1, Zenon DEF InRow
  <2>2. CASE pc = "lastText"
    BY <1>3, <1>5, <1>8, <2>2, Zenon DEF InRow
  <2> QED BY <2>1, <2>2
<1>11. HexAt(c, pc, i, j - 1, t, T \o << x >>)
  BY <1>1, <1>10, Zenon DEF HexAt
<1> QED BY <1>9, <1>11 DEF x

LEMMA ToByte ==
  ASSUME Powers, Alphabet, Texts, NEW c, NEW i, NEW j, NEW t, NEW T, HexAt(c, "rowText", i, j, t, T), j = 0
  PROVE  /\ HexAt(c, "byte", i, j, t, T \o (<< "LF" >> \o (HexText(i, TRUE) \o << ":", " " >>)))
         /\ i \in 0..(2^IntBits - 1)
<1>1. Dumped(c)
  BY DEF HexAt
<1>2. PICK r : InRow(c, "rowText", i, j, t, T, r)
  BY DEF HexAt
<1>3. /\ Place(c, r, RowLength) /\ t = 0
      /\ i = r * RowLength + RowLength /\ i < Len(c) /\ T = Chars_(c, r, RowLength, RowLength - j)
  BY <1>2 DEF InRow
<1>4. RowLength - j = RowLength
  <2>1. RowLength \in Nat
    BY <1>3, PlaceFacts
  <2> QED BY <2>1, WithZero, Zenon
<1>5. i = (r + 1) * RowLength
  <2>1. r \in Nat
    BY <1>3 DEF Place
  <2> QED BY <1>3, <2>1, RowStart
<1> DEFINE u == << "LF" >> \o (HexText(i, TRUE) \o << ":", " " >>)
<1>6. T \o u = Bytes_(c, r + 1, 0) /\ Place(c, r + 1, 0) /\ i \in 0..(2^IntBits - 1)
  BY <1>3, <1>4, <1>5, NextRow
<1> HIDE DEF u
<1>7. InRow(c, "byte", i, j, t, T \o u, r + 1)
  BY <1>3, <1>5, <1>6, Zenon DEF InRow
<1>8. HexAt(c, "byte", i, j, t, T \o u)
  BY <1>1, <1>7, Zenon DEF HexAt
<1> QED BY <1>6, <1>8 DEF u

LEMMA ToNextByte ==
  ASSUME Powers, Alphabet, Texts, NEW c, NEW pc, NEW i, NEW j, NEW t, NEW T, HexAt(c, pc, i, j, t, T),
         pc = "byte" \/ (pc = "loop" /\ i < Len(c) /\ ~(i > 0 /\ i % RowLength = 0))
  PROVE  /\ HexAt(c, "loop", i + 1, j, t + 1, T \o ByteText(c[i + 1]))
         /\ c[i + 1] \in DOMAIN Code
<1>1. Dumped(c)
  BY DEF HexAt
<1>2. PICK r : InRow(c, pc, i, j, t, T, r)
  BY DEF HexAt
<1>3. Place(c, r, t) /\ i = r * RowLength + t /\ T = Bytes_(c, r, t) /\ i < Len(c) /\ t < RowLength
  <2>1. CASE pc = "byte"
    <3>1. Place(c, r, 0) /\ t = 0 /\ i = r * RowLength /\ i < Len(c) /\ T = Bytes_(c, r, 0)
      BY <1>2, <2>1 DEF InRow
    <3>2. r * RowLength \in Nat /\ RowLength \in Nat \ {0}
      BY <3>1, PlaceFacts
    <3>3. i = i + 0 /\ 0 < RowLength
      BY <3>1, <3>2
    <3> QED BY <3>1, <3>3
  <2>2. CASE pc = "loop"
    <3>1. Place(c, r, t) /\ (t = 0 => r = 0) /\ i = r * RowLength + t /\ T = Bytes_(c, r, t)
      BY <1>2, <2>2 DEF InRow
    <3>2. r \in Nat /\ t \in 0..RowLength
      BY <3>1 DEF Place
    <3>3. t # RowLength
      BY <2>2, <3>1, <3>2, RowIsFull
    <3>4. t \in Nat /\ RowLength \in Nat /\ t <= RowLength
      BY <3>1, PlaceFacts
    <3>5. t < RowLength
      BY <3>3, <3>4
    <3> QED BY <2>2, <3>1, <3>5
  <2> QED BY <2>1, <2>2
<1> DEFINE m == r * RowLength
<1>4. /\ Bytes_(c, r, t) \o ByteText(c[m + t + 1]) = Bytes_(c, r, t + 1)
      /\ Place(c, r, t + 1) /\ c[m + t + 1] \in DOMAIN Code
  BY <1>3, NextByte
<1>5. i = m + t /\ i + 1 = m + (t + 1) /\ t + 1 # 0
  <2>1. m \in Nat /\ t \in Nat /\ i = m + t
    BY <1>3, PlaceFacts
  <2> HIDE DEF m
  <2> QED BY <2>1
<1>6. T \o ByteText(c[i + 1]) = Bytes_(c, r, t + 1) /\ c[i + 1] \in DOMAIN Code
  <2> HIDE DEF m
  <2> QED BY <1>3, <1>4, <1>5, Zenon
<1>7. InRow(c, "loop", i + 1, j, t + 1, T \o ByteText(c[i + 1]), r)
  BY <1>4, <1>5, <1>6, Zenon DEF InRow
<1> QED BY <1>1, <1>6, <1>7, Zenon DEF HexAt

LEMMA ToBlanks ==
  ASSUME Powers, Alphabet, Texts, NEW c, NEW i, NEW j, NEW t, NEW T, HexAt(c, "loop", i, j, t, T),
         i = Len(c), t # 0
  PROVE  HexAt(c, "pad", i, 0, t, T)
<1>1. Dumped(c)
  BY DEF HexAt
<1>2. PICK r : InRow(c, "loop", i, j, t, T, r)
  BY DEF HexAt
<1>3. Place(c, r, t) /\ i = r * RowLength + t /\ T = Bytes_(c, r, t)
  BY <1>2 DEF InRow
<1>4. 0 \in Nat /\ 0 \in 0..(RowLength - t)
  <2>1. t \in Nat /\ RowLength \in Nat /\ t <= RowLength
    BY <1>3, PlaceFacts
  <2> QED BY <2>1
<1>5. T = Blanks_(c, r, t, 0)
  BY <1>3, <1>4, NextBlanks
<1>6. InRow(c, "pad", i, 0, t, T, r)
  BY <1>3, <1>4, <1>5, Zenon DEF InRow
<1> QED BY <1>1, <1>6, Zenon DEF HexAt

LEMMA ToNextBlanks ==
  ASSUME Powers, Alphabet, Texts, NEW c, NEW i, NEW j, NEW t, NEW T, HexAt(c, "pad", i, j, t, T)
  PROVE  /\ j < RowLength - t => HexAt(c, "pad", i, j + 1, t, T \o Copies(5, " "))
         /\ j = RowLength - t => HexAt(c, "lastText", i, t, t, T \o << "|", " " >>)
<1>1. Dumped(c)
  BY DEF HexAt
<1>2. PICK r : InRow(c, "pad", i, j, t, T, r)
  BY DEF HexAt
<1>3. /\ Place(c, r, t) /\ t # 0 /\ j \in 0..(RowLength - t)
      /\ i = r * RowLength + t /\ i = Len(c) /\ T = Blanks_(c, r, t, j)
  BY <1>2 DEF InRow
<1>4. t \in Nat /\ RowLength \in Nat /\ t <= RowLength /\ j \in Nat
  BY <1>3, PlaceFacts
<1>5. ASSUME j < RowLength - t PROVE HexAt(c, "pad", i, j + 1, t, T \o Copies(5, " "))
  <2>1. j + 1 \in 0..(RowLength - t)
    BY <1>3, <1>4, <1>5
  <2>2. T \o Copies(5, " ") = Blanks_(c, r, t, j + 1)
    BY <1>3, <1>4, NextBlanks
  <2>3. InRow(c, "pad", i, j + 1, t, T \o Copies(5, " "), r)
    BY <1>3, <2>1, <2>2, Zenon DEF InRow
  <2> QED BY <1>1, <2>3, Zenon DEF HexAt
<1>6. ASSUME j = RowLength - t PROVE HexAt(c, "lastText", i, t, t, T \o << "|", " " >>)
  <2>1. t \in 0..t /\ t - t = 0
    BY <1>4
  <2>2. T \o << "|", " " >> = Chars_(c, r, t, 0)
    BY <1>3, <1>6, FirstChar
  <2>3. InRow(c, "lastText", i, t, t, T \o << "|", " " >>, r)
    BY <1>3, <2>1, <2>2, Zenon DEF InRow
  <2> QED BY <1>1, <2>3, Zenon DEF HexAt
<1> QED BY <1>5, <1>6

LEMMA ToEnd ==
  ASSUME Powers, Alphabet, Texts, NEW c, NEW pc, NEW i, NEW j, NEW t, NEW T, HexAt(c, pc, i, j, t, T),
         (pc = "loop" /\ i = Len(c) /\ t = 0) \/ (pc = "lastText" /\ j = 0)
  PROVE  HexAt(c, "end", i, j, t, T \o << "LF" >>)
<1>1. Dumped(c)
  BY DEF HexAt
<1>2. PICK r : InRow(c, pc, i, j, t, T, r)
  BY DEF HexAt
<1>3. CASE pc = "loop"
  <2>1. Place(c, r, 0) /\ r = 0 /\ i = r * RowLength + 0 /\ T = Bytes_(c, r, 0)
    BY <1>2, <1>3 DEF InRow
  <2>2. i = 0
    <3>1. RowLength \in Nat
      BY <2>1, PlaceFacts
    <3>2. 0 * RowLength + 0 = 0
      BY <3>1, WithZero, Zenon
    <3> QED BY <2>1, <3>2, Zenon
  <2>3. c = << >>
    <3>1. c \in Seq(DOMAIN Code) /\ Len(c) = 0
      BY <1>1, <1>3, <2>2 DEF Dumped
    <3> QED BY <3>1, EmptySeq
  <2>4. T \o << "LF" >> = Dump(c)
    BY <1>1, <2>1, <2>3, FirstOffset
  <2> QED BY <1>1, <2>4, Zenon DEF HexAt
<1>4. CASE pc = "lastText"
  <2>1. /\ Place(c, r, t) /\ t # 0 /\ i = r * RowLength + t /\ i = Len(c) /\ T = Chars_(c, r, t, t - j) /\ j = 0
    BY <1>2, <1>4 DEF InRow
  <2>2. t - j = t
    <3>1. t \in Nat
      BY <2>1, PlaceFacts
    <3>2. j = 0
      BY <2>1
    <3> QED BY <3>1, <3>2, WithZero, Zenon
  <2>3. T \o << "LF" >> = Dump(c)
    BY <2>1, <2>2, DumpEnds
  <2> QED BY <1>1, <2>3, Zenon DEF HexAt
<1> QED BY <1>3, <1>4

-----------------------------------------------------------------------------
(* A program and what it has printed.                                      *)
Prog(name, path, pc, buf, i, j, t) ==
    [name |-> name, path |-> path, pc |-> pc, buf |-> buf, i |-> i, j |-> j, tmp_cnt |-> t]
AProgram(p) == p = Prog(p.name, p.path, p.pc, p.buf, p.i, p.j, p.tmp_cnt)

Undisturbed(name, path) == name = "ls" \/ path \notin ToSet(argv) \/ Unedited(path)
Loaded(p) == p.path \in ToSet(argv) /\ p.buf = file[p.path]
Listed(n) == FlattenSeq([k \in 1..n |-> << argv[k], " " >>])

(* What an undisturbed program has printed. *)
Sofar(p, T) ==
    \/ p.pc = "start" /\ T = << >> /\ p.i = 0 /\ p.tmp_cnt = 0
    \/ p.name = "ls" /\ p.pc = "list" /\ p.i \in 0..Len(argv) /\ T = Listed(p.i)
    \/ p.name = "ls" /\ p.pc = "end" /\ T = ListText
    \/ p.name # "ls" /\ p.pc = "end" /\ p.path = NULL /\ T = UsageText
    \/ p.name # "ls" /\ p.pc = "end" /\ p.path \in Names \ ToSet(argv) /\ T = MissingText(p.path)
    \/ /\ p.name = "cat" /\ Loaded(p)
       /\ \/ p.pc = "show" /\ T = << >>
          \/ p.pc = "end" /\ \E tail \in Tails : T = CatText(p.buf, tail)
    \/ p.name = "hexdump" /\ Loaded(p) /\ HexAt(p.buf, p.pc, p.i, p.j, p.tmp_cnt, T)

(* The invariant: what was printed, and after a call what that call is     *)
(* still going to print, is as much of the program's text as belongs to    *)
(* where the program is.  A program whose file changed while the image was *)
(* built may print anything.                                               *)
ShowInv ==
    /\ Image
    /\ program # NULL =>
          /\ stage = "booted" /\ AProgram(program)
          /\ program.name \in {"cat", "ls", "hexdump"} /\ program.path \in Names \cup {NULL}
          /\ Undisturbed(program.name, program.path) =>
                IF Ready THEN Sofar(program, printed)
                ELSE \E text : Pending(text) /\ Sofar(program, printed \o text)

LEMMA ProgIs ==
  ASSUME NEW p, NEW name, NEW path, NEW pc, NEW buf, NEW i, NEW j, NEW t, p = Prog(name, path, pc, buf, i, j, t)
  PROVE  /\ p.name = name /\ p.path = path /\ p.pc = pc /\ p.buf = buf /\ p.i = i /\ p.j = j /\ p.tmp_cnt = t
         /\ AProgram(p)
<1>1. p.name = name /\ p.path = path /\ p.pc = pc /\ p.buf = buf /\ p.i = i /\ p.j = j /\ p.tmp_cnt = t
  BY DEF Prog
<1> QED BY <1>1 DEF AProgram

(* Its changes. *)
SetJ(p, x) == [p EXCEPT !.j = x]
SetI(p, x) == [p EXCEPT !.i = x]
SetPc(p, x) == [p EXCEPT !.pc = x]
SetBufPc(p, y, x) == [p EXCEPT !.buf = y, !.pc = x]
SetJPc(p, y, x) == [p EXCEPT !.j = y, !.pc = x]
SetCountJPc(p, y, z, x) == [p EXCEPT !.tmp_cnt = y, !.j = z, !.pc = x]
SetCountIPc(p, y, z, x) == [p EXCEPT !.tmp_cnt = y, !.i = z, !.pc = x]

(* A program with one or more of its fields changed. *)
LEMMA ToPc ==
  ASSUME NEW name, NEW path, NEW pc, NEW buf, NEW i, NEW j, NEW t,
         NEW p, p = Prog(name, path, pc, buf, i, j, t), NEW x
  PROVE  SetPc(p, x) = Prog(name, path, x, buf, i, j, t)
BY DEF Prog, SetPc

LEMMA ToI ==
  ASSUME NEW name, NEW path, NEW pc, NEW buf, NEW i, NEW j, NEW t,
         NEW p, p = Prog(name, path, pc, buf, i, j, t), NEW x
  PROVE  SetI(p, x) = Prog(name, path, pc, buf, x, j, t)
BY DEF Prog, SetI

LEMMA ToJ ==
  ASSUME NEW name, NEW path, NEW pc, NEW buf, NEW i, NEW j, NEW t,
         NEW p, p = Prog(name, path, pc, buf, i, j, t), NEW x
  PROVE  SetJ(p, x) = Prog(name, path, pc, buf, i, x, t)
BY DEF Prog, SetJ

LEMMA ToBufPc ==
  ASSUME NEW name, NEW path, NEW pc, NEW buf, NEW i, NEW j, NEW t,
         NEW p, p = Prog(name, path, pc, buf, i, j, t), NEW x, NEW y
  PROVE  SetBufPc(p, y, x) = Prog(name, path, x, y, i, j, t)
<1> DEFINE q1 == [p EXCEPT !.buf = y]
<1>1. SetBufPc(p, y, x) = [q1 EXCEPT !.pc = x]
  BY DEF Prog, SetBufPc
<1>2. q1 = Prog(name, path, pc, y, i, j, t)
  BY DEF Prog
<1> HIDE DEF q1
<1>3. [q1 EXCEPT !.pc = x] = Prog(name, path, x, y, i, j, t)
  BY <1>2 DEF Prog
<1> QED BY <1>1, <1>3, Zenon

LEMMA ToJPc ==
  ASSUME NEW name, NEW path, NEW pc, NEW buf, NEW i, NEW j, NEW t,
         NEW p, p = Prog(name, path, pc, buf, i, j, t), NEW x, NEW y
  PROVE  SetJPc(p, y, x) = Prog(name, path, x, buf, i, y, t)
<1> DEFINE q1 == [p EXCEPT !.j = y]
<1>1. SetJPc(p, y, x) = [q1 EXCEPT !.pc = x]
  BY DEF Prog, SetJPc
<1>2. q1 = Prog(name, path, pc, buf, i, y, t)
  BY DEF Prog
<1> HIDE DEF q1
<1>3. [q1 EXCEPT !.pc = x] = Prog(name, path, x, buf, i, y, t)
  BY <1>2 DEF Prog
<1> QED BY <1>1, <1>3, Zenon

LEMMA ToCountJPc ==
  ASSUME NEW name, NEW path, NEW pc, NEW buf, NEW i, NEW j, NEW t,
         NEW p, p = Prog(name, path, pc, buf, i, j, t), NEW x, NEW y, NEW z
  PROVE  SetCountJPc(p, y, z, x) = Prog(name, path, x, buf, i, z, y)
<1> DEFINE q1 == [p EXCEPT !.tmp_cnt = y]
           q2 == [q1 EXCEPT !.j = z]
<1>1. SetCountJPc(p, y, z, x) = [q2 EXCEPT !.pc = x]
  BY DEF Prog, SetCountJPc
<1>2. q1 = Prog(name, path, pc, buf, i, j, y)
  BY DEF Prog
<1> HIDE DEF q1
<1>3. q2 = Prog(name, path, pc, buf, i, z, y)
  BY <1>2 DEF Prog
<1> HIDE DEF q2
<1>4. [q2 EXCEPT !.pc = x] = Prog(name, path, x, buf, i, z, y)
  BY <1>3 DEF Prog
<1> QED BY <1>1, <1>4, Zenon

LEMMA ToCountIPc ==
  ASSUME NEW name, NEW path, NEW pc, NEW buf, NEW i, NEW j, NEW t,
         NEW p, p = Prog(name, path, pc, buf, i, j, t), NEW x, NEW y, NEW z
  PROVE  SetCountIPc(p, y, z, x) = Prog(name, path, x, buf, z, j, y)
<1> DEFINE q1 == [p EXCEPT !.tmp_cnt = y]
           q2 == [q1 EXCEPT !.i = z]
<1>1. SetCountIPc(p, y, z, x) = [q2 EXCEPT !.pc = x]
  BY DEF Prog, SetCountIPc
<1>2. q1 = Prog(name, path, pc, buf, i, j, y)
  BY DEF Prog
<1> HIDE DEF q1
<1>3. q2 = Prog(name, path, pc, buf, z, j, y)
  BY <1>2 DEF Prog
<1> HIDE DEF q2
<1>4. [q2 EXCEPT !.pc = x] = Prog(name, path, x, buf, z, j, y)
  BY <1>3 DEF Prog
<1> QED BY <1>1, <1>4, Zenon

LEMMA UpToNulFacts ==
  ASSUME Texts, NEW s \in Seq(DOMAIN Code)
  PROVE  UpToNul(s) \in Letters /\ Len(UpToNul(s)) <= Len(s)
<1> DEFINE N == Len(s)
           Stops(n) == (\A i \in 1..n : s[i] # "NUL") /\ (n < N => s[n + 1] = "NUL")
           n0 == CHOOSE n \in 0..N : Stops(n)
           T == {n \in 0..N : n < N => s[n + 1] = "NUL"}
<1>1. N \in Nat /\ \A i \in 1..N : s[i] \in DOMAIN Code
  BY LenProperties, ElementOfSeq
<1> HIDE DEF N
<1>2. T \subseteq Nat /\ T # {}
  <2>1. N \in T
    BY <1>1
  <2> QED BY <1>1, <2>1
<1>3. PICK n \in T : \A k \in T : n <= k
  <2> HIDE DEF T
  <2> QED BY <1>2, Least
<1>4. n \in 0..N /\ Stops(n)
  <2>1. n \in 0..N /\ (n < N => s[n + 1] = "NUL")
    OBVIOUS
  <2>2. ASSUME NEW i \in 1..n, s[i] = "NUL" PROVE FALSE
    <3>1. i - 1 \in 0..N /\ (i - 1) + 1 = i /\ ~(n <= i - 1)
      BY <1>1, <2>1
    <3>2. i - 1 \in T
      BY <2>2, <3>1
    <3> HIDE DEF T
    <3> QED BY <1>3, <3>1, <3>2
  <2> QED BY <2>1, <2>2
<1>5. n0 \in 0..N /\ Stops(n0)
  <2> HIDE DEF Stops
  <2> QED BY <1>4
<1>6. UpToNul(s) = SubSeq(s, 1, n0)
  BY Zenon DEF UpToNul, N
<1> HIDE DEF n0, T
<1>7. \A i \in 1..n0 : i \in 1..N /\ s[i] \in Letter
  <2>1. \A i \in 1..n0 : i \in 1..N /\ s[i] # "NUL"
    BY <1>1, <1>5
  <2>2. \A i \in 1..n0 : s[i] \in DOMAIN Code
    BY <1>1, <2>1
  <2> QED BY <2>1, <2>2 DEF Texts
<1>8. n0 \in Nat /\ n0 <= N
  BY <1>1, <1>5
<1> HIDE DEF Stops
<1>9. SubSeq(s, 1, n0) \in Seq(Letter) /\ Len(SubSeq(s, 1, n0)) = IF 1 <= n0 THEN n0 - 1 + 1 ELSE 0
  <2>1. 1 \in Int /\ n0 \in Int /\ \A i \in 1..n0 : s[i] \in Letter
    BY <1>7, <1>8
  <2> QED BY <2>1, SubSeqProperties
<1>10. Len(SubSeq(s, 1, n0)) <= N
  BY <1>1, <1>8, <1>9
<1> QED BY <1>6, <1>9, <1>10 DEF Letters, N

LEMMA SmallTexts ==
  ASSUME Texts
  PROVE  /\ Copies(8, "0") \o << ":", " " >> \in Letters
         /\ Len(Copies(8, "0") \o << ":", " " >>) <= PRINTF_MAX_POSSIBLE_BUFFER_SIZE
         /\ Copies(5, " ") \in Letters /\ Len(Copies(5, " ")) <= PRINTF_MAX_POSSIBLE_BUFFER_SIZE
         /\ << "|", " " >> \in Letters /\ Len(<< "|", " " >>) <= PRINTF_MAX_POSSIBLE_BUFFER_SIZE
         /\ << "LF" >> \in Letters /\ Len(<< "LF" >>) <= PRINTF_MAX_POSSIBLE_BUFFER_SIZE
<1>1. {"0", ":", " ", "|", "LF"} \subseteq Letter
  BY DEF Texts
<1>2. \A a \in Letter, b \in Letter : << a, b >> \in Letters /\ Len(<< a, b >>) = 2
  BY DEF Letters
<1>3. << ":", " " >> \in Letters /\ Len(<< ":", " " >>) = 2 /\ << "|", " " >> \in Letters /\ Len(<< "|", " " >>) = 2
  BY <1>1, <1>2
<1>4. << "LF" >> \in Letters /\ Len(<< "LF" >>) = 1
  BY <1>1, One
<1> DEFINE z == Copies(8, "0")
           b == Copies(5, " ")
           c == << ":", " " >>
<1>5. z \in Letters /\ Len(z) = 8
  <2>1. 8 \in Int /\ (IF 8 < 0 THEN 0 ELSE 8) = 8
    OBVIOUS
  <2>2. "0" \in Letter
    BY <1>1, Zenon
  <2> QED BY <2>1, <2>2, CopiesFacts, Zenon
<1>6. b \in Letters /\ Len(b) = 5
  <2>1. 5 \in Int /\ (IF 5 < 0 THEN 0 ELSE 5) = 5
    OBVIOUS
  <2>2. " " \in Letter
    BY <1>1, Zenon
  <2> QED BY <2>1, <2>2, CopiesFacts, Zenon
<1> HIDE DEF z, b, c
<1>7. z \o c \in Letters /\ Len(z \o c) = Len(z) + Len(c)
  BY <1>3, <1>5, ConcatLetters DEF c
<1>8. Len(z \o c) = 10
  <2>1. Len(z) = 8 /\ Len(c) = 2
    BY <1>3, <1>5, Zenon DEF c
  <2>2. 8 + 2 = 10
    OBVIOUS
  <2> QED BY <1>7, <2>1, <2>2, Zenon
<1>9. /\ 10 <= PRINTF_MAX_POSSIBLE_BUFFER_SIZE /\ 5 <= PRINTF_MAX_POSSIBLE_BUFFER_SIZE
      /\ 2 <= PRINTF_MAX_POSSIBLE_BUFFER_SIZE /\ 1 <= PRINTF_MAX_POSSIBLE_BUFFER_SIZE
  BY MaxRoom
<1>10. Len(z \o c) <= PRINTF_MAX_POSSIBLE_BUFFER_SIZE /\ Len(b) <= PRINTF_MAX_POSSIBLE_BUFFER_SIZE
  BY <1>6, <1>8, <1>9
<1>11. Len(<< "|", " " >>) <= PRINTF_MAX_POSSIBLE_BUFFER_SIZE /\ Len(<< "LF" >>) <= PRINTF_MAX_POSSIBLE_BUFFER_SIZE
  BY <1>3, <1>4, <1>9, Zenon
<1> QED BY <1>3, <1>4, <1>6, <1>7, <1>10, <1>11 DEF z, b, c

-----------------------------------------------------------------------------
LEMMA ImageKept == ASSUME Image, UNCHANGED ramdiskVars PROVE Image'
BY OtherImage

LEMMA SofarKept ==
  ASSUME NEW p, NEW T, UNCHANGED ramdiskVars
  PROVE  Sofar(p, T)' <=> Sofar(p, T)
<1>1. argv' = argv /\ file' = file
  BY DEF ramdiskVars
<1>2. (\A n : Listed(n)' = Listed(n)) /\ ListText' = ListText
  BY <1>1 DEF Listed, ListText
<1>3. Loaded(p)' <=> Loaded(p)
  BY <1>1 DEF Loaded
<1> QED BY <1>1, <1>2, <1>3 DEF Sofar

LEMMA UndisturbedKept ==
  ASSUME NEW name, NEW path, UNCHANGED ramdiskVars
  PROVE  Undisturbed(name, path)' <=> Undisturbed(name, path)
<1>1. argv' = argv /\ edits' = edits
  BY DEF ramdiskVars
<1> QED BY <1>1 DEF Undisturbed, Unedited

(* Where a program is when it is not in a call. *)
Now(name, path, pc, buf, i, j, t, T) ==
    /\ Image /\ stage = "booted" /\ Ready
    /\ program # NULL /\ program = Prog(name, path, pc, buf, i, j, t) /\ printed = T
    /\ name \in {"cat", "ls", "hexdump"} /\ path \in Names \cup {NULL}
    /\ Undisturbed(name, path) => Sofar(Prog(name, path, pc, buf, i, j, t), T)

LEMMA IsNow ==
  ASSUME ShowInv, Ready, program # NULL
  PROVE  \E name, path, pc, buf, i, j, t, T :
             /\ Now(name, path, pc, buf, i, j, t, T)
             /\ program.name = name /\ program.path = path /\ program.pc = pc /\ program.buf = buf
             /\ program.i = i /\ program.j = j /\ program.tmp_cnt = t
<1>1. /\ Image /\ stage = "booted" /\ AProgram(program)
      /\ program.name \in {"cat", "ls", "hexdump"} /\ program.path \in Names \cup {NULL}
      /\ Undisturbed(program.name, program.path) => Sofar(program, printed)
  BY DEF ShowInv
<1>2. PICK p, T : p = program /\ T = printed
  OBVIOUS
<1>3. PICK name, path, pc, buf, i, j, t :
         name = p.name /\ path = p.path /\ pc = p.pc /\ buf = p.buf /\ i = p.i /\ j = p.j /\ t = p.tmp_cnt
  OBVIOUS
<1>4. p = Prog(name, path, pc, buf, i, j, t)
  BY <1>1, <1>2, <1>3, Zenon DEF AProgram
<1>5. Now(name, path, pc, buf, i, j, t, T)
  BY <1>1, <1>2, <1>3, <1>4, Zenon DEF Now
<1> QED BY <1>2, <1>3, <1>5, Zenon

(* A program that goes on, in a call or not. *)
LEMMA GoesOn ==
  ASSUME NEW name, NEW path, NEW pc, NEW buf, NEW i, NEW j, NEW t, NEW T, Now(name, path, pc, buf, i, j, t, T),
         NEW pc2, NEW buf2, NEW i2, NEW j2, NEW t2, program' = Prog(name, path, pc2, buf2, i2, j2, t2),
         UNCHANGED ramdiskVars,
         Undisturbed(name, path) =>
            \/ \E text : Started(text) /\ Sofar(Prog(name, path, pc2, buf2, i2, j2, t2), T \o text)
            \/ UNCHANGED formatVars /\ printed' = printed /\ Sofar(Prog(name, path, pc2, buf2, i2, j2, t2), T)
  PROVE  ShowInv'
<1> DEFINE q == Prog(name, path, pc2, buf2, i2, j2, t2)
<1>1. AProgram(q) /\ q.name = name /\ q.path = path
  BY ProgIs
<1> HIDE DEF q
<1>2. Image' /\ stage' = "booted"
  BY ImageKept DEF Now, ramdiskVars
<1>3. /\ program' = q
      /\ name \in {"cat", "ls", "hexdump"} /\ path \in Names \cup {NULL}
  BY DEF Now, q
<1>4. AProgram(program)' /\ program'.name = name /\ program'.path = path
  BY <1>1, <1>3 DEF AProgram, Prog
<1>5. ASSUME Undisturbed(program.name, program.path)'
      PROVE  IF Ready' THEN Sofar(program, printed)' ELSE \E text : Pending(text)' /\ Sofar(program, printed \o text)'
  <2>1. Undisturbed(name, path)
    <3>1. Undisturbed(name, path)'
      BY <1>4, <1>5 DEF Undisturbed
    <3> QED BY <3>1, UndisturbedKept
  <2>2. \A u : Sofar(q, u) => Sofar(q, u)'
    BY SofarKept
  <2>3. CASE \E text : Started(text) /\ Sofar(q, T \o text)
    <3>1. PICK text : Started(text) /\ Sofar(q, T \o text)
      BY <2>3
    <3>2. Pending(text)' /\ phase' = "text" /\ printed' = T
      BY <3>1 DEF Started, Now
    <3>3. ~Ready'
      BY <3>2 DEF Ready
    <3>4. Sofar(q, T \o text)'
      BY <2>2, <3>1
    <3>5. Sofar(program, printed \o text)'
      BY <1>3, <3>2, <3>4
    <3> QED BY <3>2, <3>3, <3>5
  <2>4. CASE UNCHANGED formatVars /\ printed' = printed /\ Sofar(q, T)
    <3>1. Ready' /\ printed' = T
      BY <2>4 DEF Now, Ready, formatVars
    <3>2. Sofar(q, T)'
      BY <2>2, <2>4
    <3>3. Sofar(program, printed)'
      BY <1>3, <3>1, <3>2
    <3> QED BY <3>1, <3>3
  <2> QED BY <2>1, <2>3, <2>4 DEF q
<1> QED BY <1>2, <1>3, <1>4, <1>5 DEF ShowInv

LEMMA OutputKeeps ==
  ASSUME Powers, Alphabet, Texts, ShowInv, Output
  PROVE  ShowInv'
<1>1. program' = program /\ UNCHANGED ramdiskVars /\ stage' = stage /\ Formatting
  BY DEF Output, ramdiskVars
<1>2. Image'
  BY <1>1, ImageKept DEF ShowInv
<1>3. CASE program = NULL
  BY <1>1, <1>2, <1>3 DEF ShowInv
<1>4. CASE program # NULL
  <2>1. PICK p : p = program
    OBVIOUS
  <2>2. /\ stage = "booted" /\ AProgram(p)
        /\ p.name \in {"cat", "ls", "hexdump"} /\ p.path \in Names \cup {NULL}
        /\ Undisturbed(p.name, p.path) =>
              IF Ready THEN Sofar(p, printed) ELSE \E text : Pending(text) /\ Sofar(p, printed \o text)
    BY <1>4, <2>1 DEF ShowInv
  <2>3. ~Ready
    BY <1>1 DEF Formatting, Ready, Text, Percent, parse_flags, Width, Point, Precision, Length, Integer, Char,
       String, Pointer, WriteBack, Literal, PastTheEnd, vsnprintf_impl, Specifier, At
  <2>4. PICK T : T = printed
    OBVIOUS
  <2>5. ASSUME Undisturbed(p.name, p.path)'
        PROVE  IF Ready' THEN Sofar(p, printed)' ELSE \E text : Pending(text)' /\ Sofar(p, printed \o text)'
    <3>1. Undisturbed(p.name, p.path)
      BY <1>1, <2>5, UndisturbedKept
    <3>2. PICK text : Pending(text) /\ Sofar(p, T \o text)
      BY <2>2, <2>3, <2>4, <3>1
    <3>3. Sofar(p, T \o text)'
      BY <1>1, <3>2, SofarKept
    <3>4. CASE phase' \notin {"idle", "returned"} /\ Pending(text)' /\ printed' = printed
      <4>1. ~Ready' /\ printed' = T
        BY <2>4, <3>4 DEF Ready
      <4>2. Sofar(p, printed \o text)'
        BY <3>3, <4>1
      <4> QED BY <3>4, <4>1, <4>2
    <3>5. CASE phase' = "returned" /\ printed' = printed \o text
      <4>1. Ready' /\ printed' = T \o text
        BY <2>4, <3>5 DEF Ready
      <4>2. Sofar(p, printed)'
        BY <3>3, <4>1
      <4> QED BY <4>1, <4>2
    <3> QED BY <3>2, <3>4, <3>5, OutputStep
  <2>6. program' = p /\ stage' = "booted"
    BY <1>1, <2>1, <2>2
  <2> QED BY <1>2, <2>2, <2>5, <2>6 DEF ShowInv
<1> QED BY <1>3, <1>4

-----------------------------------------------------------------------------
LEMMA InitShows == ASSUME ProgramsInit PROVE ShowInv
BY InitImage DEF ProgramsInit, ProgramInit, ShowInv

LEMMA BuildingKeeps == ASSUME ShowInv, Building, UNCHANGED programVars PROVE ShowInv'
<1>1. stage # "booted" /\ program' = program
  BY DEF Building, AddHeader, OpenImage, WriteFile, CloseImage, Edit, quasfs_init, programVars
<1>2. program' = NULL
  BY <1>1 DEF ShowInv
<1>3. Image'
  BY AddHeaderImage, WriteFileImage, EditImage, OtherImage DEF Building, ShowInv
<1> QED BY <1>2, <1>3 DEF ShowInv

LEMMA ExitKeeps == ASSUME ShowInv, Exit PROVE ShowInv'
<1>1. program' = NULL /\ Image'
  BY ImageKept DEF Exit, ShowInv
<1> QED BY <1>1 DEF ShowInv

LEMMA StutterKeeps == ASSUME ShowInv, UNCHANGED <<formatVars, ramdiskVars, programVars>> PROVE ShowInv'
<1>1. Image' /\ program' = program /\ printed' = printed /\ UNCHANGED ramdiskVars /\ stage' = stage
  BY ImageKept DEF ShowInv, programVars, ramdiskVars
<1>2. CASE program = NULL
  BY <1>1, <1>2 DEF ShowInv
<1>3. CASE program # NULL
  <2>1. PICK p, T : p = program /\ T = printed
    OBVIOUS
  <2>2. /\ stage = "booted" /\ AProgram(p)
        /\ p.name \in {"cat", "ls", "hexdump"} /\ p.path \in Names \cup {NULL}
        /\ Undisturbed(p.name, p.path) =>
              IF Ready THEN Sofar(p, T) ELSE \E text : Pending(text) /\ Sofar(p, T \o text)
    BY <1>3, <2>1 DEF ShowInv
  <2>3. /\ (Ready' <=> Ready) /\ \A text : Pending(text)' <=> Pending(text)
    <3>1. phase' = phase /\ call' = call /\ gadget' = gadget /\ format' = format /\ args' = args /\ spec' = spec
      BY DEF formatVars
    <3>2. Ready' <=> Ready
      BY <3>1 DEF Ready
    <3>3. \A text, U, post : Sending(text, U, post)' <=> Sending(text, U, post)
      BY <3>1 DEF Sending
    <3>4. \A text, U, post : Trailing(text, U, post)' <=> Trailing(text, U, post)
      BY <3>1 DEF Trailing
    <3>5. \A text, U, post, kind, a : Midway(text, U, post, kind, a)' <=> Midway(text, U, post, kind, a)
      BY <3>1 DEF Midway, LeadingIn, Within
    <3> QED BY <3>2, <3>3, <3>4, <3>5 DEF Pending
  <2>4. Undisturbed(p.name, p.path)' <=> Undisturbed(p.name, p.path)
    BY <1>1, UndisturbedKept
  <2>5. \A u : Sofar(p, u)' <=> Sofar(p, u)
    BY <1>1, SofarKept
  <2>6. program' = p /\ printed' = T
    BY <1>1, <2>1
  <2>7. Undisturbed(p.name, p.path)' =>
              IF Ready' THEN Sofar(p, T)' ELSE \E text : Pending(text)' /\ Sofar(p, T \o text)'
    BY <2>2, <2>3, <2>4, <2>5
  <2> QED BY <1>1, <2>2, <2>6, <2>7 DEF ShowInv
<1> QED BY <1>2, <1>3

LEMMA RunKeeps ==
  ASSUME ShowInv, NEW name \in {"cat", "ls", "hexdump"}, NEW path \in Names \cup {NULL}, Run(name, path)
  PROVE  ShowInv'
<1> DEFINE q == Prog(name, path, "start", << >>, 0, 0, 0)
<1>1. /\ program' = q /\ printed' = << >> /\ UNCHANGED ramdiskVars /\ Ready /\ UNCHANGED formatVars
      /\ stage = "booted"
  BY DEF Run, Prog
<1>2. /\ AProgram(q) /\ q.name = name /\ q.path = path /\ q.pc = "start" /\ q.i = 0 /\ q.tmp_cnt = 0
  BY ProgIs
<1> HIDE DEF q
<1>3. Sofar(q, << >>)'
  <2>1. Sofar(q, << >>)
    BY <1>2 DEF Sofar
  <2> QED BY <1>1, <2>1, SofarKept
<1>4. Image' /\ stage' = "booted" /\ Ready'
  BY <1>1, ImageKept DEF ShowInv, ramdiskVars, Ready, formatVars
<1> QED BY <1>1, <1>2, <1>3, <1>4 DEF ShowInv

LEMMA StartedText ==
  ASSUME NEW text, Started(text) PROVE text \in Letters /\ << >> \o text = text
<1>1. text \in Letters
  BY DEF Started, Pending, Sending
<1> QED BY <1>1, ConcatEmpty

-----------------------------------------------------------------------------
(* What file_read returns. *)
LEMMA FileRead ==
  ASSUME Image, stage = "booted", NEW path \in Names
  PROVE  /\ path \notin ToSet(argv) => file_read(path) = Missing
         /\ path \in ToSet(argv) /\ Unedited(path) =>
              file_read(path) = file[path] /\ file[path] \in Contents /\ file[path] # Missing
<1>1. /\ (quasfs_read(path) = Missing) <=> (path \notin ToSet(argv))
      /\ path \in ToSet(argv) /\ Unedited(path) => file_read(path) = file[path]
  BY ImageReadsBack DEF ReadBack
<1>2. path \notin ToSet(argv) => file_read(path) = Missing
  BY <1>1 DEF file_read
<1>3. ASSUME path \in ToSet(argv), Unedited(path) PROVE file[path] \in Contents /\ file[path] # Missing
  <2>1. PICK i \in DOMAIN argv : path = argv[i]
    BY <1>3 DEF ToSet
  <2>2. Len(headers) = Len(argv) /\ DOMAIN argv = 1..Len(argv)
    BY LenProperties DEF Image, Staged, RamdiskTypeOK
  <2>3. file[path] # Missing
    BY <1>3, <2>1, <2>2 DEF Image, RightSizes
  <2>4. file[path] \in Contents \cup {Missing}
    BY DEF Image, RamdiskTypeOK
  <2> QED BY <2>3, <2>4
<1> QED BY <1>1, <1>2, <1>3

LEMMA NamesOnly == Image => ToSet(argv) \subseteq Names /\ NULL \notin ToSet(argv)
<1> SUFFICES ASSUME Image PROVE ToSet(argv) \subseteq Names
  BY PrintedAssumption DEF PrintedAssumption
<1>1. argv \in Seq(Names)
  BY DEF Image, RamdiskTypeOK
<1> QED BY <1>1 DEF ToSet

-----------------------------------------------------------------------------
(* The start of each program. *)
LEMMA AtStart ==
  ASSUME NEW name, NEW path, NEW buf, NEW i, NEW j, NEW t, NEW T,
         Sofar(Prog(name, path, "start", buf, i, j, t), T)
  PROVE  T = << >> /\ i = 0 /\ t = 0
<1> DEFINE p == Prog(name, path, "start", buf, i, j, t)
<1>1. p.pc = "start" /\ p.i = i /\ p.j = j /\ p.tmp_cnt = t
  BY ProgIs
<1> HIDE DEF p
<1>2. ~HexAt(p.buf, p.pc, p.i, p.j, p.tmp_cnt, T)
  BY <1>1 DEF HexAt, InRow
<1>3. Sofar(p, T)
  BY DEF p
<1> QED BY <1>1, <1>2, <1>3 DEF Sofar

LEMMA UsageKeeps == ASSUME Powers, Alphabet, Texts, ShowInv, hexdump_Usage PROVE ShowInv'
<1>1. /\ Ready /\ program # NULL /\ program.name = "hexdump" /\ program.pc = "start" /\ program.path = NULL
      /\ UNCHANGED ramdiskVars
  BY DEF hexdump_Usage, At_, putf, Printing
<1>2. PICK path, buf, i, j, t, T : /\ Now("hexdump", path, "start", buf, i, j, t, T) /\ path = NULL
                                   /\ program.path = path
  BY <1>1, IsNow
<1>3. program = Prog("hexdump", path, "start", buf, i, j, t)
  BY <1>2 DEF Now
<1>4. program' = Prog("hexdump", path, "end", buf, i, j, t)
  <2>1. program' = [program EXCEPT !.pc = "end"]
    BY DEF hexdump_Usage, Goto
  <2>2. PICK p : p = program
    OBVIOUS
  <2>3. SetPc(p, "end") = Prog("hexdump", path, "end", buf, i, j, t)
    BY <1>3, <2>2, ToPc
  <2> QED BY <2>1, <2>2, <2>3 DEF SetPc
<1>5. Started(UsageText)
  <2>1. "hexdump" \in Letter
    BY DEF Texts
  <2>2. putf(<<"Not enough arguments! Usage: ", "%", "s", " <filename>", "LF">>, << "hexdump" >>)
    BY <1>1 DEF hexdump_Usage
  <2> QED BY <2>1, <2>2, PutNotice DEF UsageText
<1>6. ASSUME Undisturbed("hexdump", path)
      PROVE  Sofar(Prog("hexdump", path, "end", buf, i, j, t), T \o UsageText)
  <2>1. T = << >>
    BY <1>2, <1>6, AtStart DEF Now
  <2>2. T \o UsageText = UsageText
    BY <1>5, <2>1, StartedText
  <2> QED BY <1>2, <2>2, ProgIs DEF Sofar
<1> QED BY <1>1, <1>2, <1>4, <1>5, <1>6, GoesOn

-----------------------------------------------------------------------------
(* The programs' steps. *)
LEMMA NoFileKeeps ==
  ASSUME Powers, Alphabet, Texts, ShowInv, NEW name \in {"cat", "hexdump"}, NoSuchFile(name)
  PROVE  ShowInv'
<1>1. /\ Ready /\ program # NULL /\ program.name = name /\ program.pc = "start" /\ program.path # NULL
      /\ file_read(program.path) = Missing /\ putf(NotFound, << program.path >>)
      /\ program' = [program EXCEPT !.pc = "end"] /\ UNCHANGED ramdiskVars
  BY DEF NoSuchFile, At_, putf, Printing, Goto
<1>2. PICK path, buf, i, j, t, T : /\ Now(name, path, "start", buf, i, j, t, T)
                                   /\ program.path = path
  BY <1>1, IsNow
<1>3. program = Prog(name, path, "start", buf, i, j, t) /\ path \in Names \ {NULL}
  BY <1>1, <1>2 DEF Now
<1>4. program' = Prog(name, path, "end", buf, i, j, t)
  <2>1. PICK p : p = program
    OBVIOUS
  <2>2. SetPc(p, "end") = Prog(name, path, "end", buf, i, j, t)
    BY <1>3, <2>1, ToPc
  <2> QED BY <1>1, <2>1, <2>2 DEF SetPc
<1>5. Started(MissingText(path))
  <2>1. path \in Letter
    BY <1>3 DEF Texts
  <2>2. putf(NotFound, << path >>)
    BY <1>1, <1>2
  <2> QED BY <2>1, <2>2, PutNotice
<1>6. ASSUME Undisturbed(name, path)
      PROVE  Sofar(Prog(name, path, "end", buf, i, j, t), T \o MissingText(path))
  <2>1. T = << >>
    BY <1>2, <1>6, AtStart DEF Now
  <2>2. T \o MissingText(path) = MissingText(path)
    BY <1>5, <2>1, StartedText
  <2>3. path \notin ToSet(argv)
    <3>1. Image /\ stage = "booted" /\ file_read(path) = Missing
      BY <1>1, <1>2 DEF Now
    <3>2. path \in ToSet(argv) => Unedited(path)
      BY <1>6 DEF Undisturbed
    <3> QED BY <1>3, <3>1, <3>2, FileRead
  <2> DEFINE q == Prog(name, path, "end", buf, i, j, t)
  <2>4. q.name = name /\ q.path = path /\ q.pc = "end"
    BY ProgIs
  <2> HIDE DEF q
  <2>5. q.name # "ls" /\ q.path \in Names \ ToSet(argv) /\ T \o MissingText(path) = MissingText(q.path)
    BY <1>3, <2>2, <2>3, <2>4
  <2>6. Sofar(q, T \o MissingText(path))
    BY <2>4, <2>5 DEF Sofar
  <2> QED BY <2>6 DEF q
<1> QED BY <1>1, <1>2, <1>4, <1>5, <1>6, GoesOn

LEMMA LoadKeeps ==
  ASSUME ShowInv, NEW name, NEW pc, Load(name, pc),
         (name = "cat" /\ pc = "show") \/ (name = "hexdump" /\ pc = "first")
  PROVE  ShowInv'
<1>1. /\ Ready /\ program # NULL /\ program.name = name /\ program.pc = "start" /\ program.path # NULL
      /\ file_read(program.path) # Missing
      /\ program' = [program EXCEPT !.buf = file_read(program.path), !.pc = pc]
      /\ UNCHANGED ramdiskVars /\ UNCHANGED formatVars /\ printed' = printed
  BY DEF Load, At_, Silently
<1>2. PICK path, buf, i, j, t, T : /\ Now(name, path, "start", buf, i, j, t, T)
                                   /\ program.path = path
  BY <1>1, IsNow
<1>3. program = Prog(name, path, "start", buf, i, j, t) /\ path \in Names \ {NULL}
  BY <1>1, <1>2 DEF Now
<1>4. PICK c : c = file_read(path)
  OBVIOUS
<1>5. program' = Prog(name, path, pc, c, i, j, t)
  <2>1. PICK p : p = program
    OBVIOUS
  <2>2. SetBufPc(p, c, pc) = Prog(name, path, pc, c, i, j, t)
    BY <1>3, <2>1, ToBufPc
  <2> QED BY <1>1, <1>2, <1>4, <2>1, <2>2 DEF SetBufPc
<1>6. ASSUME Undisturbed(name, path)
      PROVE  Sofar(Prog(name, path, pc, c, i, j, t), T)
  <2>1. T = << >> /\ i = 0 /\ t = 0
    BY <1>2, <1>6, AtStart DEF Now
  <2>2. path \in ToSet(argv) /\ c = file[path] /\ c \in Contents
    <3>1. Image /\ stage = "booted" /\ file_read(path) # Missing
      BY <1>1, <1>2 DEF Now
    <3>2. path \in ToSet(argv) => Unedited(path)
      BY <1>6 DEF Undisturbed
    <3> QED BY <1>3, <1>4, <3>1, <3>2, FileRead
  <2>3. Dumped(c)
    BY <2>2, PrintedAssumption DEF PrintedAssumption, Dumped
  <2> DEFINE q == Prog(name, path, pc, c, i, j, t)
  <2>4. q.name = name /\ q.path = path /\ q.pc = pc /\ q.buf = c /\ q.i = 0 /\ q.j = j /\ q.tmp_cnt = 0
    BY <2>1, ProgIs
  <2> HIDE DEF q
  <2>5. Loaded(q)
    BY <2>2, <2>4 DEF Loaded
  <2>6. ASSUME name = "cat" /\ pc = "show" PROVE Sofar(q, T)
    BY <2>1, <2>4, <2>5, <2>6 DEF Sofar
  <2>7. ASSUME name = "hexdump" /\ pc = "first" PROVE Sofar(q, T)
    <3>1. HexAt(q.buf, q.pc, q.i, q.j, q.tmp_cnt, T)
      BY <2>1, <2>3, <2>4, <2>7 DEF HexAt
    <3> QED BY <2>4, <2>5, <2>7, <3>1 DEF Sofar
  <2>8. Sofar(q, T)
    BY <2>6, <2>7
  <2> QED BY <2>8 DEF q
<1> QED BY <1>1, <1>2, <1>5, <1>6, GoesOn

LEMMA ShowKeeps == ASSUME Powers, Alphabet, Texts, ShowInv, cat_Show PROVE ShowInv'
<1>1. PICK tail \in Tails :
      /\ Ready /\ program # NULL /\ program.name = "cat" /\ program.pc = "show"
      /\ putf(<< "%", "s", "LF" >>, UpToNul(program.buf \o tail))
      /\ program' = [program EXCEPT !.pc = "end"] /\ UNCHANGED ramdiskVars
  BY DEF cat_Show, At_, putf, Printing, Goto
<1>2. PICK path, buf, i, j, t, T : /\ Now("cat", path, "show", buf, i, j, t, T)
                                   /\ program.buf = buf
  BY <1>1, IsNow
<1>3. program = Prog("cat", path, "show", buf, i, j, t)
  BY <1>2 DEF Now
<1>4. program' = Prog("cat", path, "end", buf, i, j, t)
  <2>1. PICK p : p = program
    OBVIOUS
  <2>2. SetPc(p, "end") = Prog("cat", path, "end", buf, i, j, t)
    BY <1>3, <2>1, ToPc
  <2> QED BY <1>1, <2>1, <2>2 DEF SetPc
<1>5. ASSUME Undisturbed("cat", path)
      PROVE  /\ Started(CatText(buf, tail))
             /\ Sofar(Prog("cat", path, "end", buf, i, j, t), T \o CatText(buf, tail))
  <2> DEFINE p == Prog("cat", path, "show", buf, i, j, t)
             q == Prog("cat", path, "end", buf, i, j, t)
             s == UpToNul(buf \o tail)
  <2>1. p.name = "cat" /\ p.path = path /\ p.pc = "show" /\ p.buf = buf
    BY ProgIs
  <2>2. Sofar(p, T)
    BY <1>2, <1>5 DEF Now
  <2>3. q.name = "cat" /\ q.path = path /\ q.pc = "end" /\ q.buf = buf
    BY ProgIs
  <2> HIDE DEF p, q
  <2>4. Loaded(p) /\ T = << >>
    BY <2>1, <2>2 DEF Sofar
  <2>5. path \in ToSet(argv) /\ buf = file[path] /\ Loaded(q)
    BY <2>1, <2>3, <2>4 DEF Loaded
  <2>6. buf \in Contents
    <3>1. Image /\ stage = "booted"
      BY <1>2 DEF Now
    <3>2. Unedited(path) /\ path \in Names
      BY <1>5, <2>5, <3>1, NamesOnly DEF Undisturbed
    <3> QED BY <2>5, <3>1, <3>2, FileRead
  <2>7. s \in Letters /\ Len(s) < PRINTF_MAX_POSSIBLE_BUFFER_SIZE
    <3> DEFINE b == buf \o tail
    <3>1. /\ buf \in Seq(DOMAIN Code) /\ tail \in Seq(DOMAIN Code)
          /\ Len(buf) + Len(tail) < PRINTF_MAX_POSSIBLE_BUFFER_SIZE
      BY <2>6, PrintedAssumption DEF PrintedAssumption
    <3>2. b \in Seq(DOMAIN Code) /\ Len(b) = Len(buf) + Len(tail)
      BY <3>1, ConcatProperties
    <3>3. Len(b) \in Nat
      BY <3>2, LenProperties
    <3>4. Len(b) < PRINTF_MAX_POSSIBLE_BUFFER_SIZE
      BY <3>1, <3>2
    <3> HIDE DEF b
    <3>5. UpToNul(b) \in Letters /\ Len(UpToNul(b)) <= Len(b)
      BY <3>2, UpToNulFacts
    <3>6. Len(UpToNul(b)) \in Nat
      BY <3>5, LettersType
    <3>7. Len(UpToNul(b)) < PRINTF_MAX_POSSIBLE_BUFFER_SIZE
      BY <3>3, <3>4, <3>5, <3>6, MaxRoom
    <3> QED BY <3>5, <3>7 DEF b
  <2>8. putf(<< "%", "s", "LF" >>, s)
    BY <1>1, <1>2
  <2> HIDE DEF s
  <2>9. Started(s \o << "LF" >>)
    BY <2>7, <2>8, PutLine
  <2>10. CatText(buf, tail) = s \o << "LF" >>
    BY DEF CatText, s
  <2>11. T \o CatText(buf, tail) = CatText(q.buf, tail)
    BY <2>3, <2>4, <2>9, <2>10, StartedText
  <2>12. Sofar(q, T \o CatText(buf, tail))
    BY <2>3, <2>5, <2>11 DEF Sofar
  <2> QED BY <2>9, <2>10, <2>12 DEF q
<1> QED BY <1>1, <1>2, <1>4, <1>5, GoesOn

-----------------------------------------------------------------------------
LEMMA AlwaysListed == \A path : Undisturbed("ls", path)
BY DEF Undisturbed

LEMMA DirKeeps == ASSUME ShowInv, ls_Dir PROVE ShowInv'
<1>1. /\ Ready /\ program # NULL /\ program.name = "ls" /\ program.pc = "start"
      /\ program' = [program EXCEPT !.pc = "list"]
      /\ UNCHANGED ramdiskVars /\ UNCHANGED formatVars /\ printed' = printed
  BY DEF ls_Dir, At_, Goto, Silently
<1>2. PICK path, buf, i, j, t, T : Now("ls", path, "start", buf, i, j, t, T)
  BY <1>1, IsNow
<1>3. program = Prog("ls", path, "start", buf, i, j, t)
  BY <1>2 DEF Now
<1>4. program' = Prog("ls", path, "list", buf, i, j, t)
  <2>1. PICK p : p = program
    OBVIOUS
  <2>2. SetPc(p, "list") = Prog("ls", path, "list", buf, i, j, t)
    BY <1>3, <2>1, ToPc
  <2> QED BY <1>1, <2>1, <2>2 DEF SetPc
<1>5. Sofar(Prog("ls", path, "list", buf, i, j, t), T)
  <2> DEFINE q == Prog("ls", path, "list", buf, i, j, t)
  <2>1. T = << >> /\ i = 0
    BY <1>2, AlwaysListed, AtStart DEF Now
  <2>2. q.name = "ls" /\ q.pc = "list" /\ q.i = 0
    BY <2>1, ProgIs
  <2> HIDE DEF q
  <2>3. Listed(0) = << >>
    <3>1. << >> \in Seq(Letters) /\ << >> \in Letters
      BY EmptyLetters
    <3>2. FlattenSeq(<< >>) = << >>
      BY <3>1, FlattenAppend
    <3>3. [k \in 1..0 |-> << argv[k], " " >>] = << >>
      OBVIOUS
    <3> QED BY <3>2, <3>3 DEF Listed
  <2>4. 0 \in 0..Len(argv)
    <3>1. Len(argv) \in Nat
      BY <1>2, LenProperties DEF Now, Image, RamdiskTypeOK
    <3> QED BY <3>1
  <2>5. Sofar(q, T)
    BY <2>1, <2>2, <2>3, <2>4 DEF Sofar
  <2> QED BY <2>5 DEF q
<1> QED BY <1>1, <1>2, <1>4, <1>5, GoesOn

(* Listing. *)
LEMMA ListedNext ==
  ASSUME Texts, Image, NEW i \in Nat, i < Len(argv)
  PROVE  Listed(i + 1) = Listed(i) \o << argv[i + 1], " " >>
<1>1. PICK a : a = argv
  OBVIOUS
<1>2. a \in Seq(Names) /\ i < Len(a)
  BY <1>1 DEF Image, RamdiskTypeOK
<1> DEFINE g == [k \in 1..(i + 1) |-> << a[k], " " >>]
<1>3. \A k \in 1..(i + 1) : a[k] \in Letter
  <2>1. \A k \in 1..(i + 1) : k \in 1..Len(a)
    BY <1>2, LenProperties
  <2>2. \A k \in 1..Len(a) : a[k] \in Names
    BY <1>2, ElementOfSeq
  <2> QED BY <2>1, <2>2 DEF Texts
<1>4. \A k \in 1..(i + 1) : g[k] \in Letters
  <2>1. \A x, y \in Letter : << x, y >> \in Letters
    BY DEF Letters
  <2>2. " " \in Letter
    BY DEF Texts
  <2> QED BY <1>3, <2>1, <2>2
<1>5. [k \in 1..i |-> g[k]] = [k \in 1..i |-> << a[k], " " >>]
  <2>1. \A k \in 1..i : k \in 1..(i + 1)
    OBVIOUS
  <2>2. \A k \in 1..i : g[k] = << a[k], " " >>
    BY <2>1
  <2> HIDE DEF g
  <2> QED BY <2>2
<1>6. [k \in 1..(i + 1) |-> g[k]] = g
  OBVIOUS
<1>7. g[i + 1] = << a[i + 1], " " >>
  <2>1. i + 1 \in 1..(i + 1)
    OBVIOUS
  <2> QED BY <2>1
<1>8. FlattenSeq([k \in 1..(i + 1) |-> g[k]]) = FlattenSeq([k \in 1..i |-> g[k]]) \o g[i + 1]
  <2> HIDE DEF g
  <2> QED BY <1>4, FlattenNext
<1>9. FlattenSeq(g) = FlattenSeq([k \in 1..i |-> << a[k], " " >>]) \o << a[i + 1], " " >>
  BY <1>5, <1>6, <1>7, <1>8, Zenon
<1> QED BY <1>1, <1>9, Zenon DEF Listed

LEMMA Listing ==
  ASSUME NEW path, NEW buf, NEW i, NEW j, NEW t, NEW T, Now("ls", path, "list", buf, i, j, t, T)
  PROVE  /\ T = Listed(i) /\ i \in 0..Len(argv)
         /\ quasfs_get_entry_count = Len(argv) /\ Len(argv) \in Nat /\ DOMAIN argv = 1..Len(argv)
         /\ i < Len(argv) => quasfs_dir[i + 1] = argv[i + 1]
<1> DEFINE p == Prog("ls", path, "list", buf, i, j, t)
<1>1. p.name = "ls" /\ p.pc = "list" /\ p.i = i
  BY ProgIs
<1>2. Sofar(p, T)
  BY AlwaysListed DEF Now
<1> HIDE DEF p
<1>3. T = Listed(i) /\ i \in 0..Len(argv)
  BY <1>1, <1>2 DEF Sofar
<1>4. Image /\ stage = "booted"
  BY DEF Now
<1>5. /\ Len(headers) = Len(argv) /\ Len(argv) \in Nat /\ DOMAIN argv = 1..Len(argv)
      /\ DOMAIN headers = 1..Len(headers)
  BY <1>4, LenProperties DEF Image, RamdiskTypeOK, Staged
<1>6. ASSUME i < Len(argv) PROVE quasfs_dir[i + 1] = argv[i + 1]
  <2>1. i + 1 \in 1..Len(headers)
    BY <1>3, <1>5, <1>6
  <2>2. headers[i + 1].name = argv[i + 1]
    BY <1>4, <2>1 DEF Image, EndToEnd
  <2> QED BY <1>5, <2>1, <2>2 DEF quasfs_dir
<1> QED BY <1>3, <1>5, <1>6 DEF quasfs_get_entry_count

LEMMA EntryKeeps == ASSUME Powers, Alphabet, Texts, ShowInv, ls_Entry PROVE ShowInv'
<1>1. Ready /\ program # NULL /\ program.name = "ls" /\ program.pc = "list"
  BY DEF ls_Entry, At_
<1>2. PICK path, buf, i, j, t, T : Now("ls", path, "list", buf, i, j, t, T) /\ program.i = i
  BY <1>1, IsNow
<1>3. /\ program.i < quasfs_get_entry_count
      /\ putf(<< "%", "s", " " >>, << quasfs_dir[program.i + 1] >>)
      /\ program' = [program EXCEPT !.i = program.i + 1] /\ UNCHANGED ramdiskVars
  BY DEF ls_Entry, putf, Printing
<1>4. program = Prog("ls", path, "list", buf, i, j, t) /\ Image
  BY <1>2 DEF Now
<1>5. program' = Prog("ls", path, "list", buf, i + 1, j, t)
  <2>1. PICK p : p = program
    OBVIOUS
  <2>2. SetI(p, i + 1) = Prog("ls", path, "list", buf, i + 1, j, t)
    BY <1>4, <2>1, ToI
  <2> QED BY <1>3, <1>2, <2>1, <2>2 DEF SetI
<1>6. /\ T = Listed(i) /\ i \in 0..Len(argv) /\ i < Len(argv) /\ Len(argv) \in Nat
      /\ quasfs_dir[i + 1] = argv[i + 1]
  <2>1. /\ T = Listed(i) /\ i \in 0..Len(argv) /\ quasfs_get_entry_count = Len(argv) /\ Len(argv) \in Nat
        /\ i < Len(argv) => quasfs_dir[i + 1] = argv[i + 1]
    BY <1>2, Listing
  <2>2. i < Len(argv)
    BY <1>3, <1>2, <2>1
  <2> QED BY <2>1, <2>2
<1>7. PICK x : x = argv[i + 1]
  OBVIOUS
<1>8. x \in Letter
  <2>1. argv \in Seq(Names) /\ i + 1 \in 1..Len(argv)
    BY <1>4, <1>6 DEF Image, RamdiskTypeOK
  <2>2. x \in Names
    BY <1>7, <2>1, ElementOfSeq
  <2> QED BY <2>2 DEF Texts
<1>9. Started(<< x, " " >>)
  <2>1. putf(<< "%", "s", " " >>, << x >>)
    BY <1>3, <1>2, <1>6, <1>7
  <2>2. << x >> \in Letters /\ Len(<< x >>) = 1
    BY <1>8, One
  <2>3. 1 < PRINTF_MAX_POSSIBLE_BUFFER_SIZE
    BY MaxRoom
  <2>4. Len(<< x >>) < PRINTF_MAX_POSSIBLE_BUFFER_SIZE
    BY <2>2, <2>3, Zenon
  <2>5. Started(<< x >> \o << " " >>)
    BY <2>1, <2>2, <2>4, PutLine
  <2> QED BY <2>5, Pair, Zenon
<1>10. Sofar(Prog("ls", path, "list", buf, i + 1, j, t), T \o << x, " " >>)
  <2> DEFINE q == Prog("ls", path, "list", buf, i + 1, j, t)
  <2>1. q.name = "ls" /\ q.pc = "list" /\ q.i = i + 1
    BY ProgIs
  <2> HIDE DEF q
  <2>2. i \in Nat /\ i + 1 \in 0..Len(argv)
    BY <1>6
  <2>3. T \o << x, " " >> = Listed(i + 1)
    BY <1>4, <1>6, <1>7, <2>2, ListedNext
  <2>4. Sofar(q, T \o << x, " " >>)
    BY <2>1, <2>2, <2>3 DEF Sofar
  <2> QED BY <2>4 DEF q
<1>11. PICK n : n = i + 1
  OBVIOUS
<1>12. /\ program' = Prog("ls", path, "list", buf, n, j, t)
       /\ \E text : Started(text) /\ Sofar(Prog("ls", path, "list", buf, n, j, t), T \o text)
  BY <1>5, <1>9, <1>10, <1>11
<1>13. UNCHANGED ramdiskVars
  BY <1>3
<1> QED BY <1>2, <1>12, <1>13, GoesOn

LEMMA LineKeeps == ASSUME Powers, Alphabet, Texts, ShowInv, ls_Line PROVE ShowInv'
<1>1. /\ Ready /\ program # NULL /\ program.name = "ls" /\ program.pc = "list"
      /\ program.i = quasfs_get_entry_count /\ puts(<< "LF" >>)
      /\ program' = [program EXCEPT !.pc = "end"] /\ UNCHANGED ramdiskVars
  BY DEF ls_Line, At_, puts, Printing, Goto
<1>2. PICK path, buf, i, j, t, T : Now("ls", path, "list", buf, i, j, t, T) /\ program.i = i
  BY <1>1, IsNow
<1>3. program = Prog("ls", path, "list", buf, i, j, t)
  BY <1>2 DEF Now
<1>4. program' = Prog("ls", path, "end", buf, i, j, t)
  <2>1. PICK p : p = program
    OBVIOUS
  <2>2. SetPc(p, "end") = Prog("ls", path, "end", buf, i, j, t)
    BY <1>3, <2>1, ToPc
  <2> QED BY <1>1, <2>1, <2>2 DEF SetPc
<1>5. T = Listed(Len(argv)) /\ DOMAIN argv = 1..Len(argv)
  BY <1>1, <1>2, Listing
<1>6. Started(<< "LF" >>)
  BY <1>1, SmallTexts, Puts
<1>7. T \o << "LF" >> = ListText
  BY <1>5, Zenon DEF ListText, Listed
<1>8. Sofar(Prog("ls", path, "end", buf, i, j, t), T \o << "LF" >>)
  BY <1>7, ProgIs DEF Sofar
<1> QED BY <1>1, <1>2, <1>4, <1>6, <1>8, GoesOn

-----------------------------------------------------------------------------
(* hexdump, once it has its file. *)
LEMMA InHexdump ==
  ASSUME NEW path, NEW pc, NEW buf, NEW i, NEW j, NEW t, NEW T,
         Sofar(Prog("hexdump", path, pc, buf, i, j, t), T), pc \notin {"start", "end"}
  PROVE  path \in ToSet(argv) /\ buf = file[path] /\ HexAt(buf, pc, i, j, t, T)
<1> DEFINE p == Prog("hexdump", path, pc, buf, i, j, t)
<1>1. p.name = "hexdump" /\ p.path = path /\ p.pc = pc /\ p.buf = buf /\ p.i = i /\ p.j = j /\ p.tmp_cnt = t
  BY ProgIs
<1> HIDE DEF p
<1>2. Sofar(p, T)
  BY DEF p
<1>3. Loaded(p) /\ HexAt(p.buf, p.pc, p.i, p.j, p.tmp_cnt, T)
  BY <1>1, <1>2 DEF Sofar
<1> QED BY <1>1, <1>3 DEF Loaded

LEMMA HexSofar ==
  ASSUME NEW path, NEW pc, NEW buf, NEW i, NEW j, NEW t, NEW T,
         path \in ToSet(argv), buf = file[path], HexAt(buf, pc, i, j, t, T)
  PROVE  Sofar(Prog("hexdump", path, pc, buf, i, j, t), T)
<1> DEFINE p == Prog("hexdump", path, pc, buf, i, j, t)
<1>1. p.name = "hexdump" /\ p.path = path /\ p.pc = pc /\ p.buf = buf /\ p.i = i /\ p.j = j /\ p.tmp_cnt = t
  BY ProgIs
<1> HIDE DEF p
<1>2. Loaded(p) /\ HexAt(p.buf, p.pc, p.i, p.j, p.tmp_cnt, T)
  BY <1>1 DEF Loaded
<1>3. Sofar(p, T)
  BY <1>1, <1>2 DEF Sofar
<1> QED BY <1>3 DEF p

(* A step of it: what it prints goes on with the dump.                     *)
LEMMA HexGoesOn ==
  ASSUME NEW path, NEW pc, NEW buf, NEW i, NEW j, NEW t, NEW T, Now("hexdump", path, pc, buf, i, j, t, T),
         pc \notin {"start", "end"},
         NEW pc2, NEW i2, NEW j2, NEW t2, program' = Prog("hexdump", path, pc2, buf, i2, j2, t2),
         UNCHANGED ramdiskVars,
         HexAt(buf, pc, i, j, t, T) =>
            \/ \E text : Started(text) /\ HexAt(buf, pc2, i2, j2, t2, T \o text)
            \/ UNCHANGED formatVars /\ printed' = printed /\ HexAt(buf, pc2, i2, j2, t2, T)
  PROVE  ShowInv'
<1>1. ASSUME Undisturbed("hexdump", path)
      PROVE  \/ \E text : Started(text) /\ Sofar(Prog("hexdump", path, pc2, buf, i2, j2, t2), T \o text)
             \/ /\ UNCHANGED formatVars /\ printed' = printed
                /\ Sofar(Prog("hexdump", path, pc2, buf, i2, j2, t2), T)
  <2>1. path \in ToSet(argv) /\ buf = file[path] /\ HexAt(buf, pc, i, j, t, T)
    BY <1>1, InHexdump DEF Now
  <2>2. \A u : HexAt(buf, pc2, i2, j2, t2, u) => Sofar(Prog("hexdump", path, pc2, buf, i2, j2, t2), u)
    BY <2>1, HexSofar
  <2> QED BY <2>1, <2>2
<1> QED BY <1>1, GoesOn

LEMMA HexPrints ==
  ASSUME NEW path, NEW pc, NEW buf, NEW i, NEW j, NEW t, NEW T, Now("hexdump", path, pc, buf, i, j, t, T),
         pc \in {"first", "loop", "rowText", "byte", "pad", "lastText"},
         NEW pc2, NEW i2, NEW j2, NEW t2, program' = Prog("hexdump", path, pc2, buf, i2, j2, t2),
         UNCHANGED ramdiskVars,
         HexAt(buf, pc, i, j, t, T) => \E text : Started(text) /\ HexAt(buf, pc2, i2, j2, t2, T \o text)
  PROVE  ShowInv'
BY HexGoesOn

LEMMA HexIsNow ==
  ASSUME ShowInv, Ready, program # NULL, program.name = "hexdump", NEW pc, program.pc = pc
  PROVE  \E path, buf, i, j, t, T :
             /\ Now("hexdump", path, pc, buf, i, j, t, T)
             /\ program = Prog("hexdump", path, pc, buf, i, j, t)
             /\ program.buf = buf /\ program.i = i /\ program.j = j /\ program.tmp_cnt = t
<1>1. PICK name, path, at, buf, i, j, t, T :
             /\ Now(name, path, at, buf, i, j, t, T)
             /\ program.name = name /\ program.path = path /\ program.pc = at /\ program.buf = buf
             /\ program.i = i /\ program.j = j /\ program.tmp_cnt = t
  BY IsNow, Zenon
<1>2. name = "hexdump" /\ at = pc
  BY <1>1
<1>3. Now("hexdump", path, pc, buf, i, j, t, T)
  BY <1>1, <1>2, Zenon
<1>4. program = Prog("hexdump", path, pc, buf, i, j, t)
  BY <1>3, Zenon DEF Now
<1> QED BY <1>1, <1>3, <1>4, Zenon

LEMMA FirstKeeps == ASSUME Powers, Alphabet, Texts, ShowInv, hexdump_First PROVE ShowInv'
<1>1. Ready /\ program # NULL /\ program.name = "hexdump" /\ program.pc = "first"
  BY DEF hexdump_First, At_
<1>2. PICK path, buf, i, j, t, T :
       /\ Now("hexdump", path, "first", buf, i, j, t, T) /\ program = Prog("hexdump", path, "first", buf, i, j, t)
       /\ program.buf = buf /\ program.i = i /\ program.j = j /\ program.tmp_cnt = t
  BY <1>1, HexIsNow
<1>3. /\ puts(Copies(8, "0") \o << ":", " " >>)
      /\ program' = [program EXCEPT !.pc = "loop"] /\ UNCHANGED ramdiskVars
  BY DEF hexdump_First, puts, Printing, Goto
<1>4. program' = Prog("hexdump", path, "loop", buf, i, j, t)
  <2>1. PICK p : p = program
    OBVIOUS
  <2>2. SetPc(p, "loop") = Prog("hexdump", path, "loop", buf, i, j, t)
    BY <1>2, <2>1, ToPc
  <2> QED BY <1>3, <2>1, <2>2 DEF SetPc
<1>5. Started(Copies(8, "0") \o << ":", " " >>)
  BY <1>3, SmallTexts, Puts
<1>6. HexAt(buf, "first", i, j, t, T) => HexAt(buf, "loop", i, j, t, T \o (Copies(8, "0") \o << ":", " " >>))
  BY ToLoop
<1>7. PICK u : u = Copies(8, "0") \o << ":", " " >>
  OBVIOUS
<1>8. Started(u) /\ UNCHANGED ramdiskVars
  BY <1>3, <1>5, <1>7
<1>9. HexAt(buf, "first", i, j, t, T) => HexAt(buf, "loop", i, j, t, T \o u)
  BY <1>6, <1>7
<1> QED BY <1>2, <1>4, <1>8, <1>9, HexPrints

LEMMA EndRowKeeps == ASSUME Powers, Alphabet, Texts, ShowInv, EndRow PROVE ShowInv'
<1>1. Ready /\ program # NULL /\ program.name = "hexdump" /\ program.pc = "loop"
  BY DEF EndRow, At_
<1>2. PICK path, buf, i, j, t, T :
       /\ Now("hexdump", path, "loop", buf, i, j, t, T) /\ program = Prog("hexdump", path, "loop", buf, i, j, t)
       /\ program.buf = buf /\ program.i = i /\ program.j = j /\ program.tmp_cnt = t
  BY <1>1, HexIsNow
<1>3. /\ puts(<< "|", " " >>)
      /\ program' = SetCountJPc(program, 0, RowLength, "rowText") /\ UNCHANGED ramdiskVars
  BY DEF EndRow, puts, Printing, SetCountJPc
<1>4. i < Len(buf) /\ i > 0 /\ i % RowLength = 0
  BY <1>2 DEF EndRow, RowFull
<1>5. program' = Prog("hexdump", path, "rowText", buf, i, RowLength, 0)
  <2>1. PICK p : p = program
    OBVIOUS
  <2>2. SetCountJPc(p, 0, RowLength, "rowText") = Prog("hexdump", path, "rowText", buf, i, RowLength, 0)
    BY <1>2, <2>1, ToCountJPc
  <2> QED BY <1>3, <2>1, <2>2
<1>6. Started(<< "|", " " >>)
  BY <1>3, SmallTexts, Puts
<1>7. HexAt(buf, "loop", i, j, t, T) => HexAt(buf, "rowText", i, RowLength, 0, T \o << "|", " " >>)
  BY <1>4, ToBar
<1> QED BY <1>2, <1>3, <1>5, <1>6, <1>7, HexPrints

LEMMA TextKeepsOn ==
  ASSUME Powers, Alphabet, Texts, ShowInv, NEW pc \in {"rowText", "lastText"}, TextByte(pc)
  PROVE  ShowInv'
<1>1. Ready /\ program # NULL /\ program.name = "hexdump" /\ program.pc = pc
  BY DEF TextByte, At_
<1>2. PICK path, buf, i, j, t, T :
       /\ Now("hexdump", path, pc, buf, i, j, t, T) /\ program = Prog("hexdump", path, pc, buf, i, j, t)
       /\ program.buf = buf /\ program.i = i /\ program.j = j /\ program.tmp_cnt = t
  BY <1>1, HexIsNow
<1>3. /\ putf(<< "%", "c" >>, Shown(buf[i - j + 1])) /\ j > 0
      /\ program' = [program EXCEPT !.j = j - 1] /\ UNCHANGED ramdiskVars
  BY <1>2 DEF TextByte, putf, Printing
<1>4. PICK m, x : m = j - 1 /\ x = Shown(buf[i - j + 1])
  OBVIOUS
<1>5. program' = Prog("hexdump", path, pc, buf, i, m, t)
  <2>1. PICK p : p = program
    OBVIOUS
  <2>2. SetJ(p, m) = Prog("hexdump", path, pc, buf, i, m, t)
    BY <1>2, <2>1, ToJ
  <2> QED BY <1>3, <1>4, <2>1, <2>2 DEF SetJ
<1>6. ASSUME HexAt(buf, pc, i, j, t, T)
      PROVE  \E text : Started(text) /\ HexAt(buf, pc, i, m, t, T \o text)
  <2>1. HexAt(buf, pc, i, m, t, T \o << x >>) /\ buf[i - j + 1] \in DOMAIN Code
    BY <1>3, <1>4, <1>6, ToNextChar
  <2>2. x \in Letter
    BY <1>4, <2>1, ByteFacts
  <2>3. Started(<< x >>)
    BY <1>3, <1>4, <2>2, PutChar
  <2> QED BY <2>1, <2>3
<1>7. pc \in {"first", "loop", "rowText", "byte", "pad", "lastText"} /\ UNCHANGED ramdiskVars
  BY <1>3
<1> QED BY <1>2, <1>5, <1>6, <1>7, HexPrints

LEMMA StartRowKeeps == ASSUME Powers, Alphabet, Texts, ShowInv, StartRow PROVE ShowInv'
<1>1. Ready /\ program # NULL /\ program.name = "hexdump" /\ program.pc = "rowText"
  BY DEF StartRow, At_
<1>2. PICK path, buf, i, j, t, T :
       /\ Now("hexdump", path, "rowText", buf, i, j, t, T) /\ program = Prog("hexdump", path, "rowText", buf, i, j, t)
       /\ program.buf = buf /\ program.i = i /\ program.j = j /\ program.tmp_cnt = t
  BY <1>1, HexIsNow
<1>3. /\ putf(<< "LF", "%", "0", "8", "x", ":", " " >>, i) /\ j = 0
      /\ program' = [program EXCEPT !.pc = "byte"] /\ UNCHANGED ramdiskVars
  BY <1>2 DEF StartRow, putf, Printing, Goto
<1>4. program' = Prog("hexdump", path, "byte", buf, i, j, t)
  <2>1. PICK p : p = program
    OBVIOUS
  <2>2. SetPc(p, "byte") = Prog("hexdump", path, "byte", buf, i, j, t)
    BY <1>2, <2>1, ToPc
  <2> QED BY <1>3, <2>1, <2>2 DEF SetPc
<1>5. ASSUME HexAt(buf, "rowText", i, j, t, T)
      PROVE  \E text : Started(text) /\ HexAt(buf, "byte", i, j, t, T \o text)
  <2> DEFINE u == << "LF" >> \o (HexText(i, TRUE) \o << ":", " " >>)
  <2>1. HexAt(buf, "byte", i, j, t, T \o u) /\ i \in 0..(2^IntBits - 1)
    BY <1>3, <1>5, ToByte
  <2>2. Started(u)
    BY <1>3, <2>1, PutOffset
  <2> HIDE DEF u
  <2> QED BY <2>1, <2>2
<1>6. UNCHANGED ramdiskVars
  BY <1>3
<1> QED BY <1>2, <1>4, <1>5, <1>6, HexPrints

LEMMA HexByteKeeps == ASSUME Powers, Alphabet, Texts, ShowInv, HexByte PROVE ShowInv'
<1>1. Ready /\ program # NULL /\ program.name = "hexdump" /\ program.pc \in {"byte", "loop"}
  BY DEF HexByte, At_
<1>a. PICK pc : pc = program.pc
  OBVIOUS
<1>2. PICK path, buf, i, j, t, T :
       /\ Now("hexdump", path, pc, buf, i, j, t, T) /\ program = Prog("hexdump", path, pc, buf, i, j, t)
       /\ program.buf = buf /\ program.i = i /\ program.j = j /\ program.tmp_cnt = t
  BY <1>1, <1>a, HexIsNow
<1>3. /\ putf(<< "0", "x", "%", "x", " " >>, Code[buf[i + 1]] % 2^CharBits)
      /\ program' = SetCountIPc(program, t + 1, i + 1, "loop") /\ UNCHANGED ramdiskVars
  BY <1>2, <1>a DEF HexByte, putf, Printing, byte, SetCountIPc
<1>4. pc = "byte" \/ (pc = "loop" /\ i < Len(buf) /\ ~(i > 0 /\ i % RowLength = 0))
  BY <1>2, <1>a DEF HexByte, At_, RowFull
<1>5. PICK m, n, b : m = t + 1 /\ n = i + 1 /\ b = buf[i + 1]
  OBVIOUS
<1>6. program' = Prog("hexdump", path, "loop", buf, n, j, m)
  <2>1. PICK p : p = program
    OBVIOUS
  <2>2. SetCountIPc(p, m, n, "loop") = Prog("hexdump", path, "loop", buf, n, j, m)
    BY <1>2, <2>1, ToCountIPc
  <2> QED BY <1>3, <1>5, <2>1, <2>2
<1>7. ASSUME HexAt(buf, pc, i, j, t, T)
      PROVE  \E text : Started(text) /\ HexAt(buf, "loop", n, j, m, T \o text)
  <2>1. HexAt(buf, "loop", n, j, m, T \o ByteText(b)) /\ b \in DOMAIN Code
    BY <1>4, <1>5, <1>7, ToNextByte
  <2>2. Code[b] \in 0..(2^IntBits - 1) /\ Code[b] % 2^CharBits = Code[b]
    BY <2>1, ByteFacts
  <2>3. putf(<< "0", "x", "%", "x", " " >>, Code[b])
    BY <1>3, <1>5, <2>2
  <2>4. Started(<< "0", "x" >> \o (HexText(Code[b], FALSE) \o << " " >>))
    BY <2>2, <2>3, PutHex
  <2>5. Started(ByteText(b))
    BY <2>4 DEF ByteText
  <2> QED BY <2>1, <2>5
<1>8. pc \in {"first", "loop", "rowText", "byte", "pad", "lastText"} /\ UNCHANGED ramdiskVars
  BY <1>1, <1>a, <1>3
<1> QED BY <1>2, <1>6, <1>7, <1>8, HexPrints

LEMMA LastRowKeeps == ASSUME Powers, Alphabet, Texts, ShowInv, LastRow PROVE ShowInv'
<1>1. Ready /\ program # NULL /\ program.name = "hexdump" /\ program.pc = "loop"
  BY DEF LastRow, At_
<1>2. PICK path, buf, i, j, t, T :
       /\ Now("hexdump", path, "loop", buf, i, j, t, T) /\ program = Prog("hexdump", path, "loop", buf, i, j, t)
       /\ program.buf = buf /\ program.i = i /\ program.j = j /\ program.tmp_cnt = t
  BY <1>1, HexIsNow
<1>3. /\ i = Len(buf) /\ t # 0 /\ program' = SetJPc(program, 0, "pad")
      /\ UNCHANGED ramdiskVars /\ UNCHANGED formatVars /\ printed' = printed
  BY <1>2 DEF LastRow, Silently, SetJPc
<1>4. program' = Prog("hexdump", path, "pad", buf, i, 0, t)
  <2>1. PICK p : p = program
    OBVIOUS
  <2>2. SetJPc(p, 0, "pad") = Prog("hexdump", path, "pad", buf, i, 0, t)
    BY <1>2, <2>1, ToJPc
  <2> QED BY <1>3, <2>1, <2>2
<1>5. HexAt(buf, "loop", i, j, t, T) => HexAt(buf, "pad", i, 0, t, T)
  BY <1>3, ToBlanks
<1> QED BY <1>2, <1>3, <1>4, <1>5, HexGoesOn

LEMMA PadKeeps == ASSUME Powers, Alphabet, Texts, ShowInv, Pad PROVE ShowInv'
<1>1. Ready /\ program # NULL /\ program.name = "hexdump" /\ program.pc = "pad"
  BY DEF Pad, At_
<1>2. PICK path, buf, i, j, t, T :
       /\ Now("hexdump", path, "pad", buf, i, j, t, T) /\ program = Prog("hexdump", path, "pad", buf, i, j, t)
       /\ program.buf = buf /\ program.i = i /\ program.j = j /\ program.tmp_cnt = t
  BY <1>1, HexIsNow
<1>3. /\ j < RowLength - t /\ puts(Copies(5, " "))
      /\ program' = [program EXCEPT !.j = j + 1] /\ UNCHANGED ramdiskVars
  BY <1>2 DEF Pad, puts, Printing
<1>4. PICK m : m = j + 1
  OBVIOUS
<1>5. program' = Prog("hexdump", path, "pad", buf, i, m, t)
  <2>1. PICK p : p = program
    OBVIOUS
  <2>2. SetJ(p, m) = Prog("hexdump", path, "pad", buf, i, m, t)
    BY <1>2, <2>1, ToJ
  <2> QED BY <1>3, <1>4, <2>1, <2>2 DEF SetJ
<1>6. Started(Copies(5, " "))
  BY <1>3, SmallTexts, Puts
<1>7. HexAt(buf, "pad", i, j, t, T) => HexAt(buf, "pad", i, m, t, T \o Copies(5, " "))
  BY <1>3, <1>4, ToNextBlanks
<1>8. PICK u : u = Copies(5, " ")
  OBVIOUS
<1>9. Started(u) /\ UNCHANGED ramdiskVars
  BY <1>3, <1>6, <1>8
<1>10. HexAt(buf, "pad", i, j, t, T) => HexAt(buf, "pad", i, m, t, T \o u)
  BY <1>7, <1>8
<1> QED BY <1>2, <1>5, <1>9, <1>10, HexPrints

LEMMA LastTextKeeps == ASSUME Powers, Alphabet, Texts, ShowInv, LastText PROVE ShowInv'
<1>1. CASE TextByte("lastText")
  BY <1>1, TextKeepsOn
<1>2. CASE /\ At_("hexdump", "pad") /\ program.j = RowLength - program.tmp_cnt
           /\ puts(<< "|", " " >>)
           /\ program' = [program EXCEPT !.j = program.tmp_cnt, !.pc = "lastText"]
  <2>1. Ready /\ program # NULL /\ program.name = "hexdump" /\ program.pc = "pad"
    BY <1>2 DEF At_
  <2>2. PICK path, buf, i, j, t, T :
         /\ Now("hexdump", path, "pad", buf, i, j, t, T) /\ program = Prog("hexdump", path, "pad", buf, i, j, t)
         /\ program.buf = buf /\ program.i = i /\ program.j = j /\ program.tmp_cnt = t
    BY <2>1, HexIsNow
  <2>3. /\ j = RowLength - t /\ puts(<< "|", " " >>)
        /\ program' = SetJPc(program, t, "lastText") /\ UNCHANGED ramdiskVars
    BY <1>2, <2>2 DEF puts, Printing, SetJPc
  <2>4. program' = Prog("hexdump", path, "lastText", buf, i, t, t)
    <3>1. PICK p : p = program
      OBVIOUS
    <3>2. SetJPc(p, t, "lastText") = Prog("hexdump", path, "lastText", buf, i, t, t)
      BY <2>2, <3>1, ToJPc
    <3> QED BY <2>3, <3>1, <3>2
  <2>5. Started(<< "|", " " >>)
    BY <2>3, SmallTexts, Puts
  <2>6. HexAt(buf, "pad", i, j, t, T) => HexAt(buf, "lastText", i, t, t, T \o << "|", " " >>)
    BY <2>3, ToNextBlanks
  <2>7. Now("hexdump", path, "pad", buf, i, j, t, T) /\ UNCHANGED ramdiskVars
    BY <2>2, <2>3
  <2>8. \E text : Started(text) /\ (HexAt(buf, "pad", i, j, t, T) => HexAt(buf, "lastText", i, t, t, T \o text))
    BY <2>5, <2>6, Zenon
  <2>9. HexAt(buf, "pad", i, j, t, T) => \E text : Started(text) /\ HexAt(buf, "lastText", i, t, t, T \o text)
    BY <2>8, Zenon
  <2> QED BY <2>4, <2>7, <2>9, HexPrints
<1> QED BY <1>1, <1>2 DEF LastText

LEMMA LastLineKeeps == ASSUME Powers, Alphabet, Texts, ShowInv, LastLine PROVE ShowInv'
<1>1. Ready /\ program # NULL /\ program.name = "hexdump" /\ program.pc \in {"loop", "lastText"}
  BY DEF LastLine, At_
<1>a. PICK pc : pc = program.pc
  OBVIOUS
<1>2. PICK path, buf, i, j, t, T :
       /\ Now("hexdump", path, pc, buf, i, j, t, T) /\ program = Prog("hexdump", path, pc, buf, i, j, t)
       /\ program.buf = buf /\ program.i = i /\ program.j = j /\ program.tmp_cnt = t
  BY <1>1, <1>a, HexIsNow
<1>3. /\ puts(<< "LF" >>) /\ program' = [program EXCEPT !.pc = "end"] /\ UNCHANGED ramdiskVars
  BY DEF LastLine, puts, Printing, Goto
<1>4. (pc = "loop" /\ i = Len(buf) /\ t = 0) \/ (pc = "lastText" /\ j = 0)
  BY <1>2, <1>a DEF LastLine, At_
<1>5. program' = Prog("hexdump", path, "end", buf, i, j, t)
  <2>1. PICK p : p = program
    OBVIOUS
  <2>2. SetPc(p, "end") = Prog("hexdump", path, "end", buf, i, j, t)
    BY <1>2, <2>1, ToPc
  <2> QED BY <1>3, <2>1, <2>2 DEF SetPc
<1>6. Started(<< "LF" >>)
  BY <1>3, SmallTexts, Puts
<1>7. HexAt(buf, pc, i, j, t, T) => HexAt(buf, "end", i, j, t, T \o << "LF" >>)
  BY <1>4, ToEnd
<1>8. pc \in {"first", "loop", "rowText", "byte", "pad", "lastText"}
  BY <1>1, <1>a
<1> QED BY <1>2, <1>3, <1>5, <1>6, <1>7, <1>8, HexPrints

-----------------------------------------------------------------------------
(* No step disturbs what the program shows. *)
LEMMA ShowStep ==
  ASSUME Powers, Alphabet, Texts, ShowInv, [ProgramsNext]_<<formatVars, ramdiskVars, programVars>>
  PROVE  ShowInv'
<1>1. CASE Building /\ UNCHANGED <<formatVars, programVars>>
  BY <1>1, BuildingKeeps
<1>2. CASE \E name \in {"cat", "ls", "hexdump"}, path \in Names \cup {NULL} : Run(name, path)
  BY <1>2, RunKeeps
<1>3. CASE cat
  <2>1. CASE cat_Load
    BY <2>1, LoadKeeps DEF cat_Load
  <2>2. CASE cat_Missing
    BY <2>2, NoFileKeeps DEF cat_Missing
  <2>3. CASE cat_Show
    BY <2>3, ShowKeeps
  <2> QED BY <1>3, <2>1, <2>2, <2>3 DEF cat
<1>4. CASE ls
  BY <1>4, DirKeeps, EntryKeeps, LineKeeps DEF ls
<1>5. CASE hexdump
  <2>1. CASE hexdump_Load
    BY <2>1, LoadKeeps DEF hexdump_Load
  <2>2. CASE hexdump_Missing
    BY <2>2, NoFileKeeps DEF hexdump_Missing
  <2>3. CASE RowText
    BY <2>3, TextKeepsOn DEF RowText
  <2>4. CASE hexdump_Usage \/ hexdump_First \/ EndRow \/ StartRow \/ HexByte
    BY <2>4, UsageKeeps, FirstKeeps, EndRowKeeps, StartRowKeeps, HexByteKeeps
  <2>5. CASE LastRow \/ Pad \/ LastText \/ LastLine
    BY <2>5, LastRowKeeps, PadKeeps, LastTextKeeps, LastLineKeeps
  <2> QED BY <1>5, <2>1, <2>2, <2>3, <2>4, <2>5 DEF hexdump
<1>6. CASE Exit
  BY <1>6, ExitKeeps
<1>7. CASE Output
  BY <1>7, OutputKeeps
<1>8. CASE UNCHANGED <<formatVars, ramdiskVars, programVars>>
  BY <1>8, StutterKeeps
<1> QED BY <1>1, <1>2, <1>3, <1>4, <1>5, <1>6, <1>7, <1>8 DEF ProgramsNext, Programs

(* At the end, it shows all of it. *)
LEMMA ShownAtTheEnd == ShowInv => ProgramShows
<1> SUFFICES ASSUME ShowInv, Ready, program # NULL, program.pc = "end"
             PROVE  ProgramShows
  BY DEF ProgramShows
<1>1. /\ Undisturbed(program.name, program.path) => Sofar(program, printed)
      /\ program.name \in {"cat", "ls", "hexdump"} /\ Image
  BY DEF ShowInv
<1>2. NULL \notin ToSet(argv) /\ NULL \notin Names
  BY <1>1, NamesOnly, PrintedAssumption DEF PrintedAssumption
<1>3. ASSUME program.name = "ls" PROVE printed = ListText
  BY <1>1, <1>3 DEF Undisturbed, Sofar
<1>4. ASSUME program.name # "ls", program.path = NULL PROVE printed = UsageText
  BY <1>1, <1>2, <1>4 DEF Undisturbed, Sofar, Loaded
<1>5. ASSUME program.name # "ls", program.path \in Names \ ToSet(argv) PROVE printed = MissingText(program.path)
  BY <1>1, <1>2, <1>5 DEF Undisturbed, Sofar, Loaded
<1>6. ASSUME program.name = "hexdump", program.path \in ToSet(argv), Unedited(program.path)
      PROVE  printed = Dump(file[program.path])
  BY <1>1, <1>2, <1>6 DEF Undisturbed, Sofar, Loaded, HexAt, InRow
<1>7. ASSUME program.name = "cat", program.path \in ToSet(argv), Unedited(program.path)
      PROVE  \E tail \in Tails : printed = CatText(file[program.path], tail)
  BY <1>1, <1>2, <1>7 DEF Undisturbed, Sofar, Loaded
<1> QED BY <1>3, <1>4, <1>5, <1>6, <1>7 DEF ProgramShows

(* Whatever programs run one after the other, on whatever ramdisk was      *)
(* built: hexdump prints the dump of the host's file, every byte at its    *)
(* place and every offset before its row; cat prints the file up to the    *)
(* first NUL there is; ls the names; and a missing file is reported        *)
(* (hexdump.c, cat.c, ls.c with printf.c, file.c and both quasfs.c).       *)
THEOREM ProgramsShow ==
  ASSUME Powers, Alphabet, Texts
  PROVE  ProgramsSpec => []ProgramShows
<1>1. ShowInv /\ [ProgramsNext]_<<formatVars, ramdiskVars, programVars>> => ShowInv'
  BY ShowStep
<1> QED BY <1>1, InitShows, ShownAtTheEnd, PTL DEF ProgramsSpec
=============================================================================
