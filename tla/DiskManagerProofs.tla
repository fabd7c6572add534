------------------------- MODULE DiskManagerProofs -------------------------
(***************************************************************************)
(* Every file layout, piece length and order of messages: the bytes are    *)
(* where they belong, flushes are complete and reads are exact.            *)
(***************************************************************************)
EXTENDS DiskManager, SequenceTheorems, WellFoundedInduction, TLAPS

----------------------------------------------------------------------------
(* Induction over the natural numbers, of a set instead of a predicate     *)

\* A set that holds 0 and the successor of every number it holds, holds every
\* natural number (for the loop over the files, disk_manager.rs, lines 30-51).
LEMMA SetInduction ==
  ASSUME NEW T, 0 \in T, \A n \in Nat : n \in T => n + 1 \in T
  PROVE  Nat \subseteq T
<1>1. SUFFICES ASSUME Nat \ T # {} PROVE FALSE
  OBVIOUS
<1>2. PICK n \in Nat \ T : \A m \in Nat \ T : ~ <<m, n>> \in OpToRel(<, Nat)
  BY <1>1, NatLessThanWellFounded, WFMin
<1>3. n # 0 /\ n - 1 \in Nat /\ <<n - 1, n>> \in OpToRel(<, Nat)
  BY DEF OpToRel
<1>4. n - 1 \in T
  BY <1>2, <1>3
<1>5. (n - 1) + 1 = n
  OBVIOUS
<1> QED
  BY <1>3, <1>4, <1>5

----------------------------------------------------------------------------
(* The files of the stream                                                 *)

\* The byte_offset of the constructor exists and is what its loop computes
\* (lines 27-51).
LEMMA ByteOffsetDef ==
  ASSUME NEW sizes \in Seq(Nat)
  PROVE  /\ ByteOffset(sizes) \in [0 .. Len(sizes) -> Nat]
         /\ ByteOffset(sizes)[0] = 0
         /\ \A n \in 1 .. Len(sizes) :
              ByteOffset(sizes)[n] = ByteOffset(sizes)[n - 1] + sizes[n]
<1> DEFINE Def(g, n) == g = [m \in 0 .. n |-> IF m = 0 THEN 0 ELSE g[m - 1] + sizes[m]]
           o == ByteOffset(sizes)
           E == {n \in Nat : \E g : Def(g, n)}
           T == {n \in Nat : n <= Len(sizes) => o[n] \in Nat}
<1>1. 0 \in E
  <2> DEFINE g == [m \in 0 .. 0 |-> 0]
  <2>1. Def(g, 0)
    OBVIOUS
  <2> QED
    BY <2>1
<1>2. ASSUME NEW n \in Nat, n \in E PROVE n + 1 \in E
  <2>1. PICK g : Def(g, n)
    BY <1>2
  <2> DEFINE h == [m \in 0 .. n + 1 |-> IF m = n + 1 THEN g[n] + sizes[n + 1] ELSE g[m]]
  <2>2. \A m \in 0 .. n + 1 : h[m] = IF m = 0 THEN 0 ELSE h[m - 1] + sizes[m]
    BY <2>1
  <2>3. Def(h, n + 1)
    BY <2>2
  <2>4. n + 1 \in Nat
    OBVIOUS
  <2> QED
    BY <2>3, <2>4
<1>3. Def(o, Len(sizes))
  <2>1. Nat \subseteq E
    <3> HIDE DEF E
    <3> QED BY <1>1, <1>2, SetInduction
  <2>2. Len(sizes) \in E
    <3>1. Len(sizes) \in Nat
      OBVIOUS
    <3> HIDE DEF E
    <3> QED BY <2>1, <3>1
  <2>3. \E g : Def(g, Len(sizes))
    BY <2>2
  <2> QED
    BY <2>3 DEF ByteOffset
<1> HIDE DEF o
<1>4. /\ DOMAIN o = 0 .. Len(sizes) /\ o = [n \in DOMAIN o |-> o[n]]
      /\ o[0] = 0
      /\ \A n \in 1 .. Len(sizes) : o[n] = o[n - 1] + sizes[n]
  BY <1>3
<1>5. \A n \in 0 .. Len(sizes) : o[n] \in Nat
  <2>1. 0 \in T
    BY <1>4
  <2>2. ASSUME NEW n \in Nat, n \in T PROVE n + 1 \in T
    <3>1. CASE n + 1 <= Len(sizes)
      <4>1. n + 1 \in 1 .. Len(sizes) /\ sizes[n + 1] \in Nat /\ o[n] \in Nat /\ n + 1 - 1 = n
        BY <2>2, <3>1
      <4> QED BY <1>4, <4>1
    <3> QED BY <3>1
  <2>3. Nat \subseteq T
    <3> HIDE DEF T
    <3> QED BY <2>1, <2>2, SetInduction
  <2> QED
    BY <2>3
<1> QED
  BY <1>4, <1>5 DEF o

\* The files follow one another: a later file starts where the one before it
\* ends or behind it (lines 27-51).
LEMMA ByteOffsetGrows ==
  ASSUME NEW sizes \in Seq(Nat), NEW m \in 0 .. Len(sizes), NEW n \in 0 .. Len(sizes), m <= n
  PROVE  ByteOffset(sizes)[m] <= ByteOffset(sizes)[n]
<1> DEFINE o == ByteOffset(sizes)
           T == {k \in Nat : m + k <= Len(sizes) => o[m] <= o[m + k]}
<1>0. /\ \A k \in 0 .. Len(sizes) : o[k] \in Nat
      /\ \A k \in 1 .. Len(sizes) : o[k - 1] <= o[k]
  <2>1. o \in [0 .. Len(sizes) -> Nat] /\ \A k \in 1 .. Len(sizes) : o[k] = o[k - 1] + sizes[k]
    BY ByteOffsetDef
  <2> HIDE DEF o
  <2>2. ASSUME NEW k \in 1 .. Len(sizes) PROVE o[k - 1] <= o[k]
    <3>1. k \in 0 .. Len(sizes) /\ k - 1 \in 0 .. Len(sizes) /\ sizes[k] \in Nat
      OBVIOUS
    <3>2. o[k] \in Nat /\ o[k - 1] \in Nat /\ o[k] = o[k - 1] + sizes[k]
      BY <2>1, <3>1
    <3> QED BY <3>1, <3>2
  <2> QED BY <2>1, <2>2
<1> HIDE DEF o
<1>1. 0 \in T
  BY <1>0
<1>2. ASSUME NEW k \in Nat, k \in T PROVE k + 1 \in T
  <2>1. CASE m + k + 1 <= Len(sizes)
    BY <1>0, <1>2, <2>1
  <2> QED BY <2>1
<1>3. n - m \in T
  <2>1. Nat \subseteq T
    <3> HIDE DEF T
    <3> QED BY <1>1, <1>2, SetInduction
  <2>2. n - m \in Nat
    OBVIOUS
  <2> HIDE DEF T
  <2> QED BY <2>1, <2>2
<1>4. o[m] <= o[n]
  BY <1>3
<1> QED
  BY <1>4 DEF o

\* Every byte of the stream lies in a file (lines 66-76).
LEMMA EveryByteInFile ==
  ASSUME NEW sizes \in Seq(Nat), NEW p \in 0 .. ByteOffset(sizes)[Len(sizes)] - 1
  PROVE  \E f \in 1 .. Len(sizes) : ByteOffset(sizes)[f - 1] <= p /\ p < ByteOffset(sizes)[f]
<1> DEFINE o == ByteOffset(sizes)
           Found == \E f \in 1 .. Len(sizes) : o[f - 1] <= p /\ p < o[f]
           T == {n \in Nat : n <= Len(sizes) /\ p < o[n] => Found}
<1>0. o \in [0 .. Len(sizes) -> Nat] /\ o[0] = 0
  BY ByteOffsetDef
<1> HIDE DEF o
<1>1. 0 \in T
  BY <1>0
<1>2. ASSUME NEW n \in Nat, n \in T PROVE n + 1 \in T
  <2>1. CASE n + 1 <= Len(sizes) /\ p < o[n + 1] /\ p < o[n]
    BY <1>2, <2>1
  <2>2. CASE n + 1 <= Len(sizes) /\ p < o[n + 1] /\ ~ p < o[n]
    <3>1. n + 1 \in 1 .. Len(sizes) /\ o[n + 1 - 1] <= p
      BY <1>0, <2>2
    <3>2. Found
      BY <2>2, <3>1
    <3> QED BY <3>2
  <2> QED BY <2>1, <2>2
<1>3. Len(sizes) \in T
  <2>1. Nat \subseteq T
    <3> HIDE DEF T
    <3> QED BY <1>1, <1>2, SetInduction
  <2>2. Len(sizes) \in Nat
    OBVIOUS
  <2> HIDE DEF T
  <2> QED BY <2>1, <2>2
<1>4. p < o[Len(sizes)]
  BY <1>0 DEF o
<1> QED
  BY <1>3, <1>4 DEF o

----------------------------------------------------------------------------
(* The pieces of the stream                                                *)

\* Quotient and remainder.
LEMMA DivMod ==
  ASSUME NEW a \in Nat, NEW s \in Nat \ {0}
  PROVE  a \div s \in Nat /\ a % s \in 0 .. s - 1 /\ a = (a \div s) * s + (a % s)
OBVIOUS

\* Multiples of a number lie at least that number apart.
LEMMA Multiples ==
  ASSUME NEW s \in Nat \ {0}, NEW i \in Nat, NEW j \in Nat, i < j
  PROVE  i * s \in Nat /\ j * s \in Nat /\ i * s + s <= j * s
OBVIOUS

\* A quotient is known by a remainder below the divisor.
LEMMA QuotientIs ==
  ASSUME NEW s \in Nat \ {0}, NEW q \in Nat, NEW r \in 0 .. s - 1
  PROVE  (q * s + r) \div s = q
<1> DEFINE a == q * s + r
           d == a \div s
<1>1. a \in Nat
  BY Multiples
<1>4. d \in Nat /\ a % s \in 0 .. s - 1 /\ a = d * s + (a % s)
  BY <1>1, DivMod
<1>2. ~ d < q
  BY <1>4, Multiples
<1>3. ~ q < d
  BY <1>4, Multiples
<1> QED
  BY <1>4, <1>2, <1>3

\* Where the files lie (lines 27-51 and 67).
LEMMA FilesLie ==
  ASSUME files \in Seq(Nat)
  PROVE  /\ Files = 1 .. Len(files) /\ Len(files) \in Nat
         /\ DownloadSize \in Nat /\ FileStart(Len(files) + 1) = DownloadSize
         /\ FileStart(1) = 0
         /\ \A f \in 1 .. Len(files) + 1 : FileStart(f) \in Nat /\ FileStart(f) <= DownloadSize
         /\ \A f \in Files :
              /\ files[f] \in Nat /\ FileEnd(f) \in Nat
              /\ FileEnd(f) = FileStart(f) + files[f] /\ FileEnd(f) = FileStart(f + 1)
         /\ \A f, g \in Files : f < g => FileEnd(f) <= FileStart(g)
         /\ \A p \in 0 .. DownloadSize - 1 :
              \E f \in Files : FileStart(f) <= p /\ p < FileEnd(f)
<1> DEFINE o == ByteOffset(files)
           L == Len(files)
<1>1. /\ o \in [0 .. L -> Nat] /\ o[0] = 0 /\ L \in Nat
      /\ \A n \in 1 .. L : o[n] = o[n - 1] + files[n]
  BY ByteOffsetDef
<1>2. \A m, n \in 0 .. L : m <= n => o[m] <= o[n]
  BY ByteOffsetGrows
<1>3. \A p \in 0 .. o[L] - 1 : \E f \in 1 .. L : o[f - 1] <= p /\ p < o[f]
  BY EveryByteInFile
<1>4. Files = 1 .. L /\ \A f \in 1 .. L : files[f] \in Nat
  BY DEF Files
<1>5. DownloadSize = o[L] /\ \A f : FileStart(f) = o[f - 1] /\ FileEnd(f) = o[f - 1] + files[f]
  BY DEF DownloadSize, FileStart, FileEnd
<1> HIDE DEF o, L
<1>6. ASSUME NEW f \in 1 .. L + 1
      PROVE  FileStart(f) \in Nat /\ FileStart(f) <= DownloadSize
  <2>1. f - 1 \in 0 .. L /\ L \in 0 .. L /\ f - 1 <= L
    BY <1>1
  <2>2. o[f - 1] \in Nat /\ o[f - 1] <= o[L]
    BY <1>1, <1>2, <2>1
  <2> QED BY <1>5, <2>2
<1>7. DownloadSize \in Nat /\ FileStart(L + 1) = DownloadSize /\ FileStart(1) = 0
  BY <1>1, <1>5
<1>8. ASSUME NEW f \in 1 .. L
      PROVE  /\ FileEnd(f) \in Nat /\ FileEnd(f) = FileStart(f) + files[f]
             /\ FileEnd(f) = FileStart(f + 1) /\ FileEnd(f) = o[f]
  <2>1. f \in 0 .. L /\ f - 1 \in 0 .. L /\ f + 1 - 1 = f
    BY <1>1
  <2>2. o[f] \in Nat /\ o[f - 1] \in Nat /\ o[f] = o[f - 1] + files[f] /\ files[f] \in Nat
    BY <1>1, <1>4, <2>1
  <2>3. FileStart(f) = o[f - 1] /\ FileStart(f + 1) = o[f] /\ FileEnd(f) = o[f - 1] + files[f]
    BY <1>5, <2>1
  <2> QED BY <2>2, <2>3
<1>9. ASSUME NEW f \in 1 .. L, NEW g \in 1 .. L, f < g
      PROVE  FileEnd(f) <= FileStart(g)
  <2>1. f \in 0 .. L /\ g - 1 \in 0 .. L /\ f <= g - 1
    BY <1>1, <1>9
  <2> QED BY <2>1, <1>2, <1>5, <1>8
<1>10. ASSUME NEW p \in 0 .. DownloadSize - 1
       PROVE  \E f \in 1 .. L : FileStart(f) <= p /\ p < FileEnd(f)
  BY <1>3, <1>5, <1>8
<1> QED
  BY <1>1, <1>4, <1>6, <1>7, <1>8, <1>9, <1>10 DEF L

\* A position lies in one file only.
LEMMA OneFile ==
  ASSUME files \in Seq(Nat), NEW f \in Files, NEW g \in Files, NEW p \in Int,
         FileStart(f) <= p, p < FileEnd(f), FileStart(g) <= p, p < FileEnd(g)
  PROVE  f = g
<1>1. /\ Files \subseteq Nat
      /\ \A h \in Files : FileStart(h) \in Nat /\ FileEnd(h) \in Nat
      /\ \A h, k \in Files : h < k => FileEnd(h) <= FileStart(k)
  <2>1. \A h, k \in Files : h < k => FileEnd(h) <= FileStart(k)
    BY FilesLie
  <2>2. Files = 1 .. Len(files) /\ Len(files) \in Nat
    BY FilesLie
  <2>3. ASSUME NEW h \in Files PROVE FileStart(h) \in Nat /\ FileEnd(h) \in Nat
    <3>1. h \in 1 .. Len(files) + 1
      BY <2>2
    <3> QED BY <3>1, FilesLie
  <2> QED BY <2>1, <2>2, <2>3
<1>2. ~ f < g /\ ~ g < f
  BY <1>1
<1> QED
  BY <1>1, <1>2

\* The pieces lie in the stream one behind the other, the short last one
\* included, and every byte is in a piece (torrent_meta.rs, lines 98-126).
LEMMA PiecesLie ==
  ASSUME files \in Seq(Nat), std_piece_len \in Nat \ {0}
  PROVE  /\ \A i \in Pieces :
              /\ i \in Nat /\ i * std_piece_len \in Nat
              /\ PieceLength(i) \in 1 .. std_piece_len
              /\ i * std_piece_len + PieceLength(i) <= DownloadSize
         /\ \A p \in 0 .. DownloadSize - 1 :
              \E i \in Pieces : p \in i * std_piece_len .. i * std_piece_len + PieceLength(i) - 1
<1> DEFINE D == DownloadSize
           s == std_piece_len
           q == D \div s
           r == D % s
<1>1. D \in Nat /\ s \in Nat \ {0}
  BY FilesLie
<1>2. q \in Nat /\ r \in 0 .. s - 1 /\ D = q * s + r
  <2> HIDE DEF D, s
  <2> QED BY <1>1, DivMod
<1>3. NumberOfPieces = IF r = 0 THEN q ELSE q + 1
  <2>0. NumberOfPieces = (D + s - 1) \div s
    BY DEF NumberOfPieces
  <2> HIDE DEF D, s, q, r
  <2>1. CASE r = 0
    <3>1. D + s - 1 = q * s + (s - 1) /\ s - 1 \in 0 .. s - 1
      BY <1>1, <1>2, <2>1
    <3> QED BY <1>1, <1>2, <2>0, <2>1, <3>1, QuotientIs
  <2>2. CASE r # 0
    <3>1. D + s - 1 = (q + 1) * s + (r - 1) /\ r - 1 \in 0 .. s - 1 /\ q + 1 \in Nat
      BY <1>1, <1>2, <2>2
    <3> QED BY <1>1, <1>2, <2>0, <2>2, <3>1, QuotientIs
  <2> QED BY <2>1, <2>2
<1>4. \A i : PieceLength(i) = IF i = NumberOfPieces - 1 /\ r # 0 THEN r ELSE s
  BY DEF PieceLength
<1>5. Pieces = 0 .. NumberOfPieces - 1
  BY DEF Pieces
<1> HIDE DEF D, s, q, r
<1>6. ASSUME NEW i \in Pieces
      PROVE  /\ i \in Nat /\ i * s \in Nat /\ PieceLength(i) \in 1 .. s
             /\ i * s + PieceLength(i) <= D
  <2>1. i \in Nat /\ i <= q /\ (r = 0 => i < q) /\ (i = q => i = NumberOfPieces - 1)
    BY <1>2, <1>3, <1>5
  <2>2. CASE i < q
    <3>1. i * s \in Nat /\ q * s \in Nat /\ i * s + s <= q * s
      BY <1>1, <1>2, <2>1, <2>2, Multiples
    <3>2. PieceLength(i) = s
      BY <1>2, <1>3, <1>4, <2>1, <2>2
    <3> QED BY <1>1, <1>2, <2>1, <3>1, <3>2
  <2>3. CASE i = q
    <3>1. r # 0 /\ PieceLength(i) = r
      BY <1>2, <1>4, <2>1, <2>3
    <3>2. q * s \in Nat
      BY <1>1, <1>2
    <3> QED BY <1>1, <1>2, <2>1, <2>3, <3>1, <3>2
  <2> QED BY <1>2, <2>1, <2>2, <2>3
<1>7. ASSUME NEW p \in 0 .. D - 1
      PROVE  \E i \in Pieces : p \in i * s .. i * s + PieceLength(i) - 1
  <2> DEFINE i == p \div s
             b == p % s
  <2>0. p \in Nat
    BY <1>1
  <2>1. i \in Nat /\ b \in 0 .. s - 1 /\ p = i * s + b /\ p \in Nat
    BY <1>1, <2>0, DivMod
  <2> HIDE DEF i, b
  <2>2. i * s \in Nat /\ q * s \in Nat
    BY <1>1, <1>2, <2>1
  <2>3. ~ q < i
    <3>1. SUFFICES ASSUME q < i PROVE FALSE
      OBVIOUS
    <3>2. q * s + s <= i * s
      BY <1>1, <1>2, <2>1, <3>1, Multiples
    <3> QED BY <1>1, <1>2, <2>1, <2>2, <3>2
  <2>4. CASE i < q
    <3>1. i \in Pieces /\ PieceLength(i) = s
      BY <1>2, <1>3, <1>4, <1>5, <2>1, <2>4
    <3> QED BY <1>1, <2>1, <2>2, <3>1
  <2>5. CASE i = q
    <3>1. b < r
      BY <1>1, <1>2, <2>1, <2>2, <2>5
    <3>2. i \in Pieces /\ PieceLength(i) = r
      BY <1>2, <1>3, <1>4, <1>5, <2>1, <2>5, <3>1
    <3> QED BY <1>1, <1>2, <2>1, <2>2, <3>1, <3>2
  <2> QED BY <1>2, <2>1, <2>3, <2>4, <2>5
<1> QED
  BY <1>6, <1>7 DEF D, s

----------------------------------------------------------------------------
(* The inductive invariant                                                 *)

\* Where the job stands in the stream: at its start, at the start of the file
\* that is next, or at its end.
Position ==
  IF FileStart(job.file) <= job.from THEN job.from
  ELSE IF FileStart(job.file) < job.to THEN FileStart(job.file)
  ELSE job.to

Jobs ==
  [kind : {"flush", "read"}, piece : Nat, from : Nat, to : Nat,
   pending : Nat, file : Nat \ {0}, data : Seq(Int)]

\* The range lies in its piece (a flush takes the whole of it, a read only of
\* one that is stored), and what is pending is what lies behind the position.
RunningJob ==
  /\ job \in Jobs
  /\ job.piece \in Pieces
  /\ job.file <= Len(files) + 1
  /\ job.piece * std_piece_len <= job.from
  /\ job.from < job.to
  /\ job.to <= job.piece * std_piece_len + PieceLength(job.piece)
  /\ job.kind = "flush" =>
       /\ job.from = job.piece * std_piece_len
       /\ job.to = job.from + PieceLength(job.piece)
  /\ job.kind = "read" => job.piece \in stored
  /\ job.pending = job.to - Position

\* In the files and in their buffers is the byte that belongs there.
InPlace(contents) ==
  /\ DOMAIN contents = Files
  /\ \A f \in Files : \A x \in DOMAIN contents[f] :
       x \in 0 .. files[f] - 1 /\ contents[f][x] = FileStart(f) + x

Shape ==
  /\ files \in Layouts /\ std_piece_len \in PieceLens
  /\ job = NoJob \/ RunningJob
  /\ InPlace(disk) /\ InPlace(buffered)
  /\ write_err \subseteq Files
  /\ stored \subseteq Pieces
  /\ alive \in BOOLEAN

IsWritten(g) == \E f \in Files : g - FileStart(f) \in Covered(f)

\* As long as no buffered write has failed: stored pieces are written, a
\* flush has written what lies before its position, and a read has it.
Complete ==
  write_err = {} =>
    /\ \A i \in stored : IsStored(i)
    /\ job.kind = "flush" => \A g \in job.from .. job.to - job.pending - 1 : IsWritten(g)
    /\ job.kind = "read" =>
         job.data = [k \in 1 .. job.to - job.pending - job.from |-> job.from + k - 1]
    /\ answer.data = answer.of

Inv == Shape /\ Complete

----------------------------------------------------------------------------
(* One file of the loop                                                    *)

LEMMA Sizes ==
  ASSUME Shape
  PROVE  files \in Seq(Nat) /\ std_piece_len \in Nat \ {0}
BY DiskManagerAssumptions DEF Shape

\* No step changes where files and pieces lie.
LEMMA Unmoved ==
  ASSUME files' = files, std_piece_len' = std_piece_len
  PROVE  /\ Files' = Files /\ Pieces' = Pieces /\ DownloadSize' = DownloadSize
         /\ \A f : FileStart(f)' = FileStart(f)
         /\ \A f : FileEnd(f)' = FileEnd(f)
         /\ \A i : PieceLength(i)' = PieceLength(i)
<1>1. Files' = Files /\ DownloadSize' = DownloadSize
  BY DEF Files, DownloadSize
<1>2. ASSUME NEW f PROVE FileStart(f)' = FileStart(f) /\ FileEnd(f)' = FileEnd(f)
  BY DEF FileStart, FileEnd
<1>3. NumberOfPieces' = NumberOfPieces
  BY <1>1 DEF NumberOfPieces
<1>4. ASSUME NEW i PROVE PieceLength(i)' = PieceLength(i)
  BY <1>1, <1>3 DEF PieceLength
<1>5. Pieces' = Pieces
  BY <1>3 DEF Pieces
<1> QED
  BY <1>1, <1>2, <1>4, <1>5

\* The range of a job lies in the stream.
LEMMA JobInStream ==
  ASSUME files \in Seq(Nat), std_piece_len \in Nat \ {0}, RunningJob
  PROVE  /\ job.from \in Nat /\ job.to \in Nat /\ job.from < job.to /\ job.to <= DownloadSize
         /\ job.to - job.from <= std_piece_len
         /\ job.file \in Nat \ {0} /\ job.file <= Len(files) + 1
         /\ job.pending \in Nat /\ Position \in Nat
         /\ job.from <= Position /\ Position <= job.to /\ job.pending = job.to - Position
<1>1. /\ job \in Jobs /\ job.piece \in Pieces /\ job.file <= Len(files) + 1
      /\ job.piece * std_piece_len <= job.from /\ job.from < job.to
      /\ job.to <= job.piece * std_piece_len + PieceLength(job.piece)
      /\ job.pending = job.to - Position
  BY DEF RunningJob
<1>2. job.from \in Nat /\ job.to \in Nat /\ job.file \in Nat \ {0} /\ job.pending \in Nat
  BY <1>1 DEF Jobs
<1>3. /\ job.piece * std_piece_len \in Nat /\ PieceLength(job.piece) \in 1 .. std_piece_len
      /\ job.piece * std_piece_len + PieceLength(job.piece) <= DownloadSize
  BY <1>1, PiecesLie
<1>4. job.file \in 1 .. Len(files) + 1
  BY <1>1, <1>2
<1>5. FileStart(job.file) \in Nat /\ DownloadSize \in Nat
  BY <1>4, FilesLie
<1>6. Position \in Nat /\ job.from <= Position /\ Position <= job.to
  BY <1>1, <1>2, <1>5 DEF Position
<1> QED
  BY <1>1, <1>2, <1>3, <1>5, <1>6

\* When the loop ends, nothing is pending (lines 68-76).
LEMMA NothingPending ==
  ASSUME files \in Seq(Nat), std_piece_len \in Nat \ {0}, RunningJob, AtEnd
  PROVE  job.pending = 0
<1>1. /\ job.from \in Nat /\ job.to \in Nat /\ job.from < job.to /\ job.to <= DownloadSize
      /\ job.file \in Nat \ {0} /\ job.file <= Len(files) + 1
      /\ job.pending \in Nat /\ job.pending = job.to - Position
  BY JobInStream
<1>2. /\ Files = 1 .. Len(files) /\ Len(files) \in Nat /\ DownloadSize \in Nat
      /\ FileStart(Len(files) + 1) = DownloadSize
      /\ \A f \in 1 .. Len(files) + 1 : FileStart(f) \in Nat
  BY FilesLie
<1>3. SUFFICES ASSUME job.pending > 0 PROVE FALSE
  BY <1>1
<1>4. CASE job.file \in Files
  <2>1. job.to <= FileStart(job.file)
    BY <1>3, <1>4 DEF AtEnd
  <2>2. FileStart(job.file) \in Nat
    BY <1>2, <1>4
  <2> QED BY <1>1, <1>3, <2>1, <2>2 DEF Position
<1>5. CASE job.file \notin Files
  <2>1. job.file = Len(files) + 1
    BY <1>1, <1>2, <1>5
  <2> QED BY <1>1, <1>2, <1>3, <2>1 DEF Position
<1> QED
  BY <1>4, <1>5

\* What is written to or read from a file lies in the file, begins at the
\* position and ends where the next file begins or with the range.
LEMMA BlockInFile ==
  ASSUME files \in Seq(Nat), std_piece_len \in Nat \ {0}, RunningJob, ~AtEnd, ~SkipsFile
  PROVE  /\ job.file \in Files
         /\ OffsetInFile \in Nat /\ BytesInFile \in Nat
         /\ OffsetInFile + BytesInFile <= files[job.file]
         /\ FileStart(job.file) \in Nat
         /\ FileStart(job.file) + OffsetInFile = Position
         /\ job.from < FileEnd(job.file) /\ FileStart(job.file) < job.to
         /\ BytesInFile <= job.pending
         /\ Position + BytesInFile = IF FileEnd(job.file) < job.to THEN FileEnd(job.file) ELSE job.to
<1>1. /\ job.from \in Nat /\ job.to \in Nat /\ job.from < job.to
      /\ job.pending \in Nat /\ Position \in Nat /\ job.pending = job.to - Position
  BY JobInStream
<1>2. job.file \in Files /\ job.pending > 0
  BY DEF AtEnd
<1>3. /\ FileStart(job.file) \in Nat /\ FileEnd(job.file) \in Nat /\ files[job.file] \in Nat
      /\ FileEnd(job.file) = FileStart(job.file) + files[job.file]
  <2>1. job.file \in 1 .. Len(files) + 1
    BY <1>2, FilesLie
  <2> QED BY <1>2, <2>1, FilesLie
<1>4. job.from < FileEnd(job.file)
  BY <1>1, <1>3 DEF SkipsFile
<1>5. FileStart(job.file) < job.to
  BY <1>1, <1>2, <1>3, <1>4 DEF AtEnd
<1>6. OffsetInFile \in Nat /\ FileStart(job.file) + OffsetInFile = Position
  <2>1. CASE job.from < FileStart(job.file)
    <3>1. OffsetInFile = 0 /\ Position = FileStart(job.file)
      BY <1>1, <1>3, <1>5, <2>1 DEF OffsetInFile, Position
    <3> QED BY <1>3, <3>1
  <2>2. CASE FileStart(job.file) <= job.from
    <3>1. OffsetInFile = job.from - FileStart(job.file) /\ Position = job.from
      BY <1>1, <1>3, <2>2 DEF OffsetInFile, Position
    <3>2. job.from \in Nat /\ FileStart(job.file) \in Nat
      BY <1>1, <1>3
    <3> QED BY <2>2, <3>1, <3>2
  <2>3. job.from < FileStart(job.file) \/ FileStart(job.file) <= job.from
    BY <1>1, <1>3
  <2> QED BY <2>1, <2>2, <2>3
<1>7. OffsetInFile <= files[job.file]
  BY <1>1, <1>3, <1>4, <1>5, <1>6 DEF OffsetInFile
<1>8. BytesInFile = IF job.pending > FileEnd(job.file) - Position
                      THEN FileEnd(job.file) - Position ELSE job.pending
  BY <1>6 DEF BytesInFile
<1>9. Position <= FileEnd(job.file)
  BY <1>3, <1>6, <1>7
<1>10. BytesInFile \in Nat /\ BytesInFile <= job.pending
  BY <1>1, <1>3, <1>8, <1>9
<1>11. BytesInFile <= FileEnd(job.file) - Position
  BY <1>1, <1>3, <1>8, <1>9
<1>12. OffsetInFile + BytesInFile <= files[job.file]
  BY <1>3, <1>6, <1>10, <1>11
<1>13. Position + BytesInFile = IF FileEnd(job.file) < job.to THEN FileEnd(job.file) ELSE job.to
  BY <1>1, <1>3, <1>8, <1>9
<1> QED
  BY <1>2, <1>3, <1>4, <1>5, <1>6, <1>10, <1>12, <1>13

\* The job goes on to the next file, behind the bytes of this one (line 107).
LEMMA GoesOn ==
  ASSUME files \in Seq(Nat), std_piece_len \in Nat \ {0}, RunningJob, ~AtEnd, ~SkipsFile,
         files' = files, std_piece_len' = std_piece_len, stored' = stored,
         job' \in Jobs, job'.kind = job.kind, job'.piece = job.piece,
         job'.from = job.from, job'.to = job.to,
         job'.file = job.file + 1, job'.pending = job.pending - BytesInFile
  PROVE  RunningJob'
<1>1. /\ job.from \in Nat /\ job.to \in Nat /\ job.from < job.to
      /\ job.file \in Nat \ {0} /\ job.file <= Len(files) + 1
      /\ job.pending \in Nat /\ Position \in Nat /\ job.pending = job.to - Position
  BY JobInStream
<1>2. /\ job.file \in Files /\ BytesInFile \in Nat /\ job.from < FileEnd(job.file)
      /\ Position + BytesInFile = IF FileEnd(job.file) < job.to THEN FileEnd(job.file) ELSE job.to
  BY BlockInFile
<1>3. /\ job.file + 1 <= Len(files) + 1
      /\ FileEnd(job.file) \in Nat /\ FileEnd(job.file) = FileStart(job.file + 1)
  <2>1. Files = 1 .. Len(files) /\ Len(files) \in Nat
    BY FilesLie
  <2> QED BY <1>2, <2>1, FilesLie
<1>4. FileStart(job.file)' = FileEnd(job.file)
  <2>1. FileStart(job.file)' = FileStart(job.file + 1)
    BY DEF FileStart
  <2> QED BY <1>3, <2>1
<1>5. Position' = Position + BytesInFile
  BY <1>1, <1>2, <1>3, <1>4 DEF Position
<1>6. job'.pending = job'.to - Position'
  BY <1>1, <1>2, <1>5
<1> QED
  BY <1>3, <1>6, Unmoved DEF RunningJob

\* A file before the range leaves the job where it was (lines 71-73).
LEMMA GoesPast ==
  ASSUME files \in Seq(Nat), std_piece_len \in Nat \ {0}, RunningJob, SkipFile
  PROVE  RunningJob'
<1>0. /\ ~AtEnd /\ job.from >= FileEnd(job.file) /\ job' = [job EXCEPT !.file = @ + 1]
      /\ files' = files /\ std_piece_len' = std_piece_len /\ stored' = stored
  BY DEF SkipFile, SkipsFile
<1>1. /\ job.from \in Nat /\ job.to \in Nat /\ job.from < job.to
      /\ job.file \in Nat \ {0} /\ job.file <= Len(files) + 1
      /\ job.pending = job.to - Position /\ job \in Jobs
  BY JobInStream DEF RunningJob
<1>2. job.file \in Files
  BY <1>0 DEF AtEnd
<1>3. /\ job.file + 1 <= Len(files) + 1
      /\ FileEnd(job.file) \in Nat /\ FileEnd(job.file) = FileStart(job.file + 1)
      /\ FileStart(job.file) <= FileEnd(job.file)
  <2>1. Files = 1 .. Len(files) /\ Len(files) \in Nat
    BY FilesLie
  <2>2. job.file \in 1 .. Len(files) + 1
    BY <1>2, <2>1
  <2>3. /\ FileStart(job.file) \in Nat /\ files[job.file] \in Nat
        /\ FileEnd(job.file) = FileStart(job.file) + files[job.file]
        /\ FileEnd(job.file) \in Nat /\ FileEnd(job.file) = FileStart(job.file + 1)
    BY <1>2, <2>2, FilesLie
  <2> QED BY <1>2, <2>1, <2>3
<1>4. /\ job' \in Jobs /\ job'.kind = job.kind /\ job'.piece = job.piece
      /\ job'.from = job.from /\ job'.to = job.to /\ job'.pending = job.pending
      /\ job'.file = job.file + 1
  <2>1. job.file + 1 \in Nat \ {0}
    BY <1>1
  <2>2. job' \in Jobs
    BY <1>0, <1>1, <2>1 DEF Jobs
  <2> QED BY <1>0, <1>1, <2>2 DEF Jobs
<1>5. FileStart(job.file)' = FileEnd(job.file)
  <2>1. FileStart(job.file)' = FileStart(job.file + 1)
    BY <1>0, <1>4 DEF FileStart
  <2> QED BY <1>3, <2>1
<1>6. Position' = job.from
  BY <1>0, <1>1, <1>4, <1>5 DEF Position
<1>7. Position = job.from
  BY <1>0, <1>1, <1>2, <1>3, FilesLie DEF Position
<1> QED
  BY <1>0, <1>1, <1>3, <1>4, <1>6, <1>7, Unmoved DEF RunningJob

\* A message for a range of a piece starts a job (lines 63-65 and 114-117).
LEMMA Starts ==
  ASSUME files \in Seq(Nat), std_piece_len \in Nat \ {0},
         NEW kind \in {"flush", "read"}, NEW piece \in Pieces, NEW from \in Nat,
         NEW length \in Nat \ {0},
         piece * std_piece_len <= from,
         from + length <= piece * std_piece_len + PieceLength(piece),
         kind = "flush" => from = piece * std_piece_len /\ length = PieceLength(piece),
         kind = "read" => piece \in stored,
         Start(kind, piece, from, length)
  PROVE  RunningJob'
<1>1. /\ files' = files /\ std_piece_len' = std_piece_len /\ stored' = stored
      /\ job' = [kind |-> kind, piece |-> piece, from |-> from, to |-> from + length,
                 pending |-> length, file |-> 1, data |-> << >>]
  BY DEF Start
<1>2. piece \in Nat /\ FileStart(1) = 0 /\ Len(files) \in Nat
  BY PiecesLie, FilesLie
<1>3. job' \in Jobs
  BY <1>1, <1>2 DEF Jobs
<1>4. FileStart(job.file)' = 0
  BY <1>1, <1>2 DEF FileStart
<1>5. Position' = from
  BY <1>1, <1>4 DEF Position
<1> QED
  BY <1>1, <1>2, <1>3, <1>5, Unmoved DEF RunningJob

\* A write puts into its file the bytes that belong there (lines 77-107).
LEMMA Writes ==
  ASSUME Shape, WriteFile
  PROVE  /\ RunningJob /\ RunningJob'
         /\ job.file \in Files
         /\ DOMAIN buffered'[job.file] = OffsetInFile .. OffsetInFile + BytesInFile - 1
         /\ \A x \in DOMAIN buffered'[job.file] :
              x \in 0 .. files[job.file] - 1 /\ buffered'[job.file][x] = FileStart(job.file) + x
<1>1. /\ job.kind = "flush" /\ ~AtEnd /\ ~SkipsFile
      /\ buffered' = [buffered EXCEPT ![job.file] =
           [x \in OffsetInFile .. OffsetInFile + BytesInFile - 1 |->
              job.piece * std_piece_len + OffsetInPiece + (x - OffsetInFile)]]
      /\ job' = NextFile
      /\ files' = files /\ std_piece_len' = std_piece_len /\ stored' = stored
  BY DEF WriteFile
<1>2. RunningJob /\ files \in Seq(Nat) /\ std_piece_len \in Nat \ {0}
  BY <1>1, Sizes DEF Shape, NoJob
<1>3. /\ job.file \in Files
      /\ OffsetInFile \in Nat /\ BytesInFile \in Nat
      /\ OffsetInFile + BytesInFile <= files[job.file]
      /\ FileStart(job.file) \in Nat
      /\ FileStart(job.file) + OffsetInFile = Position
      /\ BytesInFile <= job.pending
  BY <1>1, <1>2, BlockInFile
<1>4. /\ job.from \in Nat /\ job.to \in Nat /\ job.file \in Nat \ {0}
      /\ job.pending \in Nat /\ Position \in Nat /\ job.pending = job.to - Position
  BY <1>2, JobInStream
<1>5. /\ job \in Jobs /\ job.piece \in Pieces
      /\ job.from = job.piece * std_piece_len
      /\ job.to = job.from + PieceLength(job.piece)
  BY <1>1, <1>2 DEF RunningJob
<1>6. RunningJob'
  <2>1. job.file + 1 \in Nat \ {0} /\ job.pending - BytesInFile \in Nat
    BY <1>3, <1>4
  <2>2. job' \in Jobs
    BY <1>1, <1>5, <2>1 DEF Jobs, NextFile
  <2>3. /\ job'.kind = job.kind /\ job'.piece = job.piece
        /\ job'.from = job.from /\ job'.to = job.to
        /\ job'.file = job.file + 1 /\ job'.pending = job.pending - BytesInFile
    BY <1>1, <1>5 DEF Jobs, NextFile
  <2> QED BY <1>1, <1>2, <2>2, <2>3, GoesOn
<1>7. buffered'[job.file] =
        [x \in OffsetInFile .. OffsetInFile + BytesInFile - 1 |->
           job.piece * std_piece_len + OffsetInPiece + (x - OffsetInFile)]
  BY <1>1, <1>3 DEF Shape, InPlace
<1>8. /\ PieceLength(job.piece) \in Nat
      /\ OffsetInPiece = PieceLength(job.piece) - job.pending
  BY <1>2, <1>5, PiecesLie DEF OffsetInPiece
<1>9. job.piece * std_piece_len + OffsetInPiece = Position
  BY <1>4, <1>5, <1>8
<1>10. ASSUME NEW x \in OffsetInFile .. OffsetInFile + BytesInFile - 1
       PROVE  x \in 0 .. files[job.file] - 1 /\ buffered'[job.file][x] = FileStart(job.file) + x
  <2>1. files[job.file] \in Nat /\ x \in Int
    BY <1>2, <1>3, FilesLie
  <2>2. x \in 0 .. files[job.file] - 1
    BY <1>3, <2>1
  <2>3. buffered'[job.file][x] = Position + (x - OffsetInFile)
    BY <1>7, <1>9
  <2> QED BY <1>3, <1>4, <2>1, <2>2, <2>3
<1> QED
  BY <1>2, <1>3, <1>6, <1>7, <1>10

\* A read moves the job on as a write does (lines 123-164).
LEMMA Reads ==
  ASSUME Shape, ReadFile
  PROVE  /\ RunningJob /\ RunningJob'
         /\ job'.kind = "read" /\ job'.from = job.from /\ job'.to = job.to
         /\ job'.pending = job.pending - BytesInFile
         /\ job'.data = job.data \o
              [k \in 1 .. BytesInFile |-> ByteAt(job.file, OffsetInFile + k - 1)]
<1> DEFINE data == job.data \o
             [k \in 1 .. BytesInFile |-> ByteAt(job.file, OffsetInFile + k - 1)]
<1>1. /\ job.kind = "read" /\ ~AtEnd /\ ~SkipsFile
      /\ job' = [NextFile EXCEPT !.data = @ \o
           [k \in 1 .. BytesInFile |-> ByteAt(job.file, OffsetInFile + k - 1)]]
      /\ files' = files /\ std_piece_len' = std_piece_len /\ stored' = stored
  BY DEF ReadFile
<1>2. RunningJob /\ files \in Seq(Nat) /\ std_piece_len \in Nat \ {0}
  BY <1>1, Sizes DEF Shape, NoJob
<1>3. job.file \in Files /\ BytesInFile \in Nat /\ BytesInFile <= job.pending /\ OffsetInFile \in Nat
  BY <1>1, <1>2, BlockInFile
<1>4. job.file \in Nat \ {0} /\ job.pending \in Nat /\ job \in Jobs
  BY <1>2, JobInStream DEF RunningJob
<1>5. \A x : ByteAt(job.file, x) \in Int
  <2>1. FileStart(job.file) \in Nat
    BY <1>1, <1>2, BlockInFile
  <2>2. \A x \in DOMAIN disk[job.file] : disk[job.file][x] \in Int
    <3>1. \A x \in DOMAIN disk[job.file] :
            x \in 0 .. files[job.file] - 1 /\ disk[job.file][x] = FileStart(job.file) + x
      BY <1>3 DEF Shape, InPlace
    <3> QED BY <2>1, <3>1
  <2> QED BY <2>2 DEF ByteAt, Hole
<1>6. data \in Seq(Int)
  <2>1. [k \in 1 .. BytesInFile |-> ByteAt(job.file, OffsetInFile + k - 1)] \in Seq(Int)
    BY <1>3, <1>5
  <2>2. job.data \in Seq(Int)
    BY <1>4 DEF Jobs
  <2> QED BY <2>1, <2>2
<1>7. job' = [job EXCEPT !.file = @ + 1, !.pending = @ - BytesInFile, !.data = data]
  BY <1>1, <1>4 DEF NextFile, Jobs
<1>8. job.file + 1 \in Nat \ {0} /\ job.pending - BytesInFile \in Nat
  BY <1>3, <1>4
<1> HIDE DEF data
<1>9. job' \in Jobs
  BY <1>4, <1>6, <1>7, <1>8 DEF Jobs
<1>10. /\ job'.kind = job.kind /\ job'.piece = job.piece
       /\ job'.from = job.from /\ job'.to = job.to
       /\ job'.file = job.file + 1 /\ job'.pending = job.pending - BytesInFile
       /\ job'.data = data
  BY <1>4, <1>7 DEF Jobs
<1>11. RunningJob'
  BY <1>1, <1>2, <1>9, <1>10, GoesOn
<1> QED
  BY <1>1, <1>2, <1>10, <1>11 DEF data

----------------------------------------------------------------------------
(* Every step keeps the invariant                                          *)

\* The initial state.
LEMMA Initially == Init => Inv
<1> SUFFICES ASSUME Init PROVE Inv
  OBVIOUS
<1>1. /\ files \in Layouts /\ std_piece_len \in PieceLens /\ job = NoJob
      /\ disk = [f \in Files |-> << >>] /\ buffered = [f \in Files |-> << >>]
      /\ write_err = {} /\ stored = {} /\ alive = TRUE
      /\ answer = [of |-> << >>, data |-> << >>]
  BY DEF Init
<1>2. InPlace(disk) /\ InPlace(buffered)
  BY <1>1 DEF InPlace
<1>3. Shape
  BY <1>1, <1>2 DEF Shape
<1>4. Complete
  BY <1>1 DEF Complete, NoJob
<1> QED
  BY <1>3, <1>4 DEF Inv

\* The files never change, and an error once left behind stays.
LEMMA Stays ==
  ASSUME [Next]_vars
  PROVE  /\ files' = files /\ std_piece_len' = std_piece_len
         /\ write_err \subseteq write_err' /\ stored \subseteq stored'
BY DEF Next, FlushPieceToDisk, GetDataWithLength, Start, SkipFile, WriteFile, WriteFails,
       ReadFile, ReadFails, Reply, Settle, vars

LEMMA ShapeStep ==
  ASSUME Shape, [Next]_vars
  PROVE  Shape'
<1>1. files' = files /\ std_piece_len' = std_piece_len
  BY Stays
<1>2. files \in Seq(Nat) /\ std_piece_len \in Nat \ {0}
  BY Sizes
<1>3. Files' = Files /\ Pieces' = Pieces /\ \A f : FileStart(f)' = FileStart(f)
  BY <1>1, Unmoved
<1> DEFINE Rest == /\ InPlace(disk)' /\ InPlace(buffered)'
                   /\ write_err' \subseteq Files /\ alive' \in BOOLEAN
<1>4. ASSUME job' = NoJob \/ RunningJob', stored' \subseteq Pieces, Rest
      PROVE  Shape'
  BY <1>1, <1>3, <1>4 DEF Shape
<1>5. ASSUME disk' = disk PROVE InPlace(disk)'
  BY <1>1, <1>3, <1>5 DEF Shape, InPlace
<1>6. ASSUME buffered' = buffered PROVE InPlace(buffered)'
  BY <1>1, <1>3, <1>6 DEF Shape, InPlace
<1>7. ASSUME disk' = disk, buffered' = buffered, write_err' = write_err, alive' \in BOOLEAN
      PROVE  Rest
  BY <1>5, <1>6, <1>7 DEF Shape
<1>8. ASSUME job' = job, stored' = stored
      PROVE  job' = NoJob \/ RunningJob'
  <2>1. CASE job = NoJob
    BY <1>8, <2>1
  <2>2. CASE RunningJob
    <3>1. Position' = Position
      BY <1>1, <1>8 DEF Position, FileStart
    <3> QED BY <1>1, <1>8, <2>2, <3>1, Unmoved DEF RunningJob, Jobs
  <2> QED BY <2>1, <2>2 DEF Shape
<1>9. CASE UNCHANGED vars
  BY <1>4, <1>7, <1>8, <1>9 DEF vars, Shape
<1>10. ASSUME NEW p \in Pieces, FlushPieceToDisk(p) PROVE Shape'
  <2>1. Start("flush", p, p * std_piece_len, PieceLength(p))
    BY <1>10 DEF FlushPieceToDisk
  <2>2. p * std_piece_len \in Nat /\ PieceLength(p) \in Nat \ {0}
    BY <1>2, PiecesLie
  <2>3. RunningJob'
    BY <1>2, <2>1, <2>2, Starts
  <2> QED BY <1>4, <1>7, <2>1, <2>3 DEF Start, Shape
<1>11. ASSUME NEW p \in Pieces, NEW offset \in 0 .. std_piece_len - 1,
              NEW length \in 1 .. std_piece_len, GetDataWithLength(p, offset, length)
       PROVE  Shape'
  <2>1. /\ p \in stored /\ offset + length <= PieceLength(p)
        /\ Start("read", p, p * std_piece_len + offset, length)
    BY <1>11 DEF GetDataWithLength
  <2>2. p * std_piece_len \in Nat /\ PieceLength(p) \in Nat /\ offset \in Nat /\ length \in Nat \ {0}
    BY <1>2, PiecesLie
  <2>3. p * std_piece_len + offset \in Nat
    BY <2>2
  <2>4. p * std_piece_len + offset + length <= p * std_piece_len + PieceLength(p)
    BY <2>1, <2>2
  <2>5. RunningJob'
    BY <1>2, <2>1, <2>2, <2>3, <2>4, Starts
  <2> QED BY <1>4, <1>7, <2>1, <2>5 DEF Start, Shape
<1>12. CASE SkipFile
  <2>1. RunningJob'
    BY <1>2, <1>12, GoesPast DEF SkipFile, Shape
  <2> QED BY <1>4, <1>7, <1>12, <2>1 DEF SkipFile, Shape
<1>13. CASE WriteFile
  <2>1. /\ disk' = disk /\ write_err' = write_err /\ alive' = alive /\ stored' = stored
        /\ DOMAIN buffered' = DOMAIN buffered
        /\ \A f \in DOMAIN buffered : f # job.file => buffered'[f] = buffered[f]
    BY <1>13 DEF WriteFile
  <2>2. InPlace(buffered)'
    <3>1. ASSUME NEW f \in Files, NEW x \in DOMAIN buffered'[f]
          PROVE  x \in 0 .. files[f] - 1 /\ buffered'[f][x] = FileStart(f) + x
      <4>1. CASE f = job.file
        BY <1>13, <4>1, Writes
      <4>2. CASE f # job.file
        BY <2>1, <4>2 DEF Shape, InPlace
      <4> QED BY <4>1, <4>2
    <3>2. DOMAIN buffered' = Files
      BY <2>1 DEF Shape, InPlace
    <3> QED BY <1>1, <1>3, <3>1, <3>2 DEF InPlace
  <2> QED BY <1>4, <1>5, <1>13, <2>1, <2>2, Writes DEF Shape
<1>14. CASE WriteFails \/ ReadFails
  BY <1>4, <1>7, <1>14 DEF WriteFails, ReadFails, Shape
<1>15. CASE ReadFile
  BY <1>4, <1>7, <1>15, Reads DEF ReadFile, Shape
<1>16. CASE Reply
  <2>1. stored' \subseteq Pieces
    BY <1>16 DEF Reply, Shape, RunningJob
  <2> QED BY <1>4, <1>7, <1>16, <2>1 DEF Reply, Shape
<1>17. ASSUME NEW f \in Files, Settle(f) PROVE Shape'
  <2>1. /\ buffered' = [buffered EXCEPT ![f] = << >>]
        /\ job' = job /\ stored' = stored /\ alive' = alive
        /\ write_err' \subseteq write_err \cup {f}
    BY <1>17 DEF Settle
  <2>2. InPlace(buffered)'
    BY <1>1, <1>3, <2>1 DEF Shape, InPlace
  <2>3. InPlace(disk)'
    <3>1. CASE disk' = disk
      BY <1>5, <3>1
    <3>2. CASE disk' = [disk EXCEPT ![f] =
                 [x \in DOMAIN @ \cup DOMAIN buffered[f] |->
                    IF x \in DOMAIN buffered[f] THEN buffered[f][x] ELSE @[x]]]
      BY <1>1, <1>3, <3>2 DEF Shape, InPlace
    <3> QED BY <1>17, <3>1, <3>2 DEF Settle
  <2> QED BY <1>4, <1>8, <2>1, <2>2, <2>3 DEF Shape
<1> QED
  BY <1>9, <1>10, <1>11, <1>12, <1>13, <1>14, <1>15, <1>16, <1>17 DEF Next

\* What is written or about to be stays so, as long as no write fails: the
\* seek before a write has waited for the one before (line 88).
LEMMA CoveredGrows ==
  ASSUME Shape, [Next]_vars, write_err' = {}, NEW g, IsWritten(g)
  PROVE  IsWritten(g)'
<1>1. files' = files /\ std_piece_len' = std_piece_len /\ write_err = {}
  BY Stays
<1>2. Files' = Files /\ \A f : FileStart(f)' = FileStart(f)
  BY <1>1, Unmoved
<1>3. PICK f \in Files : g - FileStart(f) \in Covered(f)
  BY DEF IsWritten
<1>4. SUFFICES Covered(f) \subseteq Covered(f)'
  BY <1>2, <1>3 DEF IsWritten
<1>5. CASE disk' = disk /\ buffered' = buffered
  BY <1>5 DEF Covered
<1>6. CASE WriteFile
  <2>1. Settled /\ disk' = disk /\ DOMAIN buffered' = DOMAIN buffered
        /\ \A h \in DOMAIN buffered : h # job.file => buffered'[h] = buffered[h]
    BY <1>6 DEF WriteFile
  <2> QED BY <2>1 DEF Covered, Settled, Shape, InPlace
<1>7. ASSUME NEW h \in Files, Settle(h) PROVE Covered(f) \subseteq Covered(f)'
  <2>1. /\ buffered' = [buffered EXCEPT ![h] = << >>]
        /\ disk' = [disk EXCEPT ![h] =
                [x \in DOMAIN @ \cup DOMAIN buffered[h] |->
                   IF x \in DOMAIN buffered[h] THEN buffered[h][x] ELSE @[x]]]
    BY <1>1, <1>7 DEF Settle
  <2>2. DOMAIN disk = Files /\ DOMAIN buffered = Files
    BY DEF Shape, InPlace
  <2>3. CASE f = h
    <3>1. DOMAIN disk'[f] = DOMAIN disk[f] \cup DOMAIN buffered[f]
      BY <2>1, <2>2, <2>3
    <3> QED BY <3>1 DEF Covered
  <2>4. CASE f # h
    BY <2>1, <2>2, <2>4 DEF Covered
  <2> QED BY <2>3, <2>4
<1> QED
  BY <1>5, <1>6, <1>7
  DEF Next, FlushPieceToDisk, GetDataWithLength, Start, SkipFile, WriteFails,
      ReadFile, ReadFails, Reply, vars

\* A range read in two parts.
LEMMA TwoParts ==
  ASSUME NEW a \in Int, NEW m \in Nat, NEW n \in Nat
  PROVE  [k \in 1 .. m |-> a + k - 1] \o [k \in 1 .. n |-> a + m + k - 1] =
         [k \in 1 .. m + n |-> a + k - 1]
<1> DEFINE s == [k \in 1 .. m |-> a + k - 1]
           t == [k \in 1 .. n |-> a + m + k - 1]
           u == [k \in 1 .. m + n |-> a + k - 1]
<1>1. s \in Seq(Int) /\ t \in Seq(Int) /\ u \in Seq(Int)
  OBVIOUS
<1>2. Len(s) = m /\ Len(t) = n /\ Len(u) = m + n
  OBVIOUS
<1>3. s \o t \in Seq(Int) /\ Len(s \o t) = m + n
  <2> HIDE DEF s, t
  <2> QED BY <1>1, <1>2
<1>4. ASSUME NEW k \in 1 .. m + n PROVE (s \o t)[k] = u[k]
  <2>1. (s \o t)[k] = IF k <= m THEN s[k] ELSE t[k - m]
    <3> HIDE DEF s, t
    <3>1. k \in 1 .. Len(s) + Len(t)
      BY <1>2
    <3>2. (s \o t)[k] = IF k <= Len(s) THEN s[k] ELSE t[k - Len(s)]
      BY <1>1, <3>1
    <3> QED BY <1>2, <3>2
  <2> QED BY <2>1
<1>5. s \o t = u
  <2> HIDE DEF s, t, u
  <2>1. \A k \in 1 .. Len(s \o t) : (s \o t)[k] = u[k]
    BY <1>3, <1>4
  <2> QED BY <1>1, <1>2, <1>3, <2>1, SeqEqual
<1> QED
  BY <1>5

\* What a read finds in a file is the part of the stream at its position: the
\* piece is stored, its bytes lie in this file, and the seek has waited for
\* the last of them (lines 142-157).
LEMMA FindsBytes ==
  ASSUME Shape, Complete, ReadFile, write_err = {}
  PROVE  [k \in 1 .. BytesInFile |-> ByteAt(job.file, OffsetInFile + k - 1)] =
         [k \in 1 .. BytesInFile |-> Position + k - 1]
<1>1. job.kind = "read" /\ ~AtEnd /\ ~SkipsFile /\ Settled
  BY DEF ReadFile
<1>2. RunningJob /\ files \in Seq(Nat) /\ std_piece_len \in Nat \ {0}
  BY Reads, Sizes
<1>3. /\ job.file \in Files
      /\ OffsetInFile \in Nat /\ BytesInFile \in Nat
      /\ OffsetInFile + BytesInFile <= files[job.file]
      /\ FileStart(job.file) \in Nat
      /\ FileStart(job.file) + OffsetInFile = Position
      /\ BytesInFile <= job.pending
  BY <1>1, <1>2, BlockInFile
<1>4. /\ job.from \in Nat /\ job.to \in Nat /\ Position \in Nat /\ job.from <= Position
      /\ job.pending \in Nat /\ job.pending = job.to - Position
  BY <1>2, JobInStream
<1>5. /\ job.piece \in stored /\ job.piece \in Pieces
      /\ job.piece * std_piece_len <= job.from
      /\ job.to <= job.piece * std_piece_len + PieceLength(job.piece)
  BY <1>1, <1>2 DEF RunningJob
<1>6. job.piece * std_piece_len \in Nat /\ PieceLength(job.piece) \in Nat
  BY <1>2, <1>5, PiecesLie
<1>7. SUFFICES ASSUME NEW k \in 1 .. BytesInFile
               PROVE  ByteAt(job.file, OffsetInFile + k - 1) = Position + k - 1
  OBVIOUS
<1> DEFINE x == OffsetInFile + k - 1
           g == Position + k - 1
<1>8. /\ x \in 0 .. files[job.file] - 1 /\ g \in Nat /\ g = FileStart(job.file) + x
      /\ g \in job.piece * std_piece_len .. job.piece * std_piece_len + PieceLength(job.piece) - 1
  <2>1. files[job.file] \in Nat
    BY <1>2, <1>3, FilesLie
  <2>2. x \in 0 .. files[job.file] - 1 /\ g \in Nat /\ g = FileStart(job.file) + x
    BY <1>3, <1>4, <2>1
  <2>3. g \in job.piece * std_piece_len .. job.piece * std_piece_len + PieceLength(job.piece) - 1
    BY <1>3, <1>4, <1>5, <1>6
  <2> QED BY <2>2, <2>3
<1> HIDE DEF x, g
<1>9. PICK f \in Files : g - FileStart(f) \in Covered(f)
  BY <1>5, <1>8 DEF Complete, IsStored
<1>10. f = job.file
  <2>1. g - FileStart(f) \in 0 .. files[f] - 1
    BY <1>9 DEF Shape, InPlace, Covered
  <2>2. /\ FileStart(f) \in Nat /\ files[f] \in Nat /\ FileEnd(f) = FileStart(f) + files[f]
        /\ files[job.file] \in Nat /\ FileEnd(job.file) = FileStart(job.file) + files[job.file]
    <3>1. f \in 1 .. Len(files) + 1
      BY <1>2, FilesLie
    <3> QED BY <1>2, <1>3, <3>1, FilesLie
  <2>3. FileStart(f) <= g /\ g < FileEnd(f) /\ FileStart(job.file) <= g /\ g < FileEnd(job.file)
    BY <1>3, <1>8, <2>1, <2>2
  <2> QED BY <1>2, <1>3, <1>8, <2>3, OneFile
<1>11. x \in DOMAIN disk[job.file]
  <2>1. g - FileStart(f) = x
    BY <1>3, <1>8, <1>10
  <2> QED BY <1>1, <1>9, <1>10, <2>1 DEF Covered, Settled
<1>12. ByteAt(job.file, x) = FileStart(job.file) + x
  BY <1>3, <1>11 DEF ByteAt, Shape, InPlace
<1> QED
  BY <1>8, <1>12 DEF x, g

LEMMA CompleteStep ==
  ASSUME Shape, Complete, [Next]_vars
  PROVE  Complete'
<1>0. SUFFICES ASSUME write_err' = {} PROVE Complete'
  BY DEF Complete
<1>1. files' = files /\ std_piece_len' = std_piece_len /\ write_err = {} /\ Shape'
  BY <1>0, Stays, ShapeStep
<1>2. files \in Seq(Nat) /\ std_piece_len \in Nat \ {0}
  BY Sizes
<1>3. /\ \A i \in stored : IsStored(i)
      /\ job.kind = "flush" => \A g \in job.from .. job.to - job.pending - 1 : IsWritten(g)
      /\ job.kind = "read" =>
           job.data = [k \in 1 .. job.to - job.pending - job.from |-> job.from + k - 1]
      /\ answer.data = answer.of
  BY <1>1 DEF Complete
<1>4. \A g : IsWritten(g) => IsWritten(g)'
  BY <1>0, CoveredGrows
<1>5. \A i : IsStored(i) <=>
        \A g \in i * std_piece_len .. i * std_piece_len + PieceLength(i) - 1 : IsWritten(g)
  BY DEF IsStored, IsWritten
<1>6. \A i : IsStored(i)' <=>
        \A g \in i * std_piece_len .. i * std_piece_len + PieceLength(i) - 1 : IsWritten(g)'
  <2>1. \A i : PieceLength(i)' = PieceLength(i)
    BY <1>1, Unmoved
  <2> QED BY <1>1, <2>1 DEF IsStored, IsWritten
<1>7. \A i : IsStored(i) => IsStored(i)'
  BY <1>4, <1>5, <1>6
<1> DEFINE Flushed == job.kind = "flush" =>
                        \A g \in job.from .. job.to - job.pending - 1 : IsWritten(g)
           Read == job.kind = "read" =>
                     job.data = [k \in 1 .. job.to - job.pending - job.from |-> job.from + k - 1]
<1>8. ASSUME stored' = stored, answer' = answer, Flushed', Read' PROVE Complete'
  BY <1>3, <1>7, <1>8 DEF Complete
<1>9. ASSUME job' = job PROVE Flushed' /\ Read'
  BY <1>3, <1>4, <1>9
<1>10. ASSUME job' = NoJob PROVE Flushed' /\ Read'
  BY <1>10 DEF NoJob
<1>11. ASSUME NEW kind, NEW piece, NEW from \in Nat, NEW length \in Nat,
              Start(kind, piece, from, length)
       PROVE  Complete'
  <2>1. /\ stored' = stored /\ answer' = answer
        /\ job' = [kind |-> kind, piece |-> piece, from |-> from, to |-> from + length,
                   pending |-> length, file |-> 1, data |-> << >>]
    BY <1>11 DEF Start
  <2>2. /\ job'.from = from /\ job'.to = from + length
        /\ job'.pending = length /\ job'.data = << >>
    BY <2>1
  <2>3. job'.to - job'.pending - 1 = from - 1 /\ job'.to - job'.pending - job'.from = 0
    BY <2>2
  <2>4. Flushed'
    BY <2>2, <2>3
  <2>5. Read'
    BY <2>2, <2>3
  <2> QED BY <1>8, <2>1, <2>4, <2>5
<1>12. CASE UNCHANGED vars
  BY <1>8, <1>9, <1>12 DEF vars
<1>13. ASSUME NEW p \in Pieces, FlushPieceToDisk(p) PROVE Complete'
  <2>1. p * std_piece_len \in Nat /\ PieceLength(p) \in Nat
    BY <1>2, PiecesLie
  <2> QED BY <1>11, <1>13, <2>1 DEF FlushPieceToDisk
<1>14. ASSUME NEW p \in Pieces, NEW offset \in 0 .. std_piece_len - 1,
              NEW length \in 1 .. std_piece_len, GetDataWithLength(p, offset, length)
       PROVE  Complete'
  <2>1. p * std_piece_len \in Nat /\ offset \in Nat /\ length \in Nat
    BY <1>2, PiecesLie
  <2>2. p * std_piece_len + offset \in Nat
    BY <2>1
  <2> QED BY <1>11, <1>14, <2>1, <2>2 DEF GetDataWithLength
<1>15. CASE SkipFile
  <2>1. /\ stored' = stored /\ answer' = answer /\ job # NoJob
        /\ job' = [job EXCEPT !.file = @ + 1]
    BY <1>15 DEF SkipFile
  <2>2. /\ job'.kind = job.kind /\ job'.from = job.from /\ job'.to = job.to
        /\ job'.pending = job.pending /\ job'.data = job.data
    BY <2>1 DEF Shape, RunningJob, Jobs
  <2> QED BY <1>3, <1>4, <1>8, <2>1, <2>2
<1>16. CASE WriteFile
  <2>1. /\ stored' = stored /\ answer' = answer /\ job' = NextFile /\ job.kind = "flush"
        /\ ~AtEnd /\ ~SkipsFile
    BY <1>16 DEF WriteFile
  <2>2. /\ RunningJob /\ job.file \in Files
        /\ DOMAIN buffered'[job.file] = OffsetInFile .. OffsetInFile + BytesInFile - 1
    BY <1>16, Writes
  <2>3. /\ job'.kind = "flush" /\ job'.from = job.from /\ job'.to = job.to
        /\ job'.pending = job.pending - BytesInFile
    BY <2>1, <2>2 DEF RunningJob, Jobs, NextFile
  <2>4. /\ OffsetInFile \in Nat /\ BytesInFile \in Nat /\ FileStart(job.file) \in Nat
        /\ FileStart(job.file) + OffsetInFile = Position
    BY <1>2, <2>1, <2>2, BlockInFile
  <2>5. /\ job.from \in Nat /\ job.to \in Nat /\ job.pending \in Nat
        /\ Position \in Nat /\ job.pending = job.to - Position
    BY <1>2, <2>2, JobInStream
  <2>6. ASSUME NEW g \in job.from .. job.to - job'.pending - 1 PROVE IsWritten(g)'
    <3>1. CASE g < Position
      <4>1. g \in job.from .. job.to - job.pending - 1
        BY <2>3, <2>4, <2>5, <3>1
      <4> QED BY <1>3, <1>4, <2>1, <4>1
    <3>2. CASE g >= Position
      <4>1. g - FileStart(job.file) \in OffsetInFile .. OffsetInFile + BytesInFile - 1
        BY <2>3, <2>4, <2>5, <3>2
      <4>2. /\ Files' = Files
            /\ \A f : FileStart(f)' = FileStart(f)
        BY <1>1, Unmoved
      <4>3. \A f : Covered(f)' = DOMAIN disk'[f] \cup DOMAIN buffered'[f]
        BY DEF Covered
      <4> QED BY <2>2, <4>1, <4>2, <4>3 DEF IsWritten
    <3> QED BY <2>3, <2>4, <2>5, <3>1, <3>2
  <2>7. Flushed' /\ Read'
    BY <2>3, <2>6
  <2> QED BY <1>8, <2>1, <2>7
<1>17. CASE ReadFile
  <2>1. stored' = stored /\ answer' = answer /\ job.kind = "read" /\ ~AtEnd /\ ~SkipsFile
    BY <1>17 DEF ReadFile
  <2>2. /\ RunningJob
        /\ job'.kind = "read" /\ job'.from = job.from /\ job'.to = job.to
        /\ job'.pending = job.pending - BytesInFile
        /\ job'.data = job.data \o
             [k \in 1 .. BytesInFile |-> ByteAt(job.file, OffsetInFile + k - 1)]
    BY <1>17, Reads
  <2>3. job'.data = job.data \o [k \in 1 .. BytesInFile |-> Position + k - 1]
    BY <1>1, <1>17, <2>2, FindsBytes
  <2>4. /\ job.from \in Nat /\ job.to \in Nat /\ job.pending \in Nat
        /\ Position \in Nat /\ job.from <= Position /\ job.pending = job.to - Position
    BY <1>2, <2>2, JobInStream
  <2>5. BytesInFile \in Nat
    BY <1>2, <2>1, <2>2, BlockInFile
  <2> DEFINE m == Position - job.from
  <2>6. m \in Nat /\ Position = job.from + m /\ job.to - job.pending - job.from = m
        /\ job.to - job'.pending - job.from = m + BytesInFile
    <3>1. m \in Nat /\ Position = job.from + m
      BY <2>4
    <3>2. job.to - job.pending - job.from = m
      BY <2>4
    <3>3. job.to - (job.pending - BytesInFile) - job.from = m + BytesInFile
      BY <2>4, <2>5
    <3> QED BY <2>2, <3>1, <3>2, <3>3
  <2> HIDE DEF m
  <2>7. job'.data = [k \in 1 .. m + BytesInFile |-> job.from + k - 1]
    <3>1. job.data = [k \in 1 .. m |-> job.from + k - 1]
      BY <1>3, <2>1, <2>6
    <3>2. job'.data = job.data \o [k \in 1 .. BytesInFile |-> job.from + m + k - 1]
      BY <2>3, <2>6
    <3>3. job.from \in Int /\ m \in Nat /\ BytesInFile \in Nat
      BY <2>4, <2>5, <2>6
    <3>4. [k \in 1 .. m |-> job.from + k - 1] \o [k \in 1 .. BytesInFile |-> job.from + m + k - 1] =
          [k \in 1 .. m + BytesInFile |-> job.from + k - 1]
      BY <3>3, TwoParts
    <3> QED BY <3>1, <3>2, <3>4
  <2>8. Flushed' /\ Read'
    BY <2>2, <2>6, <2>7
  <2> QED BY <1>8, <2>1, <2>8
<1>18. CASE WriteFails \/ ReadFails
  BY <1>8, <1>10, <1>18 DEF WriteFails, ReadFails
<1>19. CASE Reply
  <2>1. /\ job # NoJob /\ AtEnd /\ job' = NoJob
    BY <1>19 DEF Reply
  <2>2. RunningJob /\ job.pending = 0
    BY <1>2, <2>1, NothingPending DEF Shape
  <2>3. job.from \in Nat /\ job.to \in Nat
    BY <1>2, <2>2, JobInStream
  <2>4. CASE job.kind = "flush"
    <3>1. stored' = stored \cup {job.piece} /\ answer' = answer
      BY <1>19, <2>4 DEF Reply
    <3>2. job.from = job.piece * std_piece_len /\ job.to = job.from + PieceLength(job.piece)
      BY <2>2, <2>4 DEF RunningJob
    <3>3. job.to - job.pending - 1 = job.from + PieceLength(job.piece) - 1
      <4>1. PieceLength(job.piece) \in Nat
        BY <1>2, <2>2, PiecesLie DEF RunningJob
      <4> QED BY <2>2, <2>3, <3>2, <4>1
    <3>4. IsStored(job.piece)
      BY <1>3, <1>5, <2>4, <3>2, <3>3
    <3> QED BY <1>3, <1>7, <1>10, <2>1, <3>1, <3>4 DEF Complete
  <2>5. CASE job.kind # "flush"
    <3>1. /\ stored' = stored
          /\ answer' = [of |-> [k \in 1 .. job.to - job.from |-> job.from + k - 1],
                        data |-> job.data]
      BY <1>19, <2>5 DEF Reply
    <3>2. job.kind = "read"
      BY <2>2, <2>5 DEF RunningJob, Jobs
    <3>3. job.to - job.pending - job.from = job.to - job.from
      BY <2>2, <2>3
    <3>4. answer'.data = answer'.of
      BY <1>3, <3>1, <3>2, <3>3
    <3> QED BY <1>3, <1>7, <1>10, <2>1, <3>1, <3>4 DEF Complete
  <2> QED BY <2>4, <2>5
<1>20. ASSUME NEW f \in Files, Settle(f) PROVE Complete'
  BY <1>8, <1>9, <1>20 DEF Settle
<1> QED
  BY <1>12, <1>13, <1>14, <1>15, <1>16, <1>17, <1>18, <1>19, <1>20 DEF Next

LEMMA Always == Spec => []Inv
<1>1. Init => Inv
  BY Initially
<1>2. Inv /\ [Next]_vars => Inv'
  BY ShapeStep, CompleteStep DEF Inv
<1> QED
  BY <1>1, <1>2, PTL DEF Spec

\* What the job asks for never exceeds a piece, what is in a file or in its
\* buffer never lies outside of it (lines 62-112), and only pieces of the
\* torrent are stored.
THEOREM TypeCorrect == Spec => []TypeOK
<1>1. Inv => TypeOK
  <2> SUFFICES ASSUME Inv PROVE TypeOK
    OBVIOUS
  <2>1. files \in Seq(Nat) /\ std_piece_len \in Nat \ {0}
    BY Sizes DEF Inv
  <2>2. job = NoJob \/ job.pending \in 0 .. std_piece_len
    <3>1. CASE RunningJob
      BY <2>1, <3>1, JobInStream
    <3> QED BY <3>1 DEF Inv, Shape
  <2>3. \A f \in Files : DOMAIN disk[f] \cup DOMAIN buffered[f] \subseteq 0 .. files[f] - 1
    BY DEF Inv, Shape, InPlace
  <2> QED BY <2>2, <2>3 DEF TypeOK, Inv, Shape
<1> QED
  BY <1>1, Always, PTL

\* For every layout of the files and every piece length, whatever is flushed
\* in whatever order, each byte of a file is the byte of the stream that
\* belongs there (lines 66-108).
THEOREM BytesAreInPlace == Spec => []BytesInPlace
<1>1. Inv => BytesInPlace
  BY DEF Inv, Shape, InPlace, BytesInPlace
<1> QED
  BY <1>1, Always, PTL

\* A flush answered with true has written the piece, unless a buffered write
\* has failed, and when all pieces are flushed every file is complete: the
\* pieces cover the stream and the files cover the pieces (lines 62-112).
THEOREM FlushesComplete == Spec => []FlushesAreComplete
<1>1. ASSUME Inv, write_err = {}, stored = Pieces, NEW f \in Files
      PROVE  Covered(f) = 0 .. files[f] - 1
  <2>1. files \in Seq(Nat) /\ std_piece_len \in Nat \ {0}
    BY <1>1, Sizes DEF Inv
  <2>2. /\ FileStart(f) \in Nat /\ files[f] \in Nat /\ FileEnd(f) = FileStart(f) + files[f]
        /\ FileEnd(f) <= DownloadSize /\ DownloadSize \in Nat
    <3>1. f \in 1 .. Len(files) + 1 /\ f + 1 \in 1 .. Len(files) + 1
      BY <2>1, FilesLie
    <3> QED BY <2>1, <3>1, FilesLie
  <2>3. Covered(f) \subseteq 0 .. files[f] - 1
    BY <1>1 DEF Inv, Shape, InPlace, Covered
  <2>4. ASSUME NEW x \in 0 .. files[f] - 1 PROVE x \in Covered(f)
    <3> DEFINE g == FileStart(f) + x
    <3>1. g \in 0 .. DownloadSize - 1 /\ FileStart(f) <= g /\ g < FileEnd(f) /\ g - FileStart(f) = x
      BY <2>2
    <3> HIDE DEF g
    <3>2. PICK p \in Pieces : g \in p * std_piece_len .. p * std_piece_len + PieceLength(p) - 1
      BY <2>1, <3>1, PiecesLie
    <3>3. PICK h \in Files : g - FileStart(h) \in Covered(h)
      BY <1>1, <3>2 DEF Inv, Complete, IsStored
    <3>4. g - FileStart(h) \in 0 .. files[h] - 1
      BY <1>1, <3>3 DEF Inv, Shape, InPlace, Covered
    <3>5. FileStart(h) \in Nat /\ files[h] \in Nat /\ FileEnd(h) = FileStart(h) + files[h]
      <4>1. h \in 1 .. Len(files) + 1
        BY <2>1, FilesLie
      <4> QED BY <2>1, <4>1, FilesLie
    <3>6. FileStart(h) <= g /\ g < FileEnd(h)
      BY <2>2, <3>1, <3>4, <3>5
    <3>7. h = f
      BY <2>1, <2>2, <3>1, <3>6, OneFile
    <3> QED BY <3>1, <3>3, <3>7
  <2> QED BY <2>3, <2>4
<1>2. Inv => FlushesAreComplete
  BY <1>1 DEF FlushesAreComplete, Inv, Complete
<1> QED
  BY <1>2, Always, PTL

\* A read is answered with exactly the bytes asked for, over the ends of files
\* and while their last writes are under way, unless a buffered write has
\* failed (lines 113-166).
THEOREM ReadsBackExact == Spec => []ReadBackExact
<1>1. Inv => ReadBackExact
  BY DEF Inv, Complete, ReadBackExact
<1> QED
  BY <1>1, Always, PTL
=============================================================================
