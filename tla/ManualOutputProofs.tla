-------------------------- MODULE ManualOutputProofs --------------------------
(***************************************************************************)
(* Every signed PDF verifies, whatever document it was made from; and what *)
(* a run of manual signing says of its output is so, however the runs and  *)
(* other programs interleave in the folder.                                *)
(***************************************************************************)
EXTENDS ManualOutput, FiniteSetTheorems, SequenceTheorems, TLAPS

-----------------------------------------------------------------------------
(* The PDF. *)

\* The tokens a signed document can hold.
Tokens(source) ==
    {Rewritten(source)[i] : i \in 1..Len(source)}
        \cup {ByteRange(Sentinel), Contents(Zeros), Text(<<"trailer">>)}

\* The source as lopdf writes it again: as long as before, and no placeholder.
LEMMA RewrittenTokens ==
    ASSUME NEW T, NEW source \in Seq(T), HasNoPlaceholder(source)
    PROVE  /\ Rewritten(source) \in Seq(Tokens(source))
           /\ Len(Rewritten(source)) = Len(source)
           /\ \A i \in 1..Len(source) :
                  Rewritten(source)[i] \notin {ByteRange(Sentinel), Contents(Zeros)}
<1> DEFINE n == Len(source)
           old == Rewritten(source)
<1>1. n \in Nat /\ DOMAIN source = 1..n
  BY LenProperties
<1>2. \A i \in 1..n : old[i] \notin {ByteRange(Sentinel), Contents(Zeros)}
  BY <1>1 DEF Rewritten, HasNoPlaceholder, Text, ByteRange, Contents
<1>3. old = [i \in 1..n |-> old[i]]
  BY <1>1 DEF Rewritten
<1>4. \A i \in 1..n : old[i] \in Tokens(source)
  BY DEF Tokens
<1>5. old \in [1..n -> Tokens(source)]
  <2> HIDE DEF old
  <2> QED BY <1>3, <1>4
<1> HIDE DEF old
<1>6. old \in Seq(Tokens(source)) /\ Len(old) = n
  BY <1>1, <1>5
<1> QED BY <1>2, <1>6 DEF old

\* The document laid out for a signature: the source's own tokens, none of them
\* a placeholder, and the three tokens added to them.
LEMMA PreparedTokens ==
    ASSUME NEW T, NEW source \in Seq(T), HasNoPlaceholder(source)
    PROVE  /\ Prepared(source) \in Seq(Tokens(source))
           /\ Len(Prepared(source)) = Len(source) + 3
           /\ Prepared(source)[Len(source) + 1] = ByteRange(Sentinel)
           /\ Prepared(source)[Len(source) + 2] = Contents(Zeros)
           /\ \A i \in 1..Len(source) :
                  Prepared(source)[i] \notin {ByteRange(Sentinel), Contents(Zeros)}
<1> DEFINE n == Len(source)
           old == Rewritten(source)
           mid == old \o SignatureDictionary
<1>1. /\ n \in Nat /\ old \in Seq(Tokens(source)) /\ Len(old) = n
      /\ \A i \in 1..n : old[i] \notin {ByteRange(Sentinel), Contents(Zeros)}
  BY RewrittenTokens, LenProperties
<1>2. /\ SignatureDictionary \in Seq(Tokens(source))
      /\ Len(SignatureDictionary) = 2
      /\ SignatureDictionary[1] = ByteRange(Sentinel)
      /\ SignatureDictionary[2] = Contents(Zeros)
  BY DEF SignatureDictionary, Tokens
<1>3. Trailer \in Seq(Tokens(source)) /\ Len(Trailer) = 1
  BY DEF Trailer, Tokens
<1> HIDE DEF old
<1>4. /\ mid \in Seq(Tokens(source)) /\ Len(mid) = n + 2
      /\ \A i \in 1..n : mid[i] = old[i]
      /\ mid[n + 1] = ByteRange(Sentinel) /\ mid[n + 2] = Contents(Zeros)
  <2>1. /\ mid \in Seq(Tokens(source)) /\ Len(mid) = n + 2
        /\ \A i \in 1..(n + 2) :
               mid[i] = IF i <= n THEN old[i] ELSE SignatureDictionary[i - n]
    <3> HIDE DEF n
    <3>1. /\ mid \in Seq(Tokens(source))
          /\ Len(mid) = Len(old) + Len(SignatureDictionary)
      BY ONLY <1>1, <1>2, ConcatProperties
    <3>2. \A i \in 1..Len(old) + Len(SignatureDictionary) :
             mid[i] = IF i <= Len(old) THEN old[i] ELSE SignatureDictionary[i - Len(old)]
      BY ONLY <1>1, <1>2, ConcatProperties
    <3> QED BY <3>1, <3>2, <1>1, <1>2
  <2> HIDE DEF mid
  <2>2. \A i \in 1..n : mid[i] = old[i]
    BY <2>1, <1>1
  <2>3. mid[n + 1] = SignatureDictionary[1] /\ mid[n + 2] = SignatureDictionary[2]
    <3> HIDE DEF n
    <3>1. n + 1 - n = 1 /\ n + 2 - n = 2
      BY <1>1
    <3> QED BY <2>1, <1>1, <3>1
  <2> QED BY <2>1, <2>2, <2>3, <1>2
<1> DEFINE all == mid \o Trailer
<1> HIDE DEF mid
<1>5. /\ all \in Seq(Tokens(source)) /\ Len(all) = n + 3
      /\ \A i \in 1..(n + 2) : all[i] = mid[i]
  <2>1. /\ all \in Seq(Tokens(source)) /\ Len(all) = n + 3
        /\ \A i \in 1..(n + 3) : all[i] = IF i <= n + 2 THEN mid[i] ELSE Trailer[i - (n + 2)]
    <3> HIDE DEF n
    <3>1. /\ all \in Seq(Tokens(source))
          /\ Len(all) = Len(mid) + Len(Trailer)
      BY ONLY <1>3, <1>4, ConcatProperties
    <3>2. \A i \in 1..Len(mid) + Len(Trailer) :
             all[i] = IF i <= Len(mid) THEN mid[i] ELSE Trailer[i - Len(mid)]
      BY ONLY <1>3, <1>4, ConcatProperties
    <3> QED BY <3>1, <3>2, <1>1, <1>3, <1>4
  <2> HIDE DEF all
  <2> QED BY <2>1, <1>1
<1>6. Prepared(source) = all
  BY DEF Prepared, all, mid, old
<1> HIDE DEF all, n
<1>7. \A i \in 1..n : all[i] = old[i]
  <2>1. n \in Nat /\ 1..n \subseteq 1..(n + 2)
    BY <1>1
  <2> QED BY <2>1, <1>4, <1>5
<1>8. all[n + 1] = ByteRange(Sentinel) /\ all[n + 2] = Contents(Zeros)
  <2>1. n + 1 \in 1..(n + 2) /\ n + 2 \in 1..(n + 2)
    BY <1>1
  <2>2. all[n + 1] = mid[n + 1] /\ all[n + 2] = mid[n + 2]
    BY ONLY <2>1, <1>5
  <2> QED BY ONLY <2>2, <1>4
<1>9. \A i \in 1..n : all[i] \notin {ByteRange(Sentinel), Contents(Zeros)}
  BY ONLY <1>1, <1>7
<1> QED BY <1>5, <1>6, <1>8, <1>9 DEF n

\* Both searches find the placeholders of this signature and no other.
LEMMA PlaceholdersFound ==
    ASSUME NEW T, NEW source \in Seq(T), HasNoPlaceholder(source)
    PROVE  /\ FindBytes(Prepared(source), ByteRange(Sentinel)) = Len(source) + 1
           /\ FindBytes(Prepared(source), Contents(Zeros)) = Len(source) + 2
<1> DEFINE n == Len(source)
           doc == Prepared(source)
<1>1. /\ n \in Nat
      /\ DOMAIN doc = 1..(n + 3)
      /\ doc[n + 1] = ByteRange(Sentinel) /\ doc[n + 2] = Contents(Zeros)
      /\ \A i \in 1..n : doc[i] \notin {ByteRange(Sentinel), Contents(Zeros)}
  BY PreparedTokens, LenProperties
<1>2. ByteRange(Sentinel) # Contents(Zeros)
  BY DEF ByteRange, Contents
<1> HIDE DEF doc, n
<1>3. \A i \in DOMAIN doc :
         doc[i] = ByteRange(Sentinel) /\ (\A j \in 1..(i - 1) : doc[j] # ByteRange(Sentinel))
             <=> i = n + 1
  BY <1>1, <1>2
<1>4. \A i \in DOMAIN doc :
         doc[i] = Contents(Zeros) /\ (\A j \in 1..(i - 1) : doc[j] # Contents(Zeros))
             <=> i = n + 2
  BY <1>1, <1>2
<1>5. FindBytes(doc, ByteRange(Sentinel)) = n + 1
  BY <1>1, <1>3 DEF FindBytes
<1>6. FindBytes(doc, Contents(Zeros)) = n + 2
  BY <1>1, <1>4 DEF FindBytes
<1> QED BY <1>5, <1>6 DEF doc, n

\* Whatever document is signed, and whatever signatures it already holds, the
\* signature made by sign_pdf_bytes verifies: the ranges it states are those that
\* were digested, and they leave out its own Contents only.
THEOREM SignedPdfsVerify ==
    ASSUME NEW T, NEW source \in Seq(T), HasNoPlaceholder(source)
    PROVE  Verifies(SignedPdf(source), Len(source) + 2)
<1> DEFINE k == Len(source)
           prepared == Prepared(source)
           stated == <<0, k + 1, k + 2, 1>>
           patched == [prepared EXCEPT ![k + 1] = ByteRange(stated)]
           digest == DigestByteRange(patched, k + 2)
           signed == [patched EXCEPT ![k + 2] = Contents(digest)]
<1>1. /\ k \in Nat /\ prepared \in Seq(Tokens(source)) /\ Len(prepared) = k + 3
      /\ DOMAIN prepared = 1..(k + 3)
  BY PreparedTokens, LenProperties
<1>2. /\ FindBytes(prepared, ByteRange(Sentinel)) = k + 1
      /\ FindBytes(prepared, Contents(Zeros)) = k + 2
  BY PlaceholdersFound
<1>3. PatchByteRange(prepared) = patched
  <2> HIDE DEF k, prepared
  <2>1. k + 2 - 1 = k + 1 /\ k + 3 - (k + 2) = 1
    BY <1>1
  <2> QED BY <1>1, <1>2, <2>1 DEF PatchByteRange
<1>4. SignedPdf(source) = signed
  <2> HIDE DEF k, stated, patched
  <2> QED BY <1>2, <1>3 DEF SignedPdf, InsertCmsSignature
<1> DEFINE All == Tokens(source) \cup {ByteRange(stated), Contents(digest)}
<1>5. /\ patched \in Seq(All) /\ Len(patched) = k + 3
      /\ signed \in Seq(All) /\ Len(signed) = k + 3
      /\ signed[k + 1] = ByteRange(stated)
      /\ signed[k + 2] = Contents(digest)
      /\ \A i \in 1..(k + 3) : i # k + 2 => signed[i] = patched[i]
  <2> HIDE DEF k, prepared, stated, digest, All
  <2>1. prepared \in [1..(k + 3) -> All]
    BY <1>1, LenProperties DEF All
  <2>2. patched \in [1..(k + 3) -> All]
    BY <2>1 DEF All
  <2>3. signed \in [1..(k + 3) -> All]
    BY <2>2 DEF All
  <2>4. k + 1 \in 1..(k + 3) /\ k + 2 \in 1..(k + 3) /\ k + 3 \in Nat /\ k + 1 # k + 2
    BY <1>1
  <2>5. signed[k + 1] = ByteRange(stated) /\ signed[k + 2] = Contents(digest)
    BY <2>1, <2>2, <2>4
  <2>6. \A i \in 1..(k + 3) : i # k + 2 => signed[i] = patched[i]
    BY <2>2
  <2> HIDE DEF patched, signed
  <2>7. patched \in Seq(All) /\ Len(patched) = k + 3
    BY <2>2, <2>4
  <2>8. signed \in Seq(All) /\ Len(signed) = k + 3
    BY <2>3, <2>4
  <2> QED BY <2>5, <2>6, <2>7, <2>8
<1> HIDE DEF k, prepared, patched, signed, All
<1>6. /\ SubSeq(signed, 1, k + 1) = SubSeq(patched, 1, k + 1)
      /\ SubSeq(signed, k + 3, k + 3) = SubSeq(patched, k + 3, k + 3)
  <2>1. ASSUME NEW a \in 1..(k + 3), NEW b \in 1..(k + 3), k + 2 \notin a..b
        PROVE  SubSeq(signed, a, b) = SubSeq(patched, a, b)
    <3> DEFINE s == SubSeq(signed, a, b)
               p == SubSeq(patched, a, b)
    <3>1. a \in Int /\ b \in Int
      BY <1>1
    <3>2. \A i \in a..b : signed[i] \in All /\ patched[i] \in All /\ signed[i] = patched[i]
      BY <1>1, <1>5, <2>1, ElementOfSeq
    <3>3. /\ s \in Seq(All) /\ Len(s) = (IF a <= b THEN b - a + 1 ELSE 0)
          /\ \A i \in 1..(b - a + 1) : s[i] = signed[a + i - 1]
      BY ONLY <3>1, <3>2, SubSeqProperties
    <3>4. /\ p \in Seq(All) /\ Len(p) = (IF a <= b THEN b - a + 1 ELSE 0)
          /\ \A i \in 1..(b - a + 1) : p[i] = patched[a + i - 1]
      BY ONLY <3>1, <3>2, SubSeqProperties
    <3> HIDE DEF s, p
    <3>5. \A i \in 1..Len(s) : s[i] = p[i]
      BY <3>1, <3>2, <3>3, <3>4
    <3> QED BY <3>3, <3>4, <3>5, SeqEqual DEF s, p
  <2>2. k + 2 \notin 1..(k + 1) /\ k + 2 \notin (k + 3)..(k + 3)
    BY <1>1
  <2>3. 1 \in 1..(k + 3) /\ k + 1 \in 1..(k + 3) /\ k + 3 \in 1..(k + 3)
    BY <1>1
  <2>4. SubSeq(signed, 1, k + 1) = SubSeq(patched, 1, k + 1)
    BY ONLY <2>1, <2>2, <2>3
  <2>5. SubSeq(signed, k + 3, k + 3) = SubSeq(patched, k + 3, k + 3)
    BY ONLY <2>1, <2>2, <2>3
  <2> QED BY <2>4, <2>5
<1>7. Covered(signed, stated) = digest
  <2>1. /\ stated[1] + 1 = 1 /\ stated[1] + stated[2] = k + 1
        /\ stated[3] + 1 = k + 3 /\ stated[3] + stated[4] = k + 3
        /\ k + 2 - 1 = k + 1 /\ k + 2 + 1 = k + 3
    BY <1>1
  <2> HIDE DEF stated
  <2>2. Covered(signed, stated) = SubSeq(signed, 1, k + 1) \o SubSeq(signed, k + 3, k + 3)
    BY ONLY <2>1 DEF Covered
  <2>3. Len(patched) = k + 3
    BY <1>5
  <2>4. digest = SubSeq(patched, 1, k + 1) \o SubSeq(patched, k + 3, k + 3)
    <3>1. k \in Nat
      BY <1>1
    <3> QED BY ONLY <3>1, <2>3 DEF DigestByteRange, digest
  <2> QED BY ONLY <2>2, <2>4, <1>6
<1> DEFINE m == k + 2
<1>8. m = k + 2 /\ m - 1 = k + 1 /\ Len(signed) - m = 1
  BY <1>1, <1>5
<1> HIDE DEF m, stated, digest
<1>9. /\ signed[m - 1].kind = "byteRange" /\ signed[m - 1].value = stated
      /\ signed[m].kind = "contents" /\ signed[m].value = digest
  BY <1>5, <1>8 DEF ByteRange, Contents
<1>10. stated # Sentinel /\ stated = <<0, m - 1, m, Len(signed) - m>>
  BY <1>8 DEF Sentinel, stated
<1>11. /\ signed[m - 1].value # Sentinel
       /\ signed[m - 1].value = <<0, m - 1, m, Len(signed) - m>>
       /\ signed[m].value = Covered(signed, signed[m - 1].value)
  BY ONLY <1>7, <1>9, <1>10
<1>12. Verifies(signed, m)
  BY ONLY <1>9, <1>11 DEF Verifies
<1> QED BY <1>4, <1>8, <1>12 DEF k

-----------------------------------------------------------------------------
(* The batch. *)

\* What sign_manual_batch can return of a file.
Signed ==
    UNION {{SignedFile(f, "jws") : f \in Range(b.jws)}
               \cup {SignedFile(f, "pdf") : f \in Range(b.pdf)} : b \in Batches}

\* A list of files signed in one format.
LEMMA ListSigned ==
    ASSUME NEW files \in Seq(Files), NEW format \in {"jws", "pdf"}, NEW T,
           \A f \in Range(files) : SignedFile(f, format) \in T
    PROVE  SignedFiles(files, format) \in Seq(T) /\ Len(SignedFiles(files, format)) = Len(files)
<1> DEFINE s == SignedFiles(files, format)
           n == Len(files)
<1>1. n \in Nat /\ DOMAIN files = 1..n
  BY LenProperties
<1>2. \A i \in 1..n : files[i] \in Range(files)
  BY <1>1 DEF Range
<1>3. s \in [1..n -> T]
  <2> HIDE DEF n
  <2> QED BY <1>1, <1>2 DEF SignedFiles
<1> HIDE DEF s, n
<1>4. s \in Seq(T) /\ Len(s) = n
  BY <1>1, <1>3
<1> QED BY <1>4 DEF s, n

\* The documents of a batch: one for each of its files, the JSON ones first.
LEMMA BatchSigned ==
    ASSUME NEW b \in Batches
    PROVE  /\ Size(b) \in Nat \ {0}
           /\ SignedBatch(b) \in Seq(Signed) /\ Len(SignedBatch(b)) = Size(b)
<1> DEFINE j == SignedFiles(b.jws, "jws")
           p == SignedFiles(b.pdf, "pdf")
<1>1. b.jws \in Seq(Files) /\ b.pdf \in Seq(Files) /\ (b.jws # <<>> \/ b.pdf # <<>>)
  BY BatchesAssumption
<1>2. j \in Seq(Signed) /\ Len(j) = Len(b.jws)
  <2>1. \A f \in Range(b.jws) : SignedFile(f, "jws") \in Signed
    BY DEF Signed
  <2> QED BY ONLY <1>1, <2>1, ListSigned
<1>3. p \in Seq(Signed) /\ Len(p) = Len(b.pdf)
  <2>1. \A f \in Range(b.pdf) : SignedFile(f, "pdf") \in Signed
    BY DEF Signed
  <2> QED BY ONLY <1>1, <2>1, ListSigned
<1>4. Size(b) \in Nat \ {0}
  <2>1. Len(b.jws) \in Nat /\ Len(b.pdf) \in Nat
    BY <1>1, LenProperties
  <2>2. Len(b.jws) # 0 \/ Len(b.pdf) # 0
    BY <1>1, EmptySeq
  <2>3. \A x, y \in Nat : x # 0 \/ y # 0 => x + y \in Nat \ {0}
    OBVIOUS
  <2> QED BY ONLY <2>1, <2>2, <2>3 DEF Size
<1> HIDE DEF j, p
<1>5. j \o p \in Seq(Signed) /\ Len(j \o p) = Len(j) + Len(p)
  BY <1>2, <1>3, ConcatProperties
<1>6. SignedBatch(b) = j \o p
  BY DEF SignedBatch, j, p
<1> QED BY <1>2, <1>3, <1>4, <1>5, <1>6 DEF Size

\* A document is a file under the name of its format.
LEMMA DocumentOfFile ==
    ASSUME NEW d \in Signed
    PROVE  /\ d.name \in Outputs
           /\ \E f \in Files, format \in {"jws", "pdf"} :
                  d = SignedFile(f, format) /\ d.name = OutputName(f, format)
<1>1. PICK b \in Batches : \/ \E f \in Range(b.jws) : d = SignedFile(f, "jws")
                          \/ \E f \in Range(b.pdf) : d = SignedFile(f, "pdf")
  BY DEF Signed
<1>2. \A f, format : SignedFile(f, format).name = OutputName(f, format)
  BY DEF SignedFile
<1>3. CASE \E f \in Range(b.jws) : d = SignedFile(f, "jws")
  BY <1>2, <1>3 DEF Outputs, Files
<1>4. CASE \E f \in Range(b.pdf) : d = SignedFile(f, "pdf")
  BY <1>2, <1>4 DEF Outputs, Files
<1> QED BY <1>1, <1>3, <1>4

\* A signed PDF of the batch verifies.
LEMMA DocumentVerifies ==
    ASSUME NEW d \in Signed, d.name.format = "pdf", HasNoPlaceholder(d.source)
    PROVE  Verifies(d.data, Len(d.source) + 2)
<1>1. PICK f \in Files, format \in {"jws", "pdf"} :
         d = SignedFile(f, format) /\ d.name = OutputName(f, format)
  BY DocumentOfFile
<1>2. format = "pdf"
  BY <1>1 DEF OutputName
<1>3. d.source = f.source /\ d.data = SignedPdf(f.source)
  BY <1>1, <1>2 DEF SignedFile
<1>4. f.source \in Seq(Range(f.source))
  BY BatchesAssumption
<1> QED BY <1>3, <1>4, SignedPdfsVerify

-----------------------------------------------------------------------------
(* The names. *)

\* A name of the batch takes every counter to another name.
LEMMA NumberedApart ==
    ASSUME NEW name \in Outputs, NEW i \in Nat, NEW k \in Nat,
           Numbered(name, i) = Numbered(name, k)
    PROVE  i = k
<1>1. PICK f \in Files, format \in {"jws", "pdf"} : name = OutputName(f, format)
  BY DEF Outputs, Files
<1> DEFINE c == f.counters
<1>2. c \in Seq(Nat)
  BY BatchesAssumption
<1>3. name.counters = c /\ \A x : [name EXCEPT !.counters = x].counters = x
  BY <1>1 DEF OutputName
<1>4. \A x \in Nat : /\ Len(Append(c, x)) = Len(c) + 1
                     /\ Append(c, x)[Len(c) + 1] = x
  BY <1>2, AppendProperties
<1>5. Len(c) \in Nat
  BY <1>2, LenProperties
<1>6. \A x \in Nat \ {0} : Numbered(name, x).counters = Append(c, x)
  BY <1>3 DEF Numbered
<1>7. Numbered(name, 0).counters = c
  BY <1>3 DEF Numbered
<1> HIDE DEF c
<1>8. \A x \in Nat : Append(c, x) # c
  BY <1>4, <1>5
<1>9. \A x, y \in Nat : Append(c, x) = Append(c, y) => x = y
  BY <1>4
<1> QED BY <1>6, <1>7, <1>8, <1>9

\* The names a ZIP's entries can have.
EntryNames == {Numbered(name, i) : name \in Outputs, i \in Nat}

\* A nonempty set of counters has a least one.
LEMMA LeastCounter ==
    ASSUME NEW T \in SUBSET Nat, T # {}
    PROVE  \E x \in T : \A y \in T : x <= y
<1>1. PICK x \in T : \A y \in T : ~(<<y, x>> \in OpToRel(<, Nat))
  BY NatLessThanWellFounded, WFMin
<1>2. \A y \in T : ~(y < x)
  BY <1>1 DEF OpToRel
<1> QED BY <1>2

\* unique_zip_entry_name ends, after at most as many counters as there are
\* entries, and its name is none of theirs.
LEMMA EntryNameIsNew ==
    ASSUME NEW used \in Seq(EntryNames), NEW name \in Outputs
    PROVE  /\ UniqueZipEntryName(used, name) \in EntryNames
           /\ \A k \in DOMAIN used : used[k] # UniqueZipEntryName(used, name)
<1> DEFINE L == Len(used)
           New(i) == \A k \in DOMAIN used : used[k] # Numbered(name, i)
           Free == {i \in 0..L : New(i)}
           f == [i \in 0..L |-> CHOOSE k \in 1..L : used[k] = Numbered(name, i)]
<1>1. L \in Nat /\ DOMAIN used = 1..L
  BY LenProperties
<1>2. Free # {}
  <2> SUFFICES ASSUME Free = {} PROVE FALSE
    OBVIOUS
  <2>1. \A i \in 0..L : \E k \in 1..L : used[k] = Numbered(name, i)
    BY <1>1
  <2>2. \A i \in 0..L : f[i] \in 1..L /\ used[f[i]] = Numbered(name, i)
    BY <2>1
  <2>3. f \in [0..L -> 1..L]
    BY <2>2
  <2> HIDE DEF L, f
  <2>4. /\ IsFiniteSet(0..L) /\ Cardinality(0..L) = L + 1
        /\ IsFiniteSet(1..L) /\ Cardinality(1..L) = L
    BY <1>1, FS_Interval
  <2>5. Cardinality(1..L) < Cardinality(0..L)
    BY <1>1, <2>4
  <2>6. PICK x \in 0..L, y \in 0..L : x # y /\ f[x] = f[y]
    <3> DEFINE S == 0..L
               T == 1..L
    <3>1. /\ IsFiniteSet(S) /\ IsFiniteSet(T) /\ Cardinality(T) < Cardinality(S)
          /\ f \in [S -> T]
      BY <2>3, <2>4, <2>5
    <3> HIDE DEF S, T
    <3>2. \E x, y \in S : x # y /\ f[x] = f[y]
      BY ONLY <3>1, FS_PigeonHole
    <3> QED BY <3>2 DEF S
  <2>7. Numbered(name, x) = Numbered(name, y) /\ x \in Nat /\ y \in Nat
    BY <1>1, <2>2, <2>6
  <2> QED BY <2>6, <2>7, NumberedApart
<1>3. PICK least \in Free : \A y \in Free : least <= y
  <2>1. Free \in SUBSET Nat
    BY <1>1
  <2> HIDE DEF Free
  <2> QED BY ONLY <1>2, <2>1, LeastCounter
<1>4. least \in 0..L /\ New(least) /\ \A j \in 0..(least - 1) : ~New(j)
  <2>1. least \in 0..L /\ New(least)
    BY <1>3
  <2> HIDE DEF L
  <2>2. \A j \in 0..(least - 1) : j \in 0..L /\ ~(least <= j)
    BY <1>1, <2>1
  <2> QED BY <1>3, <2>1, <2>2
<1> DEFINE i == CHOOSE n \in 0..L : New(n) /\ \A j \in 0..(n - 1) : ~New(j)
<1>5. i \in 0..L /\ New(i)
  <2> HIDE DEF L, New
  <2> QED BY <1>4
<1>6. UniqueZipEntryName(used, name) = Numbered(name, i)
  BY DEF UniqueZipEntryName
<1> HIDE DEF i
<1> QED BY <1>1, <1>5, <1>6 DEF EntryNames

\* Entries that are all different are as many as the set of their names.
LEMMA EntriesCounted ==
    ASSUME NEW used \in Seq(EntryNames),
           \A i, k \in DOMAIN used : used[i] = used[k] => i = k
    PROVE  Cardinality(Range(used)) = Len(used)
<1>1. Len(used) \in Nat /\ DOMAIN used = 1..Len(used) /\ used \in [1..Len(used) -> EntryNames]
  BY LenProperties
<1> DEFINE n == Len(used)
<1>2. used \in [1..n -> Range(used)]
  BY <1>1 DEF Range
<1>3. used \in Bijection(1..n, Range(used))
  <2>1. used \in Injection(1..n, Range(used))
    BY <1>1, <1>2 DEF Injection, IsInjective
  <2>2. used \in Surjection(1..n, Range(used))
    BY <1>1, <1>2 DEF Surjection, Range
  <2> QED BY <2>1, <2>2 DEF Bijection
<1>4. ExistsBijection(1..n, Range(used))
  BY <1>3 DEF ExistsBijection
<1>5. IsFiniteSet(1..n) /\ Cardinality(1..n) = n
  BY <1>1, FS_Interval
<1> QED BY <1>4, <1>5, FS_Bijection

-----------------------------------------------------------------------------
(* The runs. *)

\* The types, with what the documents and the entries are.
Types ==
    /\ TypeOK
    /\ documents \in [Runs -> Seq(Signed)]
    /\ entries \in [Runs -> Seq(EntryNames)]

\* A run has documents once they are signed, and a result at its end only.
Progress(r) ==
    /\ pc[r] \in {"idle", "choosing", "signing"} =>
           documents[r] = <<>> /\ entries[r] = <<>>
    /\ pc[r] = "signing" => batch[r] \in Batches
    /\ pc[r] \in {"testing", "creating", "writing"} \/ told[r] = "saved" =>
           batch[r] \in Batches /\ Len(documents[r]) = Size(batch[r])
    /\ told[r] # "nothing" => pc[r] = "ended"

\* The entries of a ZIP are all different, and complete when it is saved.
Listed(r) ==
    /\ \A i, k \in DOMAIN entries[r] : entries[r][i] = entries[r][k] => i = k
    /\ told[r] = "saved" /\ IsZip(r) => Len(entries[r]) = Len(documents[r])

\* The name a run found free stays free until it is used, and holds what the run
\* wrote from then on; no other name ever holds a complete output of the run.
Holds(r) ==
    /\ ~raced =>
           /\ pc[r] = "creating" => directory[Path(r)] = Absent
           /\ pc[r] = "writing" => directory[Path(r)] = Part(r)
           /\ told[r] = "saved" => directory[Path(r)] = Whole(r)
    /\ \A n \in Names : directory[n] = Whole(r) => told[r] = "saved"

\* Until runs mix, only one of them works, and the results on display are its.
Counts ==
    /\ ~mixed =>
           \A r \in Runs :
               /\ pc[r] \in Working => \A q \in Runs \ {r} : pc[q] \notin Working
               /\ pc[r] = "signing" => manualResults = {}
               /\ pc[r] \in Saving => manualResults = {r}
    /\ \A r \in Runs : told[r] = "saved" => counted[r] = {r} \/ mixed

OutputInv == Types /\ \A r \in Runs : Progress(r) /\ Listed(r) /\ Holds(r)

\* What a run alone decides.
Unmoved(r) ==
    /\ pc'[r] = pc[r] /\ batch'[r] = batch[r] /\ documents'[r] = documents[r]
    /\ index'[r] = index[r] /\ entries'[r] = entries[r] /\ told'[r] = told[r]

\* The contents of files differ.
LEMMA ContentsApart ==
    /\ \A r, q \in Runs : /\ Part(r) # Whole(q)
                          /\ Whole(r) = Whole(q) \/ Part(r) = Part(q) => r = q
    /\ \A r \in Runs : /\ Absent # Whole(r) /\ Absent # Part(r) /\ Other # Whole(r)
                       /\ Other # Part(r) /\ ~Part(r).whole
    /\ Absent # Other
  BY AbsentAssumption DEF Whole, Part, Other

\* A run that somebody else's step leaves alone keeps what it had, when the step
\* spares its name or is recorded as a race.
LEMMA UnmovedKeeps ==
    ASSUME NEW r \in Runs, Progress(r), Listed(r), Holds(r), Unmoved(r), raced => raced',
           ~raced' /\ (pc[r] \in {"creating", "writing"} \/ told[r] = "saved") =>
               directory'[Path(r)] = directory[Path(r)],
           \A n \in Names : directory'[n] = Whole(r) => directory[n] = Whole(r)
    PROVE  Progress(r)' /\ Listed(r)' /\ Holds(r)'
<1>1. Path(r)' = Path(r) /\ IsZip(r)' = IsZip(r)
  BY DEF Path, IsZip, Unmoved
<1>2. Progress(r)'
  BY DEF Progress, Unmoved
<1>3. Listed(r)'
  BY <1>1 DEF Listed, Unmoved
<1>4. Holds(r)'
  BY <1>1 DEF Holds, Unmoved
<1> QED BY <1>2, <1>3, <1>4

\* The path of a run that saves is a name of the folder.
LEMMA PathIsName ==
    ASSUME Types, NEW r \in Runs, Progress(r),
           pc[r] \in {"testing", "creating", "writing"} \/ told[r] = "saved"
    PROVE  Path(r) \in Names /\ Len(documents[r]) \in Nat \ {0}
<1>1. batch[r] \in Batches /\ Len(documents[r]) = Size(batch[r])
  BY DEF Progress
<1>2. Len(documents[r]) \in Nat \ {0}
  BY <1>1, BatchSigned
<1>3. index[r] \in 0..MaxIndex
  BY DEF Types, TypeOK
<1>4. documents[r][1].name \in Outputs
  <2>1. documents[r] \in Seq(Signed) /\ 1 \in 1..Len(documents[r])
    BY <1>2 DEF Types
  <2>2. documents[r][1] \in Signed
    BY <2>1, ElementOfSeq
  <2> QED BY <2>2, DocumentOfFile
<1> DEFINE name == IF IsZip(r) THEN ZipName ELSE documents[r][1].name
<1>5. name \in Outputs \cup {ZipName}
  BY <1>4
<1>6. Path(r) = Numbered(name, index[r])
  BY DEF Path
<1> HIDE DEF name
<1>7. Path(r) \in Names
  <2>1. \A n \in Outputs \cup {ZipName} : \A i \in 0..MaxIndex : Numbered(n, i) \in Names
    BY DEF Names
  <2> QED BY ONLY <1>3, <1>5, <1>6, <2>1
<1> QED BY <1>2, <1>7

\* The types after a step.
LEMMA TypesKept ==
    ASSUME OutputInv, [Next]_vars
    PROVE  Types'
<1> USE DEF Types, TypeOK, Saving, Working, uiVars, histories, Goto, End
<1> DEFINE Contents1 == {Absent, Other} \cup {Whole(r) : r \in Runs} \cup {Part(r) : r \in Runs}
<1>1. Types /\ \A r \in Runs : Progress(r) /\ Listed(r) /\ Holds(r)
  BY DEF OutputInv
<1>0. counted' \in [Runs -> SUBSET Runs] /\ raced' \in BOOLEAN /\ mixed' \in BOOLEAN
  BY <1>1
     DEF Next, ClickSign, DirectoryChosen, SignManualBatch, UniqueOutputPath, Create,
         AddEntry, Finish, SaveFails, ChangeManualFiles, OtherCreates, vars
<1>2. ASSUME NEW r \in Runs, ClickSign(r)
      PROVE  Types'
  BY <1>0, <1>1, <1>2 DEF ClickSign
<1>3. ASSUME NEW r \in Runs, DirectoryChosen(r)
      PROVE  Types'
  <2>1. pc[r] = "choosing" /\ documents[r] = <<>> /\ entries[r] = <<>>
    BY <1>1, <1>3 DEF DirectoryChosen, Progress
  <2>2. /\ pc' \in [Runs -> {"idle", "choosing", "ended"} \cup Working]
        /\ batch' \in [Runs -> Batches \cup {NoFiles}]
        /\ told' \in [Runs -> {"nothing", "cancelled", "saved", "failed"}]
        /\ manualSigningInProgress' \in BOOLEAN /\ manualResults' \subseteq Runs
        /\ UNCHANGED <<directory, others, documents, index, entries, raced>>
    BY <1>1, <1>3 DEF DirectoryChosen
  <2>3. \A q \in Runs : q = r \/ batch'[q] = batch[q]
    BY <1>1, <1>3 DEF DirectoryChosen
  <2>4. \A q \in Runs : Len(documents'[q]) \in {0, Size(batch'[q])}
    BY <1>1, <2>1, <2>2, <2>3
  <2> QED BY <1>0, <1>1, <2>2, <2>4
<1>4. ASSUME NEW r \in Runs, SignManualBatch(r)
      PROVE  Types'
  <2>1. /\ documents[r] = <<>> /\ entries[r] = <<>> /\ batch[r] \in Batches
        /\ UNCHANGED <<directory, others, batch, index, entries, raced>>
    BY <1>1, <1>4 DEF SignManualBatch, Progress
  <2>2. /\ pc' \in [Runs -> {"idle", "choosing", "ended"} \cup Working]
        /\ told' \in [Runs -> {"nothing", "cancelled", "saved", "failed"}]
        /\ manualSigningInProgress' \in BOOLEAN /\ manualResults' \subseteq Runs
    BY <1>1, <1>4 DEF SignManualBatch
  <2>3. CASE documents' = [documents EXCEPT ![r] = SignedBatch(batch[r])]
    <3>1. /\ SignedBatch(batch[r]) \in Seq(Signed) /\ Size(batch[r]) \in Nat
          /\ Len(SignedBatch(batch[r])) = Size(batch[r])
      BY <2>1, BatchSigned
    <3>2. documents' \in [Runs -> Seq(Signed)]
      BY <1>1, <2>3, <3>1
    <3>3. ASSUME NEW q \in Runs
          PROVE  /\ Len(documents'[q]) \in {0, Size(batch'[q])}
                 /\ Len(entries'[q]) \in 0..Len(documents'[q])
      <4>1. CASE q = r
        BY <1>1, <2>1, <2>3, <3>1, <4>1
      <4>2. CASE q # r
        BY <1>1, <2>1, <2>3, <4>2
      <4> QED BY <4>1, <4>2
    <3> QED BY <1>0, <1>1, <2>1, <2>2, <3>2, <3>3
  <2>4. CASE documents' = documents
    BY <1>0, <1>1, <2>1, <2>2, <2>4
  <2> QED BY <1>4, <2>3, <2>4 DEF SignManualBatch
<1>5. ASSUME NEW r \in Runs, UniqueOutputPath(r)
      PROVE  Types'
  <2>1. index' \in [Runs -> 0..MaxIndex]
    <3>1. index \in [Runs -> 0..MaxIndex] /\ \A i \in 0..MaxIndex : i < MaxIndex => i + 1 \in 0..MaxIndex
      BY <1>1, BoundsAssumption
    <3>2. \/ index' = index
          \/ index[r] < MaxIndex /\ index' = [index EXCEPT ![r] = @ + 1]
      BY <1>5 DEF UniqueOutputPath
    <3> QED BY ONLY <3>1, <3>2
  <2>2. pc' \in [Runs -> {"idle", "choosing", "ended"} \cup Working]
    BY <1>1, <1>5 DEF UniqueOutputPath
  <2>3. UNCHANGED <<directory, others, uiVars, batch, documents, entries, told, raced>>
    BY <1>5 DEF UniqueOutputPath
  <2> QED BY <1>0, <1>1, <2>1, <2>2, <2>3
<1>6. ASSUME NEW r \in Runs, Create(r)
      PROVE  Types'
  <2>1. directory' \in [Names -> Contents1]
    BY <1>1, <1>6 DEF Create
  <2>2. pc' \in [Runs -> {"idle", "choosing", "ended"} \cup Working] /\ raced' \in BOOLEAN
    BY <1>1, <1>6 DEF Create
  <2>3. UNCHANGED <<others, uiVars, batch, documents, index, entries, told>>
    BY <1>6 DEF Create
  <2> QED BY <1>0, <1>1, <2>1, <2>2, <2>3
<1>7. ASSUME NEW r \in Runs, AddEntry(r)
      PROVE  Types'
  <2> DEFINE next == Len(entries[r]) + 1
             name == documents[r][next].name
             added == UniqueZipEntryName(entries[r], name)
  <2>1. /\ entries[r] \in Seq(EntryNames) /\ documents[r] \in Seq(Signed)
        /\ next <= Len(documents[r]) /\ entries' = [entries EXCEPT ![r] = Append(@, added)]
        /\ UNCHANGED <<directory, others, uiVars, pc, batch, documents, index, told, raced>>
    BY <1>1, <1>7 DEF AddEntry
  <2>2. next \in 1..Len(documents[r]) /\ Len(documents[r]) \in Nat
    BY <2>1, LenProperties
  <2>3. name \in Outputs
    BY <2>1, <2>2, ElementOfSeq, DocumentOfFile
  <2> HIDE DEF name
  <2>4. added \in EntryNames
    BY <2>1, <2>3, EntryNameIsNew
  <2> HIDE DEF added
  <2>5. Append(entries[r], added) \in Seq(EntryNames) /\ Len(Append(entries[r], added)) = next
    BY <2>1, <2>4, AppendProperties
  <2>6. entries' \in [Runs -> Seq(EntryNames)]
    BY <1>1, <2>1, <2>5
  <2>7. ASSUME NEW q \in Runs
        PROVE  Len(entries'[q]) \in 0..Len(documents'[q])
    <3>1. CASE q = r
      BY <1>1, <2>1, <2>2, <2>5, <3>1
    <3>2. CASE q # r
      BY <1>1, <2>1, <3>2
    <3> QED BY <3>1, <3>2
  <2> QED BY <1>0, <1>1, <2>1, <2>6, <2>7
<1>8. ASSUME NEW r \in Runs, Finish(r)
      PROVE  Types'
  <2>1. directory' \in [Names -> Contents1]
    <3>1. \A n \in Names : directory'[n] = directory[n] \/ directory'[n] \in {Whole(r), Part(r)}
      BY <1>1, <1>8 DEF Finish
    <3>2. directory' = [n \in Names |-> directory'[n]]
      BY <1>1, <1>8 DEF Finish
    <3> QED BY <1>0, <1>1, <3>1, <3>2
  <2>2. /\ pc' \in [Runs -> {"idle", "choosing", "ended"} \cup Working]
        /\ told' \in [Runs -> {"nothing", "cancelled", "saved", "failed"}]
        /\ manualSigningInProgress' \in BOOLEAN /\ manualResults' \subseteq Runs
    BY <1>1, <1>8 DEF Finish
  <2>3. UNCHANGED <<others, batch, documents, index, entries, raced>>
    BY <1>8 DEF Finish
  <2> QED BY <1>0, <1>1, <2>1, <2>2, <2>3
<1>9. ASSUME NEW r \in Runs, SaveFails(r)
      PROVE  Types'
  <2>2. /\ pc' \in [Runs -> {"idle", "choosing", "ended"} \cup Working]
        /\ told' \in [Runs -> {"nothing", "cancelled", "saved", "failed"}]
        /\ manualSigningInProgress' \in BOOLEAN /\ manualResults' \subseteq Runs
    BY <1>1, <1>9 DEF SaveFails
  <2>3. UNCHANGED <<directory, others, batch, documents, index, entries, raced>>
    BY <1>9 DEF SaveFails
  <2> QED BY <1>0, <1>1, <2>2, <2>3
<1>10. ASSUME ChangeManualFiles
       PROVE  Types'
  BY <1>0, <1>1, <1>10 DEF ChangeManualFiles
<1>11. ASSUME NEW n \in OtherNames, OtherCreates(n)
       PROVE  Types'
  <2>1. directory' \in [Names -> Contents1]
    BY <1>1, <1>11, OtherNamesAssumption DEF OtherCreates
  <2>2. others' \in 0..MaxOthers
    BY <1>1, <1>11, BoundsAssumption DEF OtherCreates
  <2>3. UNCHANGED <<uiVars, pc, batch, documents, index, entries, told>>
    BY <1>11 DEF OtherCreates
  <2> QED BY <1>0, <1>1, <2>1, <2>2, <2>3
<1>12. ASSUME UNCHANGED vars
       PROVE  Types'
  BY <1>0, <1>1, <1>12 DEF vars
<1> QED
  BY <1>2, <1>3, <1>4, <1>5, <1>6, <1>7, <1>8, <1>9, <1>10, <1>11, <1>12 DEF Next

\* What has to be shown of a step: it keeps the run that takes it.
Kept(r) == Progress(r)' /\ Listed(r)' /\ Holds(r)'

\* A run that comes no further than a name to test, or ends without a result,
\* holds nothing yet.
LEMMA EarlyKeeps ==
    ASSUME OutputInv, NEW r \in Runs, ClickSign(r) \/ DirectoryChosen(r) \/ SignManualBatch(r)
    PROVE  Kept(r)
<1> USE DEF OutputInv, Types, TypeOK, histories, Goto, End
<1>1. Progress(r) /\ Listed(r) /\ Holds(r) /\ told[r] = "nothing"
  BY DEF Progress, ClickSign, DirectoryChosen, SignManualBatch
<1>2. /\ pc[r] \in {"idle", "choosing", "signing"}
      /\ documents[r] = <<>> /\ entries[r] = <<>>
      /\ UNCHANGED <<directory, entries, raced>>
  BY <1>1 DEF Progress, ClickSign, DirectoryChosen, SignManualBatch
<1>3. /\ pc'[r] \notin {"creating", "writing"} /\ told'[r] # "saved"
      /\ told'[r] # "nothing" => pc'[r] = "ended"
  BY <1>1 DEF ClickSign, DirectoryChosen, SignManualBatch
<1>4. \A n \in Names : directory[n] # Whole(r)
  BY <1>1 DEF Holds
<1>5. Listed(r)' /\ Holds(r)'
  BY <1>2, <1>3, <1>4 DEF Listed, Holds
<1>6. Progress(r)'
  <2>1. CASE ClickSign(r)
    BY <1>1, <1>2, <2>1 DEF Progress, ClickSign
  <2>2. CASE DirectoryChosen(r)
    <3>1. pc'[r] = "signing" => batch'[r] \in Batches
      BY <2>2 DEF DirectoryChosen
    <3>2. pc'[r] \in {"signing", "ended"} /\ documents' = documents
      BY <2>2 DEF DirectoryChosen
    <3> QED BY <1>2, <1>3, <3>1, <3>2 DEF Progress
  <2>3. CASE SignManualBatch(r)
    <3>1. batch[r] \in Batches /\ batch' = batch
      BY <1>1, <2>3 DEF Progress, SignManualBatch
    <3>2. CASE pc'[r] = "testing" /\ documents' = [documents EXCEPT ![r] = SignedBatch(batch[r])]
      <4>1. Len(documents'[r]) = Size(batch[r])
        BY <3>1, <3>2, BatchSigned
      <4> QED BY <1>3, <3>1, <3>2, <4>1 DEF Progress
    <3>3. CASE pc'[r] = "ended"
      BY <1>3, <3>3 DEF Progress
    <3>4. \/ pc'[r] = "testing" /\ documents' = [documents EXCEPT ![r] = SignedBatch(batch[r])]
          \/ pc'[r] = "ended"
      BY <2>3 DEF SignManualBatch
    <3> QED BY <3>2, <3>3, <3>4
  <2> QED BY <2>1, <2>2, <2>3
<1> QED BY <1>5, <1>6 DEF Kept

\* A run that writes has its name, with the part it wrote, until the last byte.
LEMMA SavingKeeps ==
    ASSUME OutputInv, NEW r \in Runs,
           UniqueOutputPath(r) \/ Create(r) \/ AddEntry(r) \/ Finish(r) \/ SaveFails(r)
    PROVE  Kept(r)
<1> USE DEF OutputInv, Types, TypeOK, Saving, histories, Goto, End
<1>1. /\ Progress(r) /\ Listed(r) /\ Holds(r)
      /\ pc[r] \in {"testing", "creating", "writing"}
  BY DEF UniqueOutputPath, Create, AddEntry, Finish, SaveFails
<1>2. /\ told[r] = "nothing" /\ batch[r] \in Batches
      /\ Len(documents[r]) = Size(batch[r])
      /\ \A n \in Names : directory[n] # Whole(r)
      /\ Path(r) \in Names
  BY <1>1, PathIsName DEF Progress, Holds
<1>3. UNCHANGED <<batch, documents>>
  BY DEF UniqueOutputPath, Create, AddEntry, Finish, SaveFails
<1>4. CASE UniqueOutputPath(r)
  <2>1. UNCHANGED <<directory, entries, told, raced>> /\ pc'[r] \in {"testing", "creating"}
    BY <1>4 DEF UniqueOutputPath
  <2>2. pc'[r] = "creating" => directory[Path(r)] = Absent /\ index' = index
    BY <1>4 DEF UniqueOutputPath
  <2>3. index' = index => Path(r)' = Path(r)
    BY <1>3 DEF Path, IsZip
  <2>4. Progress(r)'
    BY <1>1, <1>2, <1>3, <2>1 DEF Progress
  <2>5. Listed(r)'
    BY <1>1, <1>2, <2>1 DEF Listed
  <2>6. Holds(r)'
    BY <1>2, <2>1, <2>2, <2>3 DEF Holds
  <2> QED BY <2>4, <2>5, <2>6 DEF Kept
<1>5. CASE Create(r)
  <2>1. UNCHANGED <<index, entries, told>> /\ pc'[r] = "writing"
    BY <1>5 DEF Create
  <2>2. Path(r)' = Path(r) /\ directory' = [directory EXCEPT ![Path(r)] = Part(r)]
    BY <1>3, <1>5, <2>1 DEF Create, Path, IsZip
  <2>3. Progress(r)'
    BY <1>1, <1>2, <1>3, <2>1 DEF Progress
  <2>4. Listed(r)'
    BY <1>1, <1>2, <2>1 DEF Listed
  <2>5. directory'[Path(r)] = Part(r) /\ \A n \in Names : directory'[n] # Whole(r)
    BY <1>2, <2>2, ContentsApart
  <2>6. Holds(r)'
    BY <1>2, <2>1, <2>2, <2>5 DEF Holds
  <2> QED BY <2>3, <2>4, <2>6 DEF Kept
<1>6. CASE AddEntry(r)
  <2> DEFINE used == entries[r]
             next == Len(used) + 1
             name == documents[r][next].name
             added == UniqueZipEntryName(used, name)
  <2>1. /\ used \in Seq(EntryNames) /\ documents[r] \in Seq(Signed)
        /\ next <= Len(documents[r]) /\ entries' = [entries EXCEPT ![r] = Append(@, added)]
        /\ UNCHANGED <<directory, pc, batch, documents, index, told, raced>>
    BY <1>6 DEF AddEntry
  <2>2. next \in 1..Len(documents[r]) /\ Len(used) \in Nat /\ DOMAIN used = 1..Len(used)
    BY <2>1, LenProperties
  <2>3. name \in Outputs
    BY <2>1, <2>2, ElementOfSeq, DocumentOfFile
  <2> HIDE DEF name
  <2>4. added \in EntryNames /\ \A k \in DOMAIN used : used[k] # added
    BY <2>1, <2>3, EntryNameIsNew
  <2>5. entries'[r] = Append(used, added)
    BY <2>1
  <2>d. \A i, k \in DOMAIN used : used[i] = used[k] => i = k
    BY <1>1 DEF Listed
  <2> HIDE DEF used, added
  <2>6. /\ DOMAIN Append(used, added) = 1..(Len(used) + 1)
        /\ \A i \in 1..Len(used) : Append(used, added)[i] = used[i]
        /\ Append(used, added)[Len(used) + 1] = added
    <3>1. Append(used, added) \in Seq(EntryNames) /\ Len(Append(used, added)) = Len(used) + 1
      BY <2>1, <2>4, AppendProperties
    <3>2. DOMAIN Append(used, added) = 1..Len(Append(used, added))
      BY <3>1, LenProperties
    <3>3. /\ \A i \in 1..Len(used) : Append(used, added)[i] = used[i]
          /\ Append(used, added)[Len(used) + 1] = added
      BY <2>1, <2>4, AppendProperties
    <3> QED BY ONLY <3>1, <3>2, <3>3
  <2>7. \A i, k \in DOMAIN entries'[r] : entries'[r][i] = entries'[r][k] => i = k
    <3>1. \A i \in 1..(Len(used) + 1) : i \in 1..Len(used) \/ i = Len(used) + 1
      BY <2>2
    <3> QED BY ONLY <2>2, <2>4, <2>5, <2>6, <2>d, <3>1
  <2>8. Progress(r)'
    BY <1>1, <1>2, <1>6, <2>1 DEF Progress, AddEntry
  <2>9. Listed(r)'
    BY <1>2, <2>1, <2>7 DEF Listed
  <2>10. Path(r)' = Path(r)
    BY <2>1 DEF Path, IsZip
  <2>11. Holds(r)'
    BY <1>1, <2>1, <2>10 DEF Holds
  <2> QED BY <2>8, <2>9, <2>11 DEF Kept
<1>7. CASE Finish(r)
  <2>1. /\ UNCHANGED <<index, entries, raced>> /\ pc[r] = "writing"
        /\ pc'[r] = "ended" /\ told'[r] = "saved"
        /\ IsZip(r) => Len(entries[r]) = Len(documents[r])
    BY <1>7 DEF Finish
  <2>2. Path(r)' = Path(r) /\ IsZip(r)' = IsZip(r)
    BY <1>3, <2>1 DEF Path, IsZip
  <2>3. ~raced => directory[Path(r)] = Part(r)
    BY <1>1, <2>1 DEF Holds
  <2>4. directory' = [directory EXCEPT ![Path(r)] =
                         IF directory[Path(r)] = Part(r) THEN Whole(r) ELSE Part(r)]
    BY <1>7 DEF Finish
  <2>5. ~raced => directory'[Path(r)] = Whole(r)
    BY <1>2, <2>3, <2>4
  <2>6. Progress(r)'
    BY <1>2, <1>3, <2>1 DEF Progress
  <2>7. Listed(r)'
    BY <1>1, <1>3, <2>1, <2>2 DEF Listed
  <2>8. Holds(r)'
    BY <2>1, <2>2, <2>5 DEF Holds
  <2> QED BY <2>6, <2>7, <2>8 DEF Kept
<1>8. CASE SaveFails(r)
  <2>1. /\ UNCHANGED <<directory, index, entries, raced>>
        /\ pc'[r] = "ended" /\ told'[r] = "failed"
    BY <1>8 DEF SaveFails
  <2>2. Progress(r)'
    BY <2>1 DEF Progress
  <2>3. Listed(r)'
    BY <1>1, <2>1 DEF Listed
  <2>4. Holds(r)'
    BY <1>2, <2>1 DEF Holds
  <2> QED BY <2>2, <2>3, <2>4 DEF Kept
<1> QED BY <1>4, <1>5, <1>6, <1>7, <1>8

\* Nor does it disturb another run, unless it takes the name this one found free.
LEMMA OthersKeep ==
    ASSUME OutputInv, NEW r \in Runs, NEW q \in Runs, q # r,
           \/ ClickSign(r) \/ DirectoryChosen(r) \/ SignManualBatch(r) \/ UniqueOutputPath(r)
           \/ Create(r) \/ AddEntry(r) \/ Finish(r) \/ SaveFails(r)
    PROVE  Kept(q)
<1> USE DEF OutputInv, Types, TypeOK, histories, Goto, End
<1>1. Unmoved(q)
  <2>1. CASE ClickSign(r) \/ DirectoryChosen(r) \/ SignManualBatch(r)
    BY <2>1 DEF ClickSign, DirectoryChosen, SignManualBatch, Unmoved
  <2>2. CASE UniqueOutputPath(r) \/ Create(r) \/ AddEntry(r)
    BY <2>2 DEF UniqueOutputPath, Create, AddEntry, Unmoved
  <2>3. CASE Finish(r) \/ SaveFails(r)
    BY <2>3 DEF Finish, SaveFails, Unmoved
  <2> QED BY <2>1, <2>2, <2>3
<1>2. Progress(q) /\ Listed(q) /\ Holds(q) /\ Progress(r) /\ Holds(r)
  OBVIOUS
<1>3. raced => raced'
  BY DEF ClickSign, DirectoryChosen, SignManualBatch, UniqueOutputPath, Create, AddEntry,
         Finish, SaveFails
<1>4. CASE Create(r)
  <2>1. /\ pc[r] = "creating" /\ Path(r) \in Names
        /\ directory' = [directory EXCEPT ![Path(r)] = Part(r)]
        /\ raced' = (raced \/ Awaited(Path(r), r))
    BY <1>2, <1>4, PathIsName DEF Create
  <2>2. \A n \in Names : directory'[n] = Whole(q) => directory[n] = Whole(q)
    BY <2>1, ContentsApart
  <2>3. ASSUME ~raced', pc[q] \in {"creating", "writing"} \/ told[q] = "saved"
        PROVE  directory'[Path(q)] = directory[Path(q)]
    <3>1. directory[Path(r)] = Absent
      BY <1>2, <1>3, <2>1, <2>3 DEF Holds
    <3>2. Path(q) # Path(r)
      <4>1. CASE pc[q] = "creating"
        BY <2>1, <2>3, <4>1 DEF Awaited
      <4>2. CASE pc[q] = "writing" \/ told[q] = "saved"
        BY <1>2, <1>3, <2>3, <3>1, <4>2, ContentsApart DEF Holds
      <4> QED BY <2>3, <4>1, <4>2
    <3>3. Path(q) \in Names
      BY <1>2, <2>3, PathIsName
    <3> QED BY <2>1, <3>2, <3>3
  <2> QED BY <1>1, <1>2, <1>3, <2>2, <2>3, UnmovedKeeps DEF Kept
<1>5. CASE Finish(r)
  <2>1. /\ pc[r] = "writing" /\ Path(r) \in Names
        /\ directory' = [directory EXCEPT ![Path(r)] =
                            IF directory[Path(r)] = Part(r) THEN Whole(r) ELSE Part(r)]
    BY <1>2, <1>5, PathIsName DEF Finish
  <2>2. \A n \in Names : directory'[n] = Whole(q) => directory[n] = Whole(q)
    BY <2>1, ContentsApart
  <2>3. ASSUME ~raced', pc[q] \in {"creating", "writing"} \/ told[q] = "saved"
        PROVE  directory'[Path(q)] = directory[Path(q)]
    <3>1. directory[Path(r)] = Part(r)
      BY <1>2, <1>3, <2>1, <2>3 DEF Holds
    <3>2. directory[Path(q)] \in {Absent, Part(q), Whole(q)}
      BY <1>2, <1>3, <2>3 DEF Holds
    <3>3. Path(q) # Path(r)
      BY <3>1, <3>2, ContentsApart
    <3>4. Path(q) \in Names
      BY <1>2, <2>3, PathIsName
    <3> QED BY <2>1, <3>3, <3>4
  <2> QED BY <1>1, <1>2, <1>3, <2>2, <2>3, UnmovedKeeps DEF Kept
<1>6. CASE ~Create(r) /\ ~Finish(r)
  <2>1. directory' = directory
    BY <1>6 DEF ClickSign, DirectoryChosen, SignManualBatch, UniqueOutputPath, AddEntry,
                SaveFails
  <2> QED BY <1>1, <1>2, <1>3, <2>1, UnmovedKeeps DEF Kept
<1> QED BY <1>4, <1>5, <1>6

\* The rest of the window and other programs.
LEMMA OutsideKeeps ==
    ASSUME OutputInv, NEW q \in Runs,
           ChangeManualFiles \/ (\E n \in Names : OtherCreates(n)) \/ UNCHANGED vars
    PROVE  Kept(q)
<1> USE DEF OutputInv, Types, TypeOK, histories
<1>1. Progress(q) /\ Listed(q) /\ Holds(q)
  OBVIOUS
<1>2. Unmoved(q) /\ (raced => raced')
  BY DEF ChangeManualFiles, OtherCreates, vars, Unmoved
<1>3. ASSUME NEW n \in Names, OtherCreates(n)
      PROVE  Kept(q)
  <2>1. /\ directory[n] = Absent /\ directory' = [directory EXCEPT ![n] = Other]
        /\ raced' = (raced \/ Awaited(n, Absent))
    BY <1>3 DEF OtherCreates
  <2>2. \A m \in Names : directory'[m] = Whole(q) => directory[m] = Whole(q)
    BY <2>1, ContentsApart
  <2>3. ASSUME ~raced', pc[q] \in {"creating", "writing"} \/ told[q] = "saved"
        PROVE  directory'[Path(q)] = directory[Path(q)]
    <3>1. Path(q) # n
      <4>1. CASE pc[q] = "creating"
        BY <2>1, <2>3, <4>1, AbsentAssumption DEF Awaited
      <4>2. CASE pc[q] = "writing" \/ told[q] = "saved"
        BY <1>1, <1>2, <2>1, <2>3, <4>2, ContentsApart DEF Holds
      <4> QED BY <2>3, <4>1, <4>2
    <3>2. Path(q) \in Names
      BY <1>1, <2>3, PathIsName
    <3> QED BY <2>1, <3>1, <3>2
  <2> QED BY <1>1, <1>2, <2>2, <2>3, UnmovedKeeps DEF Kept
<1>4. ASSUME directory' = directory
      PROVE  Kept(q)
  BY <1>1, <1>2, <1>4, UnmovedKeeps DEF Kept
<1>5. ChangeManualFiles \/ UNCHANGED vars => directory' = directory
  BY DEF ChangeManualFiles, vars
<1> QED BY <1>3, <1>4, <1>5

\* At the start there is nothing to count.
LEMMA CountsInit == Init => Counts
BY DEF Init, Counts, Working, Saving

\* A run that works alone has the display to itself, from the clearing of the
\* results it begins with to the message it ends with.
LEMMA CountsKept ==
    ASSUME OutputInv, Counts, [Next]_vars
    PROVE  Counts'
<1> USE DEF Saving, Working, uiVars, histories, Goto, End
<1>t. /\ pc \in [Runs -> {"idle", "choosing", "ended"} \cup Working]
      /\ told \in [Runs -> {"nothing", "cancelled", "saved", "failed"}]
      /\ counted \in [Runs -> SUBSET Runs] /\ manualResults \subseteq Runs
  BY DEF OutputInv, Types, TypeOK
<1>1. \A r \in Runs : told[r] # "nothing" => pc[r] = "ended"
  BY DEF OutputInv, Progress
<1>2. ASSUME NEW r \in Runs, ClickSign(r) \/ UniqueOutputPath(r) \/ Create(r) \/ AddEntry(r)
      PROVE  Counts'
  <2>1. /\ UNCHANGED <<manualResults, told, counted, mixed>>
        /\ \E next \in {"choosing", "testing", "creating", "writing"} :
               pc' = [pc EXCEPT ![r] = next] /\ (next # "choosing" => pc[r] \in Saving)
    <3>1. CASE ClickSign(r)
      BY <1>t, <3>1 DEF ClickSign
    <3>2. CASE UniqueOutputPath(r) \/ Create(r)
      <4>1. pc = [pc EXCEPT ![r] = pc[r]]
        BY <1>t
      <4> QED BY <3>2, <4>1 DEF UniqueOutputPath, Create
    <3>3. CASE AddEntry(r)
      <4>1. pc = [pc EXCEPT ![r] = pc[r]]
        BY <1>t
      <4> QED BY <3>3, <4>1 DEF AddEntry
    <3> QED BY <1>2, <3>1, <3>2, <3>3
  <2>2. PICK next \in {"choosing", "testing", "creating", "writing"} :
            pc' = [pc EXCEPT ![r] = next] /\ (next # "choosing" => pc[r] \in Saving)
    BY <2>1
  <2>3. \A q \in Runs : pc'[q] = IF q = r THEN next ELSE pc[q]
    BY <1>t, <2>2
  <2> QED BY <2>1, <2>2, <2>3 DEF Counts
<1>3. ASSUME NEW r \in Runs, DirectoryChosen(r) PROVE Counts'
  <2>1. CASE pc' = [pc EXCEPT ![r] = "signing"]
    <3>1. /\ manualResults' = {} /\ UNCHANGED <<told, counted>>
          /\ mixed' = (mixed \/ \E q \in Runs \ {r} : pc[q] \in Working)
      BY <1>t, <1>3, <2>1 DEF DirectoryChosen
    <3>2. \A q \in Runs : pc'[q] = IF q = r THEN "signing" ELSE pc[q]
      BY <1>t, <2>1
    <3> QED BY <3>1, <3>2 DEF Counts
  <2>2. CASE pc' = [pc EXCEPT ![r] = "ended"]
    <3>1. /\ UNCHANGED <<manualResults, counted, mixed>>
          /\ told' = [told EXCEPT ![r] = "cancelled"]
      BY <1>t, <1>3, <2>2 DEF DirectoryChosen
    <3>2. \A q \in Runs : /\ pc'[q] = IF q = r THEN "ended" ELSE pc[q]
                          /\ told'[q] = IF q = r THEN "cancelled" ELSE told[q]
      BY <1>t, <2>2, <3>1
    <3> QED BY <3>1, <3>2 DEF Counts
  <2> QED BY <1>3, <2>1, <2>2 DEF DirectoryChosen
<1>4. ASSUME NEW r \in Runs, pc[r] \in Working, UNCHANGED <<counted, mixed>>,
             pc' = [pc EXCEPT ![r] = "ended"], told' = [told EXCEPT ![r] = "failed"]
      PROVE  Counts'
  <2>1. \A q \in Runs : /\ pc'[q] = IF q = r THEN "ended" ELSE pc[q]
                        /\ told'[q] = IF q = r THEN "failed" ELSE told[q]
    BY <1>t, <1>4
  <2> QED BY <1>4, <2>1 DEF Counts
<1>5. ASSUME NEW r \in Runs, SignManualBatch(r) PROVE Counts'
  <2>1. CASE pc' = [pc EXCEPT ![r] = "testing"]
    <3>1. /\ manualResults' = manualResults \cup {r} /\ UNCHANGED <<told, counted, mixed>>
          /\ pc[r] = "signing"
      BY <1>t, <1>5, <2>1 DEF SignManualBatch
    <3>2. \A q \in Runs : pc'[q] = IF q = r THEN "testing" ELSE pc[q]
      BY <1>t, <2>1
    <3> QED BY <3>1, <3>2 DEF Counts
  <2>2. CASE pc' = [pc EXCEPT ![r] = "ended"]
    BY <1>t, <1>4, <1>5, <2>2 DEF SignManualBatch
  <2> QED BY <1>5, <2>1, <2>2 DEF SignManualBatch
<1>6. ASSUME NEW r \in Runs, Finish(r) PROVE Counts'
  <2>1. /\ pc[r] = "writing" /\ pc' = [pc EXCEPT ![r] = "ended"]
        /\ told' = [told EXCEPT ![r] = "saved"]
        /\ counted' = [counted EXCEPT ![r] = manualResults]
        /\ manualResults' = manualResults /\ mixed' = mixed
    BY <1>6 DEF Finish
  <2>2. \A q \in Runs : /\ pc'[q] = IF q = r THEN "ended" ELSE pc[q]
                        /\ told'[q] = IF q = r THEN "saved" ELSE told[q]
                        /\ counted'[q] = IF q = r THEN manualResults ELSE counted[q]
    BY <1>t, <2>1
  <2> QED BY <2>1, <2>2 DEF Counts
<1>7. ASSUME NEW r \in Runs, SaveFails(r) PROVE Counts'
  BY <1>4, <1>7 DEF SaveFails
<1>8. CASE ChangeManualFiles
  <2>1. /\ mixed' = (mixed \/ \E r \in Runs : pc[r] \in Working)
        /\ UNCHANGED <<pc, told, counted>>
    BY <1>8 DEF ChangeManualFiles
  <2> QED BY <2>1 DEF Counts
<1>9. CASE (\E n \in OtherNames : OtherCreates(n)) \/ UNCHANGED vars
  <2>1. UNCHANGED <<pc, told, counted, mixed, manualResults>>
    BY <1>9 DEF OtherCreates, vars
  <2> QED BY <2>1 DEF Counts
<1> QED
  BY <1>2, <1>3, <1>5, <1>6, <1>7, <1>8, <1>9 DEF Next

\* The invariant of every state.
LEMMA OutputInvariance == Spec => []OutputInv
<1>1. Init => OutputInv
  <2> SUFFICES ASSUME Init PROVE OutputInv
    OBVIOUS
  <2>1. Types
    <3>1. 0 \in 0..MaxOthers /\ 0 \in 0..MaxIndex
      BY BoundsAssumption
    <3>2. \A r \in Runs : /\ Len(documents[r]) \in {0, Size(batch[r])}
                          /\ Len(entries[r]) \in 0..Len(documents[r])
      BY DEF Init
    <3>3. documents \in [Runs -> Seq(Signed)] /\ entries \in [Runs -> Seq(EntryNames)]
      BY EmptySeq DEF Init
    <3>4. TypeOK
      BY <3>1, <3>2 DEF Init, TypeOK
    <3> QED BY <3>3, <3>4 DEF Types
  <2>2. \A r \in Runs : Progress(r) /\ Listed(r)
    BY DEF Init, Progress, Listed
  <2>3. \A r \in Runs : Holds(r)
    BY ContentsApart DEF Init, Holds
  <2> QED BY <2>1, <2>2, <2>3 DEF OutputInv
<1>2. OutputInv /\ [Next]_vars => OutputInv'
  <2> SUFFICES ASSUME OutputInv, [Next]_vars PROVE OutputInv'
    OBVIOUS
  <2>1. Types'
    BY TypesKept
  <2>2. ASSUME NEW q \in Runs
        PROVE  Kept(q)
    BY EarlyKeeps, SavingKeeps, OthersKeep, OutsideKeeps, OtherNamesAssumption DEF Next
  <2> QED BY <2>1, <2>2 DEF OutputInv, Kept
<1> QED BY <1>1, <1>2, PTL DEF Spec

\* The results on display are those of the only run that works, until runs mix.
LEMMA CountsInvariance == Spec => []Counts
  BY CountsInit, CountsKept, OutputInvariance, PTL DEF Spec

\* Every state is one the runs and the folder can be in.
THEOREM OutputTypeCorrect == Spec => []TypeOK
  BY OutputInvariance, PTL DEF OutputInv, Types

\* Every signed PDF of every run verifies, whatever was signed before in it.
THEOREM SignedOutputsVerify == Spec => []SignedPdfVerifies
<1>1. OutputInv => SignedPdfVerifies
  <2> SUFFICES ASSUME OutputInv, NEW r \in Runs, NEW i \in DOMAIN documents[r],
                      documents[r][i].name.format = "pdf",
                      HasNoPlaceholder(documents[r][i].source)
               PROVE  Verifies(documents[r][i].data, Len(documents[r][i].source) + 2)
    BY DEF SignedPdfVerifies
  <2>1. documents[r] \in Seq(Signed) /\ i \in 1..Len(documents[r])
    BY LenProperties DEF OutputInv, Types
  <2>2. documents[r][i] \in Signed
    BY <2>1, ElementOfSeq
  <2> QED BY <2>2, DocumentVerifies
<1> QED BY <1>1, OutputInvariance, PTL

\* What the window says in the end is so: a run that says it saved has all it
\* signed under its name, a ZIP an entry of its own for each file, and counts its
\* own files unless runs overlapped or the selection was changed meanwhile; a run
\* that says it failed left no complete output behind.
THEOREM ReportsAreTrue == Spec => []ReportIsTrue
<1>1. OutputInv /\ Counts => ReportIsTrue
  <2> SUFFICES ASSUME OutputInv, Counts, NEW r \in Runs
               PROVE  /\ told[r] = "saved" =>
                          /\ directory[Path(r)] = Whole(r) \/ raced
                          /\ IsZip(r) => Cardinality(Range(entries[r])) = Size(batch[r])
                          /\ counted[r] = {r} \/ mixed
                      /\ told[r] = "failed" => \A n \in Names : directory[n] # Whole(r)
    BY DEF ReportIsTrue
  <2>1. Progress(r) /\ Listed(r) /\ Holds(r) /\ entries[r] \in Seq(EntryNames)
    BY DEF OutputInv, Types
  <2>2. told[r] = "saved" => directory[Path(r)] = Whole(r) \/ raced
    BY <2>1 DEF Holds
  <2>3. told[r] = "saved" /\ IsZip(r) => Cardinality(Range(entries[r])) = Size(batch[r])
    BY <2>1, EntriesCounted DEF Listed, Progress
  <2>4. told[r] = "failed" => \A n \in Names : directory[n] # Whole(r)
    BY <2>1 DEF Holds
  <2>5. told[r] = "saved" => counted[r] = {r} \/ mixed
    BY DEF Counts
  <2> QED BY <2>2, <2>3, <2>4, <2>5
<1> QED BY <1>1, OutputInvariance, CountsInvariance, PTL

\* No save changes a complete file, of another run or of another program, unless
\* the name was taken between its test and its use.
THEOREM CompleteFilesAreKept == Spec => NothingIsLost
<1>1. ASSUME OutputInv, [Next]_vars, ~raced', NEW n \in Names,
             directory[n] = Other \/ (directory[n] # Absent /\ directory[n].whole)
      PROVE  directory'[n] = directory[n]
  <2> USE <1>1 DEF OutputInv, Types, TypeOK, histories
  <2>0. directory[n] # Absent /\ \A r \in Runs : directory[n] # Part(r)
    BY ContentsApart
  <2>1. ASSUME NEW r \in Runs, Create(r)
        PROVE  directory'[n] = directory[n]
    <3>1. ~raced /\ pc[r] = "creating" /\ directory' = [directory EXCEPT ![Path(r)] = Part(r)]
      BY <2>1 DEF Create
    <3>2. directory[Path(r)] = Absent
      BY <3>1 DEF Holds
    <3> QED BY <2>0, <3>1, <3>2
  <2>2. ASSUME NEW r \in Runs, Finish(r)
        PROVE  directory'[n] = directory[n]
    <3>1. ~raced /\ pc[r] = "writing" /\ \A m \in Names : m # Path(r) => directory'[m] = directory[m]
      BY <2>2 DEF Finish
    <3>2. directory[Path(r)] = Part(r)
      BY <3>1 DEF Holds
    <3> QED BY <2>0, <3>1, <3>2
  <2>3. ASSUME NEW m \in Names, OtherCreates(m)
        PROVE  directory'[n] = directory[n]
    BY <2>0, <2>3 DEF OtherCreates
  <2>4. \/ \E r \in Runs : Create(r) \/ Finish(r)
        \/ \E m \in Names : OtherCreates(m)
        \/ directory' = directory
    BY OtherNamesAssumption DEF Next, ClickSign, DirectoryChosen, SignManualBatch, UniqueOutputPath, AddEntry,
           SaveFails, ChangeManualFiles, vars
  <2> QED BY <2>1, <2>2, <2>3, <2>4
<1>2. OutputInv /\ [Next]_vars =>
          [~raced' => \A n \in Names :
               directory[n] = Other \/ (directory[n] # Absent /\ directory[n].whole)
                   => directory'[n] = directory[n]]_vars
  BY <1>1
<1> QED BY <1>2, OutputInvariance, PTL DEF Spec, NothingIsLost
=============================================================================
