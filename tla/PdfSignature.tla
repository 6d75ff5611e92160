----------------------------- MODULE PdfSignature -----------------------------
(***************************************************************************)
(* How core/pdf/signing.rs puts a detached signature into a PDF.           *)
(*                                                                         *)
(* The document is read and written again with a signature dictionary      *)
(* whose ByteRange and Contents are placeholders.  Both are then found by  *)
(* searching the bytes, and replaced in place: the ranges before the       *)
(* digest is taken, the CMS after it.                                      *)
(*                                                                         *)
(* A document is a sequence of tokens and an offset counts the tokens      *)
(* before it; a replacement is padded to the length of its placeholder, so *)
(* no other token moves.                                                   *)
(***************************************************************************)
EXTENDS Naturals, Sequences

\* The values of the two placeholders: BYTE_RANGE_SENTINEL, and zeros.
Sentinel == <<>>
Zeros == <<>>

Text(t) == [kind |-> "text", value |-> t]
ByteRange(v) == [kind |-> "byteRange", value |-> v]
Contents(cms) == [kind |-> "contents", value |-> cms]

\* signature_dictionary, and the objects written after it.
SignatureDictionary == <<ByteRange(Sentinel), Contents(Zeros)>>
Trailer == <<Text(<<"trailer">>)>>

\* prepare_pdf_for_signature: lopdf writes every object again, nothing of the
\* file's own bytes is kept, except what stands inside a value.
Rewritten(source) ==
    [i \in DOMAIN source |->
        IF source[i].kind = "text" THEN Text(Append(source[i].value, "rewritten"))
        ELSE source[i]]

Prepared(source) == Rewritten(source) \o SignatureDictionary \o Trailer

\* find_bytes: the first occurrence.
FindBytes(doc, token) ==
    CHOOSE i \in DOMAIN doc : doc[i] = token /\ \A j \in 1..(i - 1) : doc[j] # token

\* patch_byte_range.  Ten digits hold every offset, so the replacement fits.
PatchByteRange(doc) ==
    LET contents == FindBytes(doc, Contents(Zeros))
        range == FindBytes(doc, ByteRange(Sentinel))
    IN  [doc EXCEPT ![range] =
            ByteRange(<<0, contents - 1, contents, Len(doc) - contents>>)]

\* digest_byte_range; documents with the same digest are the same here.
DigestByteRange(doc, contents) ==
    SubSeq(doc, 1, contents - 1) \o SubSeq(doc, contents + 1, Len(doc))

\* insert_cms_signature: the signature over the digest.
InsertCmsSignature(doc, contents, digest) == [doc EXCEPT ![contents] = Contents(digest)]

\* Wrong variant: the digest is taken before the ranges are known.
SignedPdfDigestFirst(source) ==
    LET prepared == Prepared(source)
        contents == FindBytes(prepared, Contents(Zeros))
    IN  InsertCmsSignature(PatchByteRange(prepared), contents,
                           DigestByteRange(prepared, contents))

\* sign_pdf_bytes, when the token signs and the CMS fits the reserved bytes.
SignedPdf(source) ==
    LET prepared == Prepared(source)
        contents == FindBytes(prepared, Contents(Zeros))
        patched == PatchByteRange(prepared)
    IN  InsertCmsSignature(patched, contents, DigestByteRange(patched, contents))

\* What a reader of the file reads as covered by a byte range.
Covered(doc, range) ==
    SubSeq(doc, range[1] + 1, range[1] + range[2])
        \o SubSeq(doc, range[3] + 1, range[3] + range[4])

\* The signature whose Contents is token n verifies, and covers all but itself.
Verifies(doc, n) ==
    LET range == doc[n - 1].value IN
    /\ doc[n - 1].kind = "byteRange" /\ range # Sentinel
    /\ range = <<0, n - 1, n, Len(doc) - n>>
    /\ doc[n].kind = "contents"
    /\ doc[n].value = Covered(doc, range)

\* No placeholder of a signature that was prepared and never made.
HasNoPlaceholder(source) ==
    \A i \in DOMAIN source : source[i] \notin {ByteRange(Sentinel), Contents(Zeros)}
=============================================================================
