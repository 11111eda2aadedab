--------------------------- MODULE RewriteBuffer ----------------------------
(***************************************************************************)
(* clang's RewriteBuffer and the operations of Rewriter that ParserProxy   *)
(* calls (src/Third-Party/llvm/tools/clang/lib/Rewrite/Core).  Edits are   *)
(* given at offsets of the original text.  A buffer is its edited text; by *)
(* how much the edits so far have moved what lies at each offset; and      *)
(* whether it has been asked for an edit beyond its text.                  *)
(*                                                                         *)
(* A text is a sequence of characters; an offset counts the characters     *)
(* before it.                                                              *)
(***************************************************************************)
EXTENDS Integers, Sequences

(* What is kept for each index is the sum of the deltas recorded before    *)
(* it.  Each offset has two, for what is inserted at it and for what is    *)
(* removed from it on.                                                     *)
Fresh(text) ==
  [text |-> text, deltas |-> [i \in 0..(2 * Len(text) + 1) |-> 0],
   invalid |-> FALSE]

DeltaAt(b, index) == b.deltas[index]

Mapped(b, offset, afterInserts) ==
  offset + DeltaAt(b, 2 * offset + (IF afterInserts THEN 1 ELSE 0))

AddDelta(b, index, change) ==
  [b EXCEPT !.deltas = [i \in DOMAIN @ |-> IF index < i THEN @[i] + change ELSE @[i]]]

Splice(text, offset, string) ==
  SubSeq(text, 1, offset) \o string \o SubSeq(text, offset + 1, Len(text))

InsertText(b, offset, string, after) ==
  LET real == Mapped(b, offset, after) IN
  IF real \notin 0..Len(b.text) THEN [b EXCEPT !.invalid = TRUE]
  ELSE AddDelta([b EXCEPT !.text = Splice(@, real, string)], 2 * offset, Len(string))

InsertTextAfter(b, offset, string)  == InsertText(b, offset, string, TRUE)
InsertTextBefore(b, offset, string) == InsertText(b, offset, string, FALSE)

(* The range from begin to the end of the token, of this length, at end.   *)
RangeSize(b, begin, end, tokenLength) ==
  Mapped(b, end, TRUE) + tokenLength - Mapped(b, begin, FALSE)

(* A negative size is a huge unsigned one.                                 *)
RemoveText(b, begin, size) ==
  LET real == Mapped(b, begin, TRUE) IN
  IF size = 0 THEN b
  ELSE IF size < 0 \/ real < 0 \/ real + size >= Len(b.text)
  THEN [b EXCEPT !.invalid = TRUE]
  ELSE AddDelta([b EXCEPT !.text = SubSeq(@, 1, real) \o
                                   SubSeq(@, real + size + 1, Len(@))],
                2 * begin + 1, -size)

RemoveRange(b, begin, end, tokenLength) ==
  RemoveText(b, begin, RangeSize(b, begin, end, tokenLength))
=============================================================================
