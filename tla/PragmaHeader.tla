---------------------------- MODULE PragmaHeader ----------------------------
(***************************************************************************)
(* The header of "#pragma knorba ..." as HandlePragma reads it             *)
(* (src/CXX-Preprocessor/src/ClangProxy.cpp): each token is tested as it   *)
(* is lexed and the first one in error ends the call.  A PragmaParticle,   *)
(* and with it the number in the name of the thread function, is created   *)
(* before the type of the particle is known to be right.                   *)
(*                                                                         *)
(* A header is the sequence of the kinds of its tokens.  "particle" and    *)
(* "grid" are identifiers with these spellings, "id" is any other one.     *)
(***************************************************************************)
EXTENDS Integers, Sequences

Identifiers == {"particle", "grid", "id"}

Kinds == Identifiers \cup {"lparen", "rparen", "comma", "other", "eod"}

(* What HandlePragma tests the next token for, and how it has ended.       *)
Tests == {"keyword", "type", "lparen", "dimension", "separator", "eod",
          "accepted", "rejected"}

Require(right, next) == IF right THEN next ELSE "rejected"

(* Operators named Mut... are plausible bugs of the definition that follows *)
(* them; no specification uses them.                                       *)

(* The closing parenthesis may stand where a dimension should.             *)
MutSeparator(token) ==
  CASE token = "comma"  -> "separator"
    [] token = "rparen" -> "eod"
    [] OTHER            -> "rejected"

Separator(token) ==
  CASE token = "comma"  -> "dimension"
    [] token = "rparen" -> "eod"
    [] OTHER            -> "rejected"

(* One call of pp.Lex and the test of its token.                           *)
Lexed(test, token) ==
  [keyword   |-> Require(token = "particle", "type"),
   type      |-> Require(token = "grid", "lparen"),
   lparen    |-> Require(token = "lparen", "dimension"),
   dimension |-> Require(token \in Identifiers, "separator"),
   separator |-> Separator(token),
   eod       |-> Require(token = "eod", "accepted"),
   accepted  |-> "rejected",
   rejected  |-> "rejected"][test]

(* The test of the nth token.                                              *)
TestOf(header, n) ==
  LET test[k \in 1..(Len(header) + 1)] ==
        IF k = 1 THEN "keyword" ELSE Lexed(test[k - 1], header[k - 1])
  IN  test[n]

(* HandlePragma up to the lookahead for the block.                         *)
Accepted(header) ==
  Lexed(TestOf(header, Len(header) + 1), "eod") = "accepted"

(* pragma->addDimension, for each token before the last.                   *)
Dimensions(header) ==
  LET dimensions[k \in 1..(Len(header) + 1)] ==
        CASE k = 1 -> <<>>
          [] k > 1 /\ TestOf(header, k - 1) = "dimension" ->
               Append(dimensions[k - 1], k - 1)
          [] OTHER -> dimensions[k - 1]
  IN  dimensions[Len(header) + 1]

(* A PragmaParticle is created from any identifier after the keyword.      *)
Created(header) ==
  \E n \in DOMAIN header :
    TestOf(header, n) = "type" /\ header[n] \in Identifiers

(* PragmaParticle::PragmaParticle: the number of the next one.             *)
MutNextNumber(header, n) == IF Accepted(header) THEN n ELSE 1

NextNumber(header, n) == IF Created(header) THEN n + 1 ELSE n
-----------------------------------------------------------------------------
(* What the header should be: particle grid ( id {, id} )                  *)
Grammatical(h) ==
  LET n == Len(h) IN
  /\ n >= 5 /\ n % 2 = 1
  /\ h[1] = "particle" /\ h[2] = "grid" /\ h[3] = "lparen" /\ h[n] = "rparen"
  /\ \A k \in 4..(n - 1) :
       IF k % 2 = 0 THEN h[k] \in Identifiers ELSE h[k] = "comma"

(* The places of the names of the dimensions.                              *)
Names(h) == [k \in 1..((Len(h) - 3) \div 2) |-> 2 * k + 2]
=============================================================================
