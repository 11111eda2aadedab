--------------------------- MODULE MCParserProxy ----------------------------
(* Files for ParserProxy.                                                  *)
EXTENDS ParserProxy

Good == <<"particle", "grid", "lparen", "id", "rparen">>
Two  == <<"particle", "grid", "lparen", "id", "comma", "id", "rparen">>

(* The file with these kinds; every pragma has this header.                *)
File(kinds, header) ==
  [q \in DOMAIN kinds |->
     [kind |-> kinds[q],
      header |-> IF kinds[q] = "pragma" THEN header ELSE <<>>]]

(* Lookahead: every file of at most 4 items after the definition of the    *)
(* macro and a pragma, with or without something between the two, and      *)
(* larger files put together from at most three pieces.                    *)
Items == {"lb", "rb", "semi", "other", "sync", "pragma"}

ShortFiles == {File(<<"define">> \o lead \o <<"pragma">> \o rest, Good) :
                 lead \in {<<>>, <<"other">>}, rest \in SeqOf(Items, 4)}

Pieces == {
  <<"other", "semi">>,
  <<"define">>,
  <<"sync", "other", "semi">>,
  <<"pragma", "lb", "other", "rb">>,
  <<"pragma", "lb", "lb", "rb", "sync", "other", "semi", "rb">>,
  <<"pragma", "lb", "sync", "sync", "semi", "sync", "lb", "lb", "sync", "semi",
    "rb", "rb", "other", "rb">>,
  <<"pragma", "other", "semi">>}

PieceFiles == {File(FlattenSeq(s), Good) : s \in SeqOf(Pieces, 3)}

(* Headers: any header of at most 3 tokens, and whatever may follow the    *)
(* parenthesis of one that begins well, between two good ones.             *)
Headers ==
  SeqOf(Kinds \ {"eod"}, 3) \cup
  {<<"particle", "grid", "lparen">> \o rest :
     rest \in SeqOf({"id", "grid", "rparen", "comma", "other"}, 4)} \cup
  {<<"particle", "grid", "lparen", "id", "comma">> \o rest :
     rest \in SeqOf({"id", "rparen", "comma"}, 3)}

HeaderFiles ==
  {File(<<"pragma", "semi">>, Good) \o File(<<"pragma", "semi">>, h)
     \o File(<<"pragma", "semi">>, Good) : h \in Headers}

(* Rewriting: one function with a body of at most three of these, or two   *)
(* with at most one each; one declared outside, one inside another.        *)
Statements == {
  <<"other", "semi">>,
  <<"shared", "other", "semi">>,
  <<"shared", "wide", "comma", "other", "semi">>,
  <<"shared", "other", "semi", "glued", "semi">>,
  <<"pragma", "lb", "other", "rb">>,
  <<"pragma", "lb", "shared", "wide", "semi", "rb">>,
  <<"pragma", "lb", "other", "sync", "other", "semi", "rb">>,
  <<"pragma", "lb", "sync", "other", "semi", "sync", "other", "semi", "rb">>,
  <<"pragma", "lb", "sync", "lb", "other", "rb", "rb">>,
  <<"pragma", "other", "semi">>}

(* Particles with several blocks, the last at the end or after many uses.  *)
SeveralBlocks == {
  <<"pragma", "lb", "sync", "other", "semi", "sync", "lb", "other", "rb", "rb">>,
  <<"pragma", "lb", "sync", "sync", "sync", "sync", "sync", "sync", "semi",
    "sync", "other", "semi", "rb">>}

Function(body) == <<"fn", "lb">> \o body \o <<"rb">>

Bodies(n) == {FlattenSeq(s) : s \in SeqOf(Statements, n)}

Wholes(n) ==
  {Function(b) : b \in Bodies(n)} \cup
  {Function(b) \o Function(c) : b, c \in Bodies(1)} \cup
  {Function(<<"shared", "other", "semi">> \o b) \o
   Function(<<"shared", "wide", "semi">> \o c) : b, c \in Bodies(1)} \cup
  {Function(b \o Function(c)) : b, c \in Bodies(1)} \cup
  {<<"shared", "other", "semi">> \o Function(b) : b \in Bodies(1)} \cup
  {Function(<<"shared", "other", "semi">> \o b) : b \in SeveralBlocks}

RewriteFiles == {File(<<"define">> \o k, Good) : k \in Wholes(3)} \cup
                {File(<<"define">> \o k, Two) : k \in Wholes(1)}

AllFiles == ShortFiles \cup PieceFiles \cup HeaderFiles \cup RewriteFiles

(* A variable and a particle, each of the plainest form.                   *)
PlainFile == {File(Function(<<"shared", "other", "semi",
                              "pragma", "lb", "other", "semi", "rb">>), Good)}

(* A long token at the end of a declaration.                               *)
WideFile == {File(Function(<<"other", "semi", "shared", "wide", "semi",
                             "pragma", "lb", "other", "rb">>), Good)}
=============================================================================
