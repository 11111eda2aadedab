-------------------------- MODULE MCPragmaHandler ---------------------------
(* Files for PragmaHandler.                                                *)
EXTENDS PragmaHandler

Good == <<"particle", "grid", "lparen", "id", "rparen">>

(* The file with these kinds; every pragma has this header.                *)
File(kinds, header) ==
  [q \in DOMAIN kinds |->
     [kind |-> kinds[q],
      header |-> IF kinds[q] = "pragma" THEN header ELSE <<>>]]

(* A synchronized block in braces.                                         *)
BracedFile == {File(<<"define", "pragma", "lb", "sync", "lb", "other", "rb",
                      "other", "rb">>, Good)}

(* One particle inside another.                                            *)
NestedFile == {File(<<"define", "pragma", "lb", "other", "pragma", "lb", "semi",
                      "rb", "rb", "other">>, Good)}
=============================================================================
