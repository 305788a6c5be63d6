------------------------------- MODULE MCLexer -------------------------------
(***************************************************************************)
(* Every source of at most four characters, one or two of each class, with *)
(* a keyword of two letters; and longer ones of the characters that        *)
(* numbers and strings are made of.                                        *)
(***************************************************************************)
EXTENDS Lexer

MCAlpha == {"i", "f", "_"}
MCDigit == {"0", "1"}
MCKeyword == (<<"i", "f">>) :> "If"

Strings(chars, n) == UNION {[1 .. k -> chars] : k \in 0 .. n}

MCInput ==
  Strings({"i", "f", "1", ".", Quote, Newline, "=", "!", "&", ";", "#"}, 4)
    \cup Strings({"0", "1", ".", "_"}, 5)
    \cup Strings({Quote, Newline, " ", "i"}, 5)
    \cup Strings({"<", ">", "=", "|", "&"}, 4)
===============================================================================
