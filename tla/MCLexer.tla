------------------------------- MODULE MCLexer -------------------------------
(***************************************************************************)
(* Every text of at most MaxLength characters over one or two characters   *)
(* of each class.  The keywords are spelt with one and two letters, so     *)
(* that short texts hold words that are, begin with and continue a         *)
(* keyword.                                                                *)
(***************************************************************************)
EXTENDS Lexer, SequencesExt

CONSTANT MaxLength

MCTexts  == BoundedSeq(Character, MaxLength)
MCMotif  == <<"m">>
MCExtern == <<"m", "x">>

=============================================================================
