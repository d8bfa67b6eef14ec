------------------------- MODULE MCTranslationPath -------------------------
(* TranslationPath for TLC. *)
EXTENDS TranslationPath
=============================================================================
