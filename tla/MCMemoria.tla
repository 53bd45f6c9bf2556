------------------------------- MODULE MCMemoria -------------------------------
(***************************************************************************)
(* Small instances of MemoriaInterna for TLC: initial_file:BASE and one or *)
(* two more names, files of up to two pages, one character.                *)
(***************************************************************************)
EXTENDS MemoriaInterna

CONSTANTS base, f, g, a

\* A string of a page and a half, and one that starts past what may be a NUL,
\* ends its page and spills its own NUL into the next.
MCEscrituras == {[dir |-> 0, contenido |-> <<a, a, a>>], [dir |-> 1, contenido |-> <<a>>]}
MCLecturas == {[dir |-> 0, tam |-> 4], [dir |-> 1, tam |-> 2]}

\* With pages of one byte: the empty string, and one that spills its NUL.
EscriturasUnByte == {[dir |-> 0, contenido |-> <<>>], [dir |-> 0, contenido |-> <<a>>]}
LecturasUnByte == {[dir |-> 0, tam |-> 2], [dir |-> 0, tam |-> 0]}
=============================================================================
