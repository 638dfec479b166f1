---------------------------- MODULE MCStdioClient ---------------------------
(* One session with a server that repeats itself, says what nobody asked   *)
(* for, hangs or exits.                                                    *)
EXTENDS StdioClient
=============================================================================
